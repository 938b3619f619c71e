--------------------------- MODULE MCCaseWorkflow ---------------------------
(***************************************************************************)
(* A well of depth 2 with two layers, five people (one name in a padded    *)
(* spelling), and the items that fail each kind of gate once.  A volume one    *)
(* millilitre in six off is just within the tolerance of 16.667 percent,   *)
(* and 16.67 percent when rounded.                                         *)
(***************************************************************************)
EXTENDS CaseWorkflow

MCText == {"", "ana", "bo", "cy", "di", "di ", "lot", "other", "clay", "photo", "sha"}
MCTrim == [t \in MCText |-> IF t = "di " THEN "di" ELSE t]

MCBaselineInput == {[depth |-> 2, complete |-> TRUE], [depth |-> 3, complete |-> TRUE],
                    [depth |-> 2, complete |-> FALSE]}

MCLayer(n, evidence) ==
  [seq |-> n, from |-> n - 1, to |-> n, stage |-> "clay", lot |-> "lot",
   target |-> 6, evidence |-> evidence]

PlanBy(preparer, reviewer) ==
  [layers |-> <<MCLayer(2, {"sha"}), MCLayer(1, {})>>, lots |-> <<"lot">>, evidence |-> <<"photo">>,
   tolerance |-> 16667, preparedBy |-> preparer, reviewedBy |-> reviewer]

\* The same in two lots.
InTwoLots(p) == [p EXCEPT !.lots = <<"lot", "other">>, !.layers[1].lot = "other"]

MCPlanInput == {PlanBy("ana", "bo"), InTwoLots(PlanBy("cy", "bo")), PlanBy("ana", "ana")}

Item(n, by) ==
  [seq |-> n, from |-> n - 1, to |-> n, stage |-> "clay", lot |-> "lot", volume |-> 7,
   recordedBy |-> by, evidenceDigest |-> "sha", evidence |-> {"photo", "sha"},
   named |-> TRUE, elevation |-> n = 2]

MCItemInput ==
  {Item(1, "cy"), [Item(1, "di") EXCEPT !.volume = 6], Item(2, "di "),
   [Item(1, "cy") EXCEPT !.volume = 8], [Item(2, "cy") EXCEPT !.elevation = FALSE],
   [Item(2, "cy") EXCEPT !.evidence = {"photo"}], [Item(2, "cy") EXCEPT !.lot = "other"]}

MCPerson == {"", "cy", "di"}

\* For the run about witnesses: one plan.
MCOnePlan == {PlanBy("ana", "bo")}

MCLayerInput == {1}

MCConfirmedInput == {ChecklistCodes, ChecklistCodes \ {"plan"}}
=============================================================================
