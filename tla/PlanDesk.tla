------------------------------ MODULE PlanDesk ------------------------------
(***************************************************************************)
(* Plans in front of the preflight: a client submits one of PlanInput      *)
(* against a well of the given depth and is told whether it can be locked, *)
(* with the plan that would be stored.  Preflight is read-only and pure,   *)
(* so the module states what its answer means.                             *)
(***************************************************************************)
EXTENDS PlanRules

CONSTANTS
  Depth,      \* total depth of the locked baseline
  PlanInput   \* plans a client may submit

ASSUME DeskAssumption == Depth \in Nat \ {0} /\ PlanInput \subseteq SubmittedPlan

VARIABLES input, answer

vars == <<input, answer>>

Unasked == [verdict |-> "unasked", issues |-> {}]

Init == input \in PlanInput /\ answer = Unasked

\* Service.PreflightPlan, and SetPlan's refusal for the same input.
Preflight ==
  /\ answer = Unasked
  /\ answer' = [verdict |-> PlanVerdict(Depth, input), issues |-> PlanIssues(Depth, input)]
  /\ UNCHANGED input

Next == Preflight

Spec == Init /\ [][Next]_vars

Lockable == answer.verdict = "locked"

-----------------------------------------------------------------------------
(* What a lockable plan is, without walking its layers in order.           *)

\* Layers that reach a point between d and d + 1 metres.
Reaching(layers, d) == {k \in DOMAIN layers : layers[k].from <= d /\ d < layers[k].to}

\* The layers tile the depth exactly and are numbered from the surface down.
Tiles(layers) ==
  /\ \A d \in 0..(Depth - 1) : Cardinality(Reaching(layers, d)) = 1
  /\ \A k \in DOMAIN layers :
       /\ 0 <= layers[k].from /\ layers[k].from < layers[k].to /\ layers[k].to <= Depth
       /\ layers[k].seq = 1 + Cardinality({j \in DOMAIN layers : layers[j].from < layers[k].from})

Listed(texts) == /\ \A k \in DOMAIN texts : ~IsBlank(texts[k])
                 /\ Cardinality(Trimmed(texts)) = Len(texts)

\* Preflight lets a plan through exactly if its layers tile the well from the
\* surface to the bottom, the lots used are the lots registered, evidence is
\* asked for, and two different people prepared and reviewed it -- whatever
\* order or spelling the client used.
LockableIffSound ==
  answer # Unasked =>
    (Lockable <=>
      /\ Tiles(input.layers)
      /\ input.layers # << >>
      /\ Listed(input.lots)
      /\ Trimmed(input.lots) = {Trim[input.layers[k].lot] : k \in DOMAIN input.layers}
      /\ Listed(input.evidence) /\ input.evidence # << >>
      /\ \A k \in DOMAIN input.layers : input.layers[k].target > 0 /\ ~IsBlank(input.layers[k].stage)
      /\ input.tolerance \in 0..(50 * Percent)
      /\ ~IsBlank(input.preparedBy) /\ ~IsBlank(input.reviewedBy)
      /\ Trim[input.preparedBy] # Trim[input.reviewedBy])

\* A checkpoint that reports a layer exactly as the stored plan has it.
AsPlanned(plan, k) ==
  LET l == plan.layers[k]
  IN  [seq |-> l.seq, from |-> l.from, to |-> l.to, stage |-> l.stage, lot |-> l.lot,
       volume |-> l.target, recordedBy |-> plan.preparedBy, evidenceDigest |-> plan.reviewedBy,
       evidence |-> RequiredEvidence(plan, l), named |-> TRUE, elevation |-> TRUE]

\* No lockable plan is a trap: reporting each of its layers as planned passes
\* the construction gate, so the case can be sealed.
LockableIsBuildable ==
  Lockable => \A k \in DOMAIN NormalizedPlan(input).layers :
                Conforms(NormalizedPlan(input), AsPlanned(NormalizedPlan(input), k))

\* A stored plan submitted again, as VerifyPayload does to recompute its digest.
Resubmitted(plan) == [plan EXCEPT !.lots = SetToSeq(@), !.evidence = SetToSeq(@)]

\* The digest of a lockable plan depends neither on the order its layers were
\* typed in nor on normalising it once more, so an archive can recompute it.
DigestIsCanonical ==
  Lockable =>
    /\ PlanDigest(Resubmitted(NormalizedPlan(input))) = PlanDigest(input)
    /\ PlanDigest([input EXCEPT !.layers = Reverse(@)]) = PlanDigest(input)
=============================================================================
