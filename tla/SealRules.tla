------------------------------ MODULE SealRules ------------------------------
(***************************************************************************)
(* The pure domain rules of the sealing workbench: what makes a checkpoint *)
(* conform to the locked plan, the layered verification report, the        *)
(* witness checklist, the people who may not witness, and what a retest    *)
(* must register.  A digest (SHA-256 over canonical JSON) is modelled by   *)
(* the value it is taken over: equal digests are equal contents.           *)
(*                                                                         *)
(* Depths and volumes are integers (the code has float64): whole           *)
(* millimetres and millilitres, which is what the workbench rounds to.     *)
(***************************************************************************)
EXTENDS Integers, FiniteSets, Sequences, SequencesExt

CONSTANTS
  Text,     \* spellings a client may type for a name, lot, stage or evidence type
  Blank,    \* the empty spelling
  Trim      \* strings.TrimSpace, a function on Text

ASSUME TrimAssumption ==
  /\ Blank \in Text
  /\ Trim \in [Text -> Text]
  /\ Trim[Blank] = Blank
  /\ \A t \in Text : Trim[Trim[t]] = Trim[t]

IsBlank(t) == Trim[t] = Blank

Abs(n) == IF n < 0 THEN -n ELSE n

-----------------------------------------------------------------------------
(* A plan is [layers, lots, tolerance, evidence, preparedBy, reviewedBy],  *)
(* a layer [seq, from, to, stage, lot, target, evidence].  A checkpoint    *)
(* carries the layer's fields as measured, who recorded it, and its        *)
(* measurements summed up in two facts: `named' (each has a name and a     *)
(* unit) and `elevation' (one of them is terminal_elevation in metres).    *)

\* A layer's own evidence list replaces the plan's as soon as it has an entry.
RequiredEvidence(plan, layer) ==
  IF layer.evidence = {} THEN plan.evidence ELSE layer.evidence

\* Tolerances are in thousandths of a percent, finer than the workbench shows them.
Percent == 1000

\* Fault variant: a volume on the very limit is refused.
OutOfToleranceAtLimit(plan, layer, volume) ==
  Abs(volume - layer.target) * 100 * Percent >= layer.target * plan.tolerance

OutOfTolerance(plan, layer, volume) ==
  Abs(volume - layer.target) * 100 * Percent > layer.target * plan.tolerance

\* The category of the first test that fails, in the order of the tests.
FirstFailure(tests) ==
  LET failing == {k \in DOMAIN tests : tests[k].fails}
  IN  IF failing = {} THEN "ok" ELSE tests[Min(failing)].category

CheckCheckpoint(plan, cp) ==
  IF cp.seq \notin DOMAIN plan.layers THEN "depth_out_of_range"
  ELSE LET l == plan.layers[cp.seq] IN FirstFailure(<<
    [category |-> "stage_mismatch",          fails |-> cp.stage # l.stage],
    [category |-> "depth_out_of_range",      fails |-> cp.from # l.from \/ cp.to # l.to],
    [category |-> "material_mismatch",       fails |-> cp.lot # l.lot],
    [category |-> "volume_out_of_tolerance",
        fails |-> cp.volume <= 0 \/ OutOfTolerance(plan, l, cp.volume)],
    [category |-> "recorder_missing",        fails |-> IsBlank(cp.recordedBy)],
    [category |-> "evidence_missing",
        fails |-> \/ IsBlank(cp.evidenceDigest)
                  \/ ~(RequiredEvidence(plan, l) \subseteq cp.evidence)],
    [category |-> "measurement_invalid",     fails |-> ~cp.named],
    [category |-> "terminal_elevation_missing",
        fails |-> cp.seq + 1 \notin DOMAIN plan.layers /\ ~cp.elevation] >>)

Conforms(plan, cp) == CheckCheckpoint(plan, cp) = "ok"

-----------------------------------------------------------------------------
(* A deviation is [category, layer, open, closedBy, dispositions]: `layer' *)
(* is the number it was raised with, whether the plan has it or not.  A    *)
(* disposition is one attempt [closedBy, retest] at closing it.            *)

Deviation(category, layer) ==
  [category |-> category, layer |-> layer, open |-> TRUE, closedBy |-> Blank,
   dispositions |-> << >>]

OpenDeviations(deviations) == {i \in DOMAIN deviations : deviations[i].open}

RetestKeys ==
  {"measured_depth_m", "material_lot_verified", "actual_volume_l", "evidence_verified"}

\* What a passed retest of each category has to register.
RequiredRetest(category) ==
  LET demands == {
        <<"depth_out_of_range", "measured_depth_m">>,
        <<"terminal_elevation_missing", "measured_depth_m">>,
        <<"material_mismatch", "material_lot_verified">>,
        <<"volume_out_of_tolerance", "actual_volume_l">>,
        <<"evidence_missing", "evidence_verified">>,
        <<"witness_return", "evidence_verified">> }
  IN  {d[2] : d \in {e \in demands : e[1] = category}}

-----------------------------------------------------------------------------
(* The layered report.  Of each check it keeps what the message spells     *)
(* out: the category found, the volume, the evidence missing.              *)

Tolerable == {"ok", "volume_out_of_tolerance", "evidence_missing", "terminal_elevation_missing"}

\* When a layer has two checkpoints the later one in the list is reported on.
LayerChecks(plan, checkpoints, k) ==
  LET layer == plan.layers[k]
      at    == {c \in DOMAIN checkpoints : checkpoints[c].seq = layer.seq}
      cp    == checkpoints[Max(at)]
  IN  IF at = {}
      THEN [interval |-> "absent", volume |-> 0, tolerated |-> FALSE,
            missing |-> RequiredEvidence(plan, layer), elevation |-> FALSE]
      ELSE [interval |-> CheckCheckpoint(plan, cp), volume |-> cp.volume,
            tolerated |-> ~OutOfTolerance(plan, layer, cp.volume),
            missing |-> RequiredEvidence(plan, layer) \ cp.evidence,
            elevation |-> cp.elevation]

\* Fault variant: a layer nobody recorded is passed over.
PassedWhereRecorded(plan, k, check) ==
  \/ check.interval \in {"absent", "ok"}
  \/ check.interval \in Tolerable /\ check.tolerated /\ check.missing = {}

\* Terminal elevation is asked of the last layer only.
LayerPassed(plan, k, check) ==
  /\ check.interval \in Tolerable
  /\ check.tolerated
  /\ check.missing = {}
  /\ plan.layers[k].seq + 1 \in DOMAIN plan.layers \/ check.elevation

\* The report is computed in sealing and after it, where the plan exists.
Report(revision, plan, checkpoints, deviations) ==
  LET checks == [k \in DOMAIN plan.layers |-> LayerChecks(plan, checkpoints, k)]
      open   == OpenDeviations(deviations)
  IN  [passed |-> open = {} /\ \A k \in DOMAIN checks : LayerPassed(plan, k, checks[k]),
       sourceRevision |-> revision, planDigest |-> plan,
       checks |-> checks, open |-> Cardinality(open)]

ReportDigest(report) ==
  <<report.sourceRevision, report.planDigest, report.checks, report.open>>

-----------------------------------------------------------------------------
(* The witness checklist and the people a witness must be distinct from.   *)

RecorderSet(checkpoints) == {checkpoints[k].recordedBy : k \in DOMAIN checkpoints}

\* Everyone a deviation names: who closed it and who tried to.
Disposers(deviation) ==
  ({deviation.closedBy} \ {Blank})
  \cup {deviation.dispositions[k].closedBy : k \in DOMAIN deviation.dispositions}

Participants(plan, checkpoints, deviations) ==
  RecorderSet(checkpoints) \cup {plan.preparedBy, plan.reviewedBy}
  \cup UNION {Disposers(deviations[k]) : k \in DOMAIN deviations}

ChecklistCodes == {"plan", "verification", "deviations", "recorders", "event_chain"}

\* Each item of the checklist with the source its digest is taken over.
BuildWitnessChecklist(plan, verification, checkpoints, deviations, head) ==
  [plan |-> plan, verification |-> ReportDigest(verification),
   deviations |-> OpenDeviations(deviations),
   recorders |-> RecorderSet(checkpoints), event_chain |-> head]
=============================================================================
