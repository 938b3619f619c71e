------------------------- MODULE CaseWorkflow_proofs -------------------------
(***************************************************************************)
(* Proofs that the invariants of CaseWorkflow hold for every well, plan,   *)
(* batch, person and number of revisions.                                  *)
(***************************************************************************)
EXTENDS CaseWorkflow, PlanRules_proofs

-----------------------------------------------------------------------------
(* Lemmas about the rules.                                                 *)

\* The first failing test of a checkpoint names a known category, or "ok".
LEMMA CategoryKnown ==
  ASSUME NEW p, NEW cp
  PROVE  CheckCheckpoint(p, cp) \in Categories \cup {"ok"}
<1> DEFINE l == p.layers[cp.seq]
           tests == <<
    [category |-> "stage_mismatch",          fails |-> cp.stage # l.stage],
    [category |-> "depth_out_of_range",      fails |-> cp.from # l.from \/ cp.to # l.to],
    [category |-> "material_mismatch",       fails |-> cp.lot # l.lot],
    [category |-> "volume_out_of_tolerance",
        fails |-> cp.volume <= 0 \/ OutOfTolerance(p, l, cp.volume)],
    [category |-> "recorder_missing",        fails |-> IsBlank(cp.recordedBy)],
    [category |-> "evidence_missing",
        fails |-> \/ IsBlank(cp.evidenceDigest)
                  \/ ~(RequiredEvidence(p, l) \subseteq cp.evidence)],
    [category |-> "measurement_invalid",     fails |-> ~cp.named],
    [category |-> "terminal_elevation_missing",
        fails |-> cp.seq + 1 \notin DOMAIN p.layers /\ ~cp.elevation] >>
           failing == {k \in DOMAIN tests : tests[k].fails}
<1>1. DOMAIN tests = 1..8
  OBVIOUS
<1>2. \A k \in 1..8 : tests[k].category \in Categories
  BY DEF Categories
<1>3. ASSUME failing # {} PROVE Min(failing) \in failing
  <2>1. failing \in SUBSET Nat
    BY <1>1
  <2> HIDE DEF failing
  <2>2. QED
    BY <1>3, <2>1, LeastNat
<1>4. FirstFailure(tests) \in Categories \cup {"ok"}
  <2>1. failing = {} => FirstFailure(tests) = "ok"
    BY Zenon DEF FirstFailure
  <2>2. failing # {} => FirstFailure(tests) = tests[Min(failing)].category
    BY Zenon DEF FirstFailure
  <2>3. failing \subseteq 1..8
    BY <1>1
  <2> HIDE DEF failing, tests
  <2>4. QED
    BY <1>2, <1>3, <2>1, <2>2, <2>3
<1>5. cp.seq \in DOMAIN p.layers => CheckCheckpoint(p, cp) = FirstFailure(tests)
  BY Zenon DEF CheckCheckpoint
<1>6. cp.seq \notin DOMAIN p.layers => CheckCheckpoint(p, cp) = "depth_out_of_range"
  BY Zenon DEF CheckCheckpoint
<1> HIDE DEF tests
<1>7. QED
  BY <1>4, <1>5, <1>6 DEF Categories

\* A stored checkpoint has the fields of the submitted one.
LEMMA RecordedType ==
  ASSUME NEW item \in ItemInput
  PROVE  /\ Recorded(item) \in Checkpoint
         /\ Corrected(item) \in Checkpoint
         /\ Recorded(item).seq = item.seq
         /\ Corrected(item).seq = item.seq
<1>1. item \in Checkpoint
  BY WorkflowAssumption
<1>2. /\ Recorded(item) \in Checkpoint
      /\ Recorded(item).seq = item.seq
  BY <1>1, TrimAssumption DEF Recorded, Checkpoint
<1>3. /\ Corrected(item) \in Checkpoint
      /\ Corrected(item).seq = item.seq
  BY <1>2, TrimAssumption DEF Corrected, Checkpoint
<1>4. QED
  BY <1>2, <1>3

\* A batch is a sequence of submitted checkpoints, recorded one by one.
LEMMA BatchType ==
  ASSUME NEW batch \in Batches
  PROVE  /\ batch \in Seq(ItemInput)
         /\ [k \in DOMAIN batch |-> Recorded(batch[k])] \in Seq(Checkpoint)
<1>1. PICK n \in 1..MaxBatch : batch \in [1..n -> ItemInput]
  BY DEF Batches
<1>2. n \in Nat
  BY <1>1, WorkflowAssumption
<1>3. batch \in Seq(ItemInput)
  BY <1>1, <1>2
<1>4. [k \in DOMAIN batch |-> Recorded(batch[k])] \in [1..n -> Checkpoint]
  BY <1>1, RecordedType
<1>5. QED
  BY <1>2, <1>3, <1>4

\* A batch that fails opens its deviation under a known category, for the layer
\* its item claims.
LEMMA RejectionMeans ==
  ASSUME NEW batch \in Batches, Failing(batch) # {}
  PROVE  \E category \in Categories, layer \in Int :
           Rejection(batch) = Deviation(category, layer)
<1> DEFINE first == Min(Failing(batch))
<1>1. Failing(batch) \in SUBSET Nat
  BY BatchType DEF Failing
<1>2. Min(Failing(batch)) \in Failing(batch)
  BY <1>1, LeastNat
<1>3. \A k \in DOMAIN batch : ItemCategory(batch, k) \in Categories \cup {"ok"}
  BY CategoryKnown, Zenon DEF ItemCategory, Categories
<1>4. first \in DOMAIN batch /\ ItemCategory(batch, first) \in Categories
  <2>1. first \in DOMAIN batch /\ ItemCategory(batch, first) # "ok"
    BY <1>2 DEF Failing
  <2>2. QED
    BY <1>3, <2>1
<1>5. batch[first].seq \in Int
  <2>1. batch \in Seq(ItemInput)
    BY BatchType
  <2>2. \A k \in DOMAIN batch : batch[k] \in ItemInput
    BY <2>1
  <2>3. QED
    BY <1>4, <2>2, WorkflowAssumption DEF Checkpoint
<1>6. Rejection(batch) = Deviation(ItemCategory(batch, first), batch[first].seq)
  BY DEF Rejection
<1>7. QED
  BY <1>4, <1>5, <1>6

DispositionType == [closedBy : Text, retest : {"passed", "failed"}]
DeviationType ==
  [category : Categories, layer : Int \cup {None}, open : BOOLEAN, closedBy : Text,
   dispositions : Seq(DispositionType)]

\* Deviations are typed in every typed state.
LEMMA DeviationsTyped == TypeOK => deviations \in Seq(DeviationType)
BY DEF TypeOK, DeviationType, DispositionType

\* A new deviation is open and names nobody.
LEMMA DeviationTyped ==
  ASSUME NEW category \in Categories, NEW layer \in Int \cup {None}
  PROVE  Deviation(category, layer) \in DeviationType
BY TrimAssumption DEF Deviation, DeviationType

\* An attempt at closing a deviation keeps it typed; only a passed one closes it.
LEMMA AttemptType ==
  ASSUME NEW d \in DeviationType, NEW by \in Person
  PROVE  /\ Attempted(d, by, "failed") \in DeviationType
         /\ Attempted(d, by, "failed").open = d.open
         /\ Closed(d, by) \in DeviationType
         /\ ~Closed(d, by).open
<1>1. ASSUME NEW retest \in {"passed", "failed"}
      PROVE  /\ Attempted(d, by, retest) \in DeviationType
             /\ Attempted(d, by, retest).open = d.open
  <2> DEFINE entry == [closedBy |-> Trim[by], retest |-> retest]
  <2>1. entry \in DispositionType
    BY WorkflowAssumption, TrimAssumption DEF DispositionType
  <2>2. d.dispositions \in Seq(DispositionType)
    BY DEF DeviationType
  <2> HIDE DEF entry
  <2>3. Append(d.dispositions, entry) \in Seq(DispositionType)
    BY <2>1, <2>2
  <2>4. Attempted(d, by, retest) = [d EXCEPT !.dispositions = Append(@, entry)]
    BY Zenon DEF Attempted, entry
  <2>5. QED
    BY <2>3, <2>4 DEF DeviationType
<1>2. by \in Text
  BY WorkflowAssumption
<1>3. QED
  BY <1>1, <1>2 DEF Closed, DeviationType

\* The history of the people involved stays a set of names.
LEMMA InvolveType ==
  ASSUME NEW names \in SUBSET Text, involved \subseteq Text, Involve(names)
  PROVE  involved' \subseteq Text
BY TrimAssumption DEF Involve

-----------------------------------------------------------------------------
(* The type invariant.                                                     *)

\* A new case is typed: it is a draft with nothing but its baseline.
LEMMA TypeInit == Init => TypeOK
BY DEF Init, TypeOK, States

\* Every committed transaction keeps the case typed.
LEMMA TypeNext == TypeOK /\ [Next]_vars => TypeOK'
<1> SUFFICES ASSUME TypeOK, [Next]_vars PROVE TypeOK'
  OBVIOUS
<1> USE DEF TypeOK, facts
<1>1. ASSUME NEW b \in BaselineInput, ReviseBaseline(b) PROVE TypeOK'
  BY <1>1 DEF ReviseBaseline, Commit
<1>2. CASE LockBaseline
  BY <1>2 DEF LockBaseline, Commit, Transition, States
<1>3. ASSUME NEW p \in PlanInput, SetPlan(p) PROVE TypeOK'
  <2>1. p.preparedBy \in Text /\ p.reviewedBy \in Text
    BY WorkflowAssumption DEF SubmittedPlan
  <2>2. involved' \subseteq Text
    BY <1>3, <2>1, InvolveType DEF SetPlan
  <2>3. plan' # None /\ state' = "baseline_locked"
    BY <1>3, WorkflowAssumption DEF SetPlan
  <2>4. QED
    BY <1>3, <2>2, <2>3 DEF SetPlan, Commit
<1>4. CASE Start
  BY <1>4 DEF Start, Commit, Transition, States
<1>5. ASSUME NEW batch \in Batches, RecordBatch(batch) PROVE TypeOK'
  <2>1. checkpoints' \in Seq(Checkpoint)
    BY <1>5, BatchType DEF RecordBatch
  <2>2. {batch[k].recordedBy : k \in DOMAIN batch} \in SUBSET Text
    <3>1. \A k \in DOMAIN batch : batch[k] \in ItemInput
      BY DEF Batches
    <3>2. \A item \in ItemInput : item.recordedBy \in Text
      BY WorkflowAssumption DEF Checkpoint
    <3>3. QED
      BY <3>1, <3>2
  <2>3. involved' \subseteq Text
    BY <1>5, <2>2, InvolveType DEF RecordBatch
  <2>4. QED
    BY <1>5, <2>1, <2>3 DEF RecordBatch, Commit
<1>6. ASSUME NEW batch \in Batches, RejectBatch(batch) PROVE TypeOK'
  <2>1. Rejection(batch) \in DeviationType
    BY <1>6, RejectionMeans, DeviationTyped DEF RejectBatch
  <2>2. deviations' \in Seq(DeviationType)
    BY <1>6, <2>1 DEF RejectBatch, DeviationType, DispositionType
  <2>3. QED
    BY <1>6, <2>2 DEF RejectBatch, Commit, Transition, States, DeviationType, DispositionType
<1>7. ASSUME NEW item \in ItemInput, CorrectCheckpoint(item) PROVE TypeOK'
  <2>1. checkpoints' \in Seq(Checkpoint)
    BY <1>7, RecordedType DEF CorrectCheckpoint
  <2>2. {item.recordedBy} \in SUBSET Text
    BY WorkflowAssumption DEF Checkpoint
  <2>3. involved' \subseteq Text
    BY <1>7, <2>2, InvolveType DEF CorrectCheckpoint
  <2>4. QED
    BY <1>7, <2>1, <2>3 DEF CorrectCheckpoint, Commit
<1>8. ASSUME NEW k \in DOMAIN deviations, NEW by \in Person, ResolveFailed(k, by) PROVE TypeOK'
  <2>1. deviations' \in Seq(DeviationType)
    BY <1>8, AttemptType, DeviationsTyped DEF ResolveFailed
  <2>2. involved' \subseteq Text
    BY <1>8, InvolveType, WorkflowAssumption DEF ResolveFailed
  <2>3. QED
    BY <1>8, <2>1, <2>2 DEF ResolveFailed, Commit, DeviationType, DispositionType
<1>9. ASSUME NEW k \in DOMAIN deviations, NEW by \in Person, NEW values, ResolvePassed(k, by, values)
      PROVE  TypeOK'
  <2>1. deviations' \in Seq(DeviationType)
    BY <1>9, AttemptType, DeviationsTyped DEF ResolvePassed
  <2>2. involved' \subseteq Text
    BY <1>9, InvolveType, WorkflowAssumption DEF ResolvePassed
  <2>3. state' \in {"held", "sealing"}
    BY <1>9 DEF ResolvePassed, Transition
  <2>4. QED
    BY <1>9, <2>1, <2>2, <2>3 DEF ResolvePassed, Commit, States, DeviationType, DispositionType
<1>10. CASE VerifyFailed
  BY <1>10 DEF VerifyFailed, Commit
<1>11. CASE VerifyPassed
  BY <1>11 DEF VerifyPassed, Commit, Transition, States
<1>12. ASSUME NEW w, NEW confirmed, WitnessRelease(w, confirmed) PROVE TypeOK'
  BY <1>12 DEF WitnessRelease, Commit, Transition, States, Decision, MayWitness
<1>13. ASSUME NEW w, NEW confirmed, NEW layer \in LayerInput, WitnessReturn(w, confirmed, layer) PROVE TypeOK'
  <2>1. layer \in Int \cup {None}
    BY WorkflowAssumption
  <2>2. Deviation("witness_return", layer) \in DeviationType
    BY <2>1, DeviationTyped DEF Categories
  <2>3. deviations' \in Seq(DeviationType)
    BY <1>13, <2>2 DEF WitnessReturn, DeviationType, DispositionType
  <2>4. QED
    BY <1>13, <2>3 DEF WitnessReturn, Commit, Transition, States, Decision, MayWitness, DeviationType, DispositionType
<1>14. CASE FreezeArchive
  BY <1>14 DEF FreezeArchive, Commit, Transition, States
<1>15. CASE UNCHANGED vars
  BY <1>15 DEF vars
<1>16. QED
  BY <1>1, <1>2, <1>3, <1>4, <1>5, <1>6, <1>7, <1>8, <1>9, <1>10, <1>11, <1>12, <1>13, <1>14, <1>15
     DEF Next

\* Every case is typed at every moment of its life.
THEOREM TypeCorrect == Spec => []TypeOK
BY TypeInit, TypeNext, PTL DEF Spec

-----------------------------------------------------------------------------
(* Held if and only if a deviation is open.                                *)

\* Appending a deviation where none is open leaves exactly that one open.
LEMMA OpenAfterAppend ==
  ASSUME deviations \in Seq(DeviationType), OpenDeviations(deviations) = {},
         NEW category \in Categories, NEW layer \in Int \cup {None}
  PROVE  LET after == Append(deviations, Deviation(category, layer))
         IN  OpenDeviations(after) = {Len(after)}
<1> DEFINE after == Append(deviations, Deviation(category, layer))
<1>1. Deviation(category, layer) \in DeviationType /\ Deviation(category, layer).open
  BY DeviationTyped DEF Deviation
<1>2. /\ after \in Seq(DeviationType)
      /\ Len(after) = Len(deviations) + 1
      /\ DOMAIN after = 1..Len(after)
      /\ after[Len(after)] = Deviation(category, layer)
      /\ \A k \in 1..Len(deviations) : after[k] = deviations[k]
  BY <1>1
<1>3. \A k \in 1..Len(deviations) : ~deviations[k].open
  <2>1. \A k \in DOMAIN deviations : ~deviations[k].open
    BY Zenon DEF OpenDeviations
  <2>2. QED
    BY <2>1
<1>4. Len(deviations) \in Nat
  OBVIOUS
<1> HIDE DEF after
<1>5. \A k \in DOMAIN after : k # Len(after) => ~after[k].open
  <2>1. TAKE k \in DOMAIN after
  <2>2. HAVE k # Len(after)
  <2>3. k \in 1..Len(deviations)
    BY <1>2, <1>4, <2>2
  <2>4. QED
    BY <1>2, <1>3, <2>3, Zenon
<1>6. Len(after) \in DOMAIN after /\ after[Len(after)].open
  BY <1>1, <1>2, <1>4
<1>7. OpenDeviations(after) = {Len(after)}
  BY <1>5, <1>6, Zenon DEF OpenDeviations
<1>8. QED
  BY <1>7 DEF after

\* A draft is not held and has no deviation.
LEMMA HeldInit == Init => HeldIffOpen
BY DEF Init, HeldIffOpen, OpenDeviations

\* The only steps into and out of the hold are those that open a deviation
\* where none is open and the one that closes the last.
LEMMA HeldNext == TypeOK /\ HeldIffOpen /\ [Next]_vars => HeldIffOpen'
<1> SUFFICES ASSUME TypeOK, HeldIffOpen, [Next]_vars PROVE HeldIffOpen'
  OBVIOUS
<1>0. deviations \in Seq(DeviationType)
  BY DeviationsTyped
<1> USE DEF HeldIffOpen, facts
<1>1. ASSUME UNCHANGED deviations, (state' = "held") <=> (state = "held")
      PROVE  HeldIffOpen'
  BY <1>1 DEF OpenDeviations
<1>2. ASSUME NEW b \in BaselineInput, ReviseBaseline(b) PROVE HeldIffOpen'
  BY <1>1, <1>2 DEF ReviseBaseline
<1>3. CASE LockBaseline
  BY <1>1, <1>3 DEF LockBaseline, Transition
<1>4. ASSUME NEW p \in PlanInput, SetPlan(p) PROVE HeldIffOpen'
  BY <1>1, <1>4 DEF SetPlan
<1>5. CASE Start
  BY <1>1, <1>5 DEF Start, Transition
<1>6. ASSUME NEW batch \in Batches, RecordBatch(batch) PROVE HeldIffOpen'
  BY <1>1, <1>6 DEF RecordBatch
<1>7. ASSUME NEW batch \in Batches, RejectBatch(batch) PROVE HeldIffOpen'
  <2>1. OpenDeviations(deviations) = {}
    BY <1>7 DEF RejectBatch
  <2>2. OpenDeviations(deviations') = {Len(deviations')}
    BY <1>0, <1>7, <2>1, RejectionMeans, OpenAfterAppend DEF RejectBatch
  <2>3. QED
    BY <1>7, <2>2 DEF RejectBatch, Transition
<1>8. ASSUME NEW item \in ItemInput, CorrectCheckpoint(item) PROVE HeldIffOpen'
  BY <1>1, <1>8 DEF CorrectCheckpoint
<1>9. ASSUME NEW k \in DOMAIN deviations, NEW by \in Person, ResolveFailed(k, by) PROVE HeldIffOpen'
  <2>1. OpenDeviations(deviations') = OpenDeviations(deviations)
    BY <1>0, <1>9, AttemptType DEF ResolveFailed, OpenDeviations
  <2>2. QED
    BY <1>9, <2>1 DEF ResolveFailed
<1>10. ASSUME NEW k \in DOMAIN deviations, NEW by \in Person, NEW values, ResolvePassed(k, by, values)
       PROVE  HeldIffOpen'
  <2>1. OpenDeviations(deviations') = OpenDeviations(deviations) \ {k}
    BY <1>0, <1>10, AttemptType DEF ResolvePassed, OpenDeviations
  <2>2. OpenDeviations(deviations') = {}
    BY <1>10, <2>1 DEF ResolvePassed
  <2>3. QED
    BY <1>10, <2>2 DEF ResolvePassed, Transition
<1>11. CASE VerifyFailed
  BY <1>1, <1>11 DEF VerifyFailed
<1>12. CASE VerifyPassed
  BY <1>1, <1>12 DEF VerifyPassed, Transition
<1>13. ASSUME NEW w, NEW confirmed, WitnessRelease(w, confirmed) PROVE HeldIffOpen'
  BY <1>1, <1>13 DEF WitnessRelease, Transition, MayWitness
<1>14. ASSUME NEW w, NEW confirmed, NEW layer \in LayerInput, WitnessReturn(w, confirmed, layer) PROVE HeldIffOpen'
  <2>1. OpenDeviations(deviations) = {}
    BY <1>14 DEF WitnessReturn, MayWitness
  <2>2. OpenDeviations(deviations') = {Len(deviations')}
    BY <1>0, <1>14, <2>1, OpenAfterAppend, WorkflowAssumption DEF WitnessReturn, Categories
  <2>3. QED
    BY <1>14, <2>2 DEF WitnessReturn, Transition
<1>15. CASE FreezeArchive
  BY <1>1, <1>15 DEF FreezeArchive, Transition
<1>16. CASE UNCHANGED vars
  BY <1>1, <1>16 DEF vars
<1>17. QED
  BY <1>2, <1>3, <1>4, <1>5, <1>6, <1>7, <1>8, <1>9, <1>10, <1>11, <1>12, <1>13, <1>14, <1>15, <1>16
     DEF Next

\* A case is held exactly while one deviation is open.
THEOREM HoldMeansOpenDeviation == Spec => []HeldIffOpen
BY TypeCorrect, HeldInit, HeldNext, PTL DEF Spec

-----------------------------------------------------------------------------
(* Layers are sealed in order.                                             *)

\* The layer the batch handler finds by counting up is the one after the last.
LEMMA NextLayer ==
  ASSUME checkpoints \in Seq(Checkpoint), SealedInOrder
  PROVE  NextToSeal = Len(checkpoints) + 1
<1> DEFINE L == Len(checkpoints)
           Next1(n) == n \notin Recordings /\ \A m \in 1..(n - 1) : m \in Recordings
<1>1. L \in Nat /\ DOMAIN checkpoints = 1..L
  OBVIOUS
<1>2. \A k \in 1..L : checkpoints[k].seq = k
  BY <1>1, Zenon DEF SealedInOrder
<1>3. Recordings = 1..L
  BY <1>1, <1>2 DEF Recordings
<1>4. L + 1 \in 1..(L + 1) /\ Next1(L + 1)
  BY <1>1, <1>3
<1>5. \A n \in 1..(L + 1) : Next1(n) => n = L + 1
  BY <1>1, <1>3
<1>6. NextToSeal = CHOOSE n \in 1..(L + 1) : Next1(n)
  BY Zenon DEF NextToSeal
<1> HIDE DEF L, Next1
<1>7. NextToSeal = L + 1
  BY <1>4, <1>5, <1>6
<1>8. QED
  BY <1>7 DEF L

\* An accepted batch continues the sealed layers, and all of it conforms.
LEMMA BatchContinues ==
  ASSUME checkpoints \in Seq(Checkpoint), SealedInOrder,
         NEW batch \in Batches, Failing(batch) = {}, NEW k \in DOMAIN batch
  PROVE  /\ batch[k].seq = Len(checkpoints) + k
         /\ Conforms(plan, Recorded(batch[k]))
<1>1. ItemCategory(batch, k) = "ok"
  BY Zenon DEF Failing
<1>2. batch[k].seq = NextToSeal + k - 1
  BY <1>1, Zenon DEF ItemCategory
<1>3. CheckCheckpoint(plan, Recorded(batch[k])) = "ok"
  BY <1>1, Zenon DEF ItemCategory
<1>4. k \in Int /\ Len(checkpoints) \in Int
  BY BatchType
<1>5. batch[k].seq = Len(checkpoints) + k
  BY <1>2, <1>4, NextLayer
<1>6. QED
  BY <1>3, <1>5 DEF Conforms

\* A draft has no checkpoint.
LEMMA SealedInit == Init => SealedInOrder
BY DEF Init, SealedInOrder

\* Only batches and corrections write checkpoints, and both check them against
\* the plan; the plan changes only while there is none.
LEMMA SealedNext == TypeOK /\ SealedInOrder /\ [Next]_vars => SealedInOrder'
<1> SUFFICES ASSUME TypeOK, SealedInOrder, [Next]_vars PROVE SealedInOrder'
  OBVIOUS
<1>0. checkpoints \in Seq(Checkpoint)
  BY DEF TypeOK
<1> USE DEF facts
<1>1. ASSUME UNCHANGED <<plan, checkpoints>> PROVE SealedInOrder'
  BY <1>1 DEF SealedInOrder
<1>2. ASSUME NEW p \in PlanInput, SetPlan(p) PROVE SealedInOrder'
  BY <1>2 DEF SetPlan, TypeOK, SealedInOrder
<1>3. ASSUME NEW batch \in Batches, RecordBatch(batch) PROVE SealedInOrder'
  <2> DEFINE added == [k \in DOMAIN batch |-> Recorded(batch[k])]
             L == Len(checkpoints)
  <2>1. plan # None /\ plan' = plan /\ Failing(batch) = {} /\ checkpoints' = checkpoints \o added
    BY <1>3 DEF RecordBatch, TypeOK
  <2>2. added \in Seq(Checkpoint)
    BY BatchType
  <2>3. DOMAIN added = DOMAIN batch
    OBVIOUS
  <2>4. \A k \in DOMAIN batch : added[k].seq = L + k /\ Conforms(plan, added[k])
    <3>1. TAKE k \in DOMAIN batch
    <3>2. added[k] = Recorded(batch[k]) /\ batch[k] \in ItemInput
      BY DEF Batches
    <3>3. QED
      BY <1>0, <2>1, <3>2, BatchContinues, RecordedType
  <2> HIDE DEF added
  <2>5. SUFFICES ASSUME NEW k \in DOMAIN checkpoints'
                 PROVE  checkpoints'[k].seq = k /\ Conforms(plan, checkpoints'[k])
    BY <2>1 DEF SealedInOrder
  <2>6. CASE k \in DOMAIN checkpoints
    <3>1. checkpoints'[k] = checkpoints[k]
      BY <1>0, <2>1, <2>2, <2>6
    <3>2. QED
      BY <2>6, <3>1, Zenon DEF SealedInOrder
  <2>7. CASE k \notin DOMAIN checkpoints
    <3>1. k - L \in DOMAIN added /\ checkpoints'[k] = added[k - L] /\ L + (k - L) = k
      BY <1>0, <2>1, <2>2, <2>5, <2>7
    <3>2. QED
      BY <2>3, <2>4, <3>1
  <2>8. QED
    BY <2>6, <2>7
<1>4. ASSUME NEW item \in ItemInput, CorrectCheckpoint(item) PROVE SealedInOrder'
  <2>1. PICK k \in DOMAIN checkpoints :
          /\ checkpoints[k].seq = item.seq
          /\ checkpoints' = [checkpoints EXCEPT ![k] = Corrected(item)]
    BY <1>4 DEF CorrectCheckpoint
  <2>2. Corrected(item).seq = k /\ Conforms(plan, Corrected(item)) /\ plan' = plan
    BY <1>4, <2>1, RecordedType DEF CorrectCheckpoint, SealedInOrder
  <2>3. QED
    BY <2>1, <2>2 DEF SealedInOrder
<1>5. CASE \/ \E b \in BaselineInput : ReviseBaseline(b)
           \/ LockBaseline \/ Start \/ VerifyFailed \/ VerifyPassed \/ FreezeArchive
           \/ \E batch \in Batches : RejectBatch(batch)
           \/ \E k \in DOMAIN deviations, by \in Person : ResolveFailed(k, by)
           \/ \E k \in DOMAIN deviations, by \in Person, values \in SUBSET RetestKeys :
                ResolvePassed(k, by, values)
           \/ \E w \in Person, confirmed \in ConfirmedInput : WitnessRelease(w, confirmed)
           \/ \E w \in Person, confirmed \in ConfirmedInput, layer \in LayerInput :
             WitnessReturn(w, confirmed, layer)
           \/ UNCHANGED vars
  BY <1>1, <1>5 DEF ReviseBaseline, LockBaseline, Start, VerifyFailed, VerifyPassed, FreezeArchive,
       RejectBatch, ResolveFailed, ResolvePassed, WitnessRelease, WitnessReturn, vars
<1>6. QED
  BY <1>2, <1>3, <1>4, <1>5 DEF Next

\* Layers are sealed in the order of the plan, and every accepted checkpoint
\* conforms to it, at every moment of a case's life.
THEOREM LayersSealedInOrder == Spec => []SealedInOrder
BY TypeCorrect, SealedInit, SealedNext, PTL DEF Spec

-----------------------------------------------------------------------------
(* The verdict a release rests on.                                         *)

\* No report exists when a case is opened.
LEMMA VerdictInit == Init => VerdictCurrent
BY DEF Init, VerdictCurrent, AfterVerification

\* Only a passed report takes a case to verification, and from there on no
\* step changes a fact the report covers except a return, which reopens it.
LEMMA VerdictNext == TypeOK /\ VerdictCurrent /\ [Next]_vars => VerdictCurrent'
<1> SUFFICES ASSUME TypeOK, VerdictCurrent, [Next]_vars PROVE VerdictCurrent'
  OBVIOUS
<1> USE DEF VerdictCurrent, AfterVerification, facts
<1>1. ASSUME state' \notin AfterVerification PROVE VerdictCurrent'
  BY <1>1
<1>2. ASSUME state \in AfterVerification, UNCHANGED <<plan, checkpoints, deviations, verification>>
      PROVE  VerdictCurrent'
  BY <1>2
<1>3. CASE VerifyPassed
  <2>1. /\ verification' = Report(revision, plan, checkpoints, deviations)
        /\ verification'.passed
        /\ UNCHANGED <<plan, checkpoints, deviations>>
    BY <1>3 DEF VerifyPassed, CurrentReport
  <2>2. verification'.sourceRevision = revision
    BY <2>1 DEF Report
  <2>3. QED
    BY <2>1, <2>2
<1>4. CASE \/ \E b \in BaselineInput : ReviseBaseline(b)
           \/ LockBaseline \/ Start \/ VerifyFailed
           \/ \E p \in PlanInput : SetPlan(p)
           \/ \E batch \in Batches : RecordBatch(batch)
           \/ \E batch \in Batches : RejectBatch(batch)
           \/ \E item \in ItemInput : CorrectCheckpoint(item)
           \/ \E k \in DOMAIN deviations, by \in Person : ResolveFailed(k, by)
           \/ \E k \in DOMAIN deviations, by \in Person, values \in SUBSET RetestKeys :
                ResolvePassed(k, by, values)
           \/ \E w \in Person, confirmed \in ConfirmedInput, layer \in LayerInput :
             WitnessReturn(w, confirmed, layer)
  BY <1>1, <1>4 DEF ReviseBaseline, LockBaseline, Start, VerifyFailed, SetPlan, RecordBatch, RejectBatch,
       CorrectCheckpoint, ResolveFailed, ResolvePassed, WitnessReturn, Transition
<1>5. CASE FreezeArchive \/ \E w \in Person, confirmed \in ConfirmedInput : WitnessRelease(w, confirmed)
  BY <1>2, <1>5 DEF FreezeArchive, WitnessRelease, MayWitness
<1>6. CASE UNCHANGED vars
  BY <1>6 DEF vars
<1>7. QED
  BY <1>3, <1>4, <1>5, <1>6 DEF Next

\* The report a case is released on always describes its present facts.
THEOREM VerdictStaysCurrent == Spec => []VerdictCurrent
BY TypeCorrect, VerdictInit, VerdictNext, PTL DEF Spec

\* The layers of a plan that could be locked are numbered as they are placed.
LEMMA LockedPlanNumbered ==
  ASSUME NEW depth, NEW input, CanLock(depth, input)
  PROVE  \A k \in DOMAIN NormalizedPlan(input).layers : NormalizedPlan(input).layers[k].seq = k
<1> DEFINE p == NormalizedPlan(input)
           issue == [code   |-> "sequence_discontinuous",
                     raised |-> \E k \in DOMAIN p.layers : p.layers[k].seq # k]
<1>1. issue \in LayerIssues(depth, p)
  BY Zenon DEF LayerIssues
<1>2. ~issue.raised
  BY <1>1, NoIssue
<1>3. QED
  BY <1>2

\* A report passes only with no deviation open and a checkpoint for each layer.
LEMMA PassedReport ==
  ASSUME NEW r, NEW p, NEW cps, NEW devs, Report(r, p, cps, devs).passed
  PROVE  /\ OpenDeviations(devs) = {}
         /\ \A k \in DOMAIN p.layers : \E c \in DOMAIN cps : cps[c].seq = p.layers[k].seq
<1> DEFINE checks == [k \in DOMAIN p.layers |-> LayerChecks(p, cps, k)]
<1>1. OpenDeviations(devs) = {} /\ \A k \in DOMAIN checks : LayerPassed(p, k, checks[k])
  BY DEF Report
<1>2. SUFFICES ASSUME NEW k \in DOMAIN p.layers
               PROVE  \E c \in DOMAIN cps : cps[c].seq = p.layers[k].seq
  BY <1>1
<1>3. LayerPassed(p, k, LayerChecks(p, cps, k))
  BY <1>1
<1>4. LayerChecks(p, cps, k).interval # "absent"
  BY <1>3 DEF LayerPassed, Tolerable
<1>5. {c \in DOMAIN cps : cps[c].seq = p.layers[k].seq} # {}
  BY <1>4 DEF LayerChecks
<1>6. QED
  BY <1>5

\* A checkpoint that conforms is of a layer of the plan.
LEMMA ConformsToLayer ==
  ASSUME NEW p, NEW cp, Conforms(p, cp)
  PROVE  cp.seq \in DOMAIN p.layers
BY DEF Conforms, CheckCheckpoint

\* With the layers sealed in order, a current passed verdict covers the plan.
LEMMA CompleteFromVerdict ==
  TypeOK /\ SealedInOrder /\ VerdictCurrent => VerifiedIsComplete
<1> SUFFICES ASSUME TypeOK, SealedInOrder, VerdictCurrent, state \in AfterVerification
             PROVE  /\ plan # None
                    /\ DOMAIN checkpoints = DOMAIN plan.layers
                    /\ OpenDeviations(deviations) = {}
  BY DEF VerifiedIsComplete
<1>1. plan # None
  BY DEF TypeOK, AfterVerification
<1>2. Report(verification.sourceRevision, plan, checkpoints, deviations).passed
  BY DEF VerdictCurrent
<1>3. \A k \in DOMAIN plan.layers : plan.layers[k].seq = k
  BY <1>1, LockedPlanNumbered, Zenon DEF TypeOK
<1>4. \A k \in DOMAIN plan.layers : k \in DOMAIN checkpoints
  BY <1>2, <1>3, PassedReport DEF SealedInOrder
<1>5. \A k \in DOMAIN checkpoints : k \in DOMAIN plan.layers
  BY ConformsToLayer DEF SealedInOrder
<1>6. OpenDeviations(deviations) = {}
  BY <1>2, PassedReport
<1>7. QED
  BY <1>1, <1>4, <1>5, <1>6

\* No case is verified, released or archived with a layer unsealed or a
\* deviation open.
THEOREM OnlyCompleteCasesVerified == Spec => []VerifiedIsComplete
BY TypeCorrect, LayersSealedInOrder, VerdictStaysCurrent, CompleteFromVerdict, PTL

-----------------------------------------------------------------------------
(* The witness.                                                            *)

\* Nobody has released a draft.
LEMMA WitnessInit == Init => IndependentWitness
BY DEF Init, IndependentWitness

\* A release checks the witness against the people named, who stay the same.
LEMMA WitnessNext == IndependentWitness /\ [Next]_vars => IndependentWitness'
<1> SUFFICES ASSUME IndependentWitness, [Next]_vars PROVE IndependentWitness'
  OBVIOUS
<1> USE DEF IndependentWitness, facts
<1>1. ASSUME state' \notin {"released", "archived"} PROVE IndependentWitness'
  BY <1>1
<1>2. ASSUME NEW w, NEW confirmed, WitnessRelease(w, confirmed) PROVE IndependentWitness'
  <2>1. /\ w \notin Participants(plan, checkpoints, deviations)
        /\ \E checklist : release' = Decision("release", w, confirmed, checklist)
        /\ UNCHANGED <<plan, checkpoints, deviations>>
    BY <1>2 DEF WitnessRelease, MayWitness
  <2>2. release'.decision = "release" /\ release'.witness = w
    BY <2>1 DEF Decision
  <2>3. QED
    BY <2>1, <2>2
<1>3. CASE FreezeArchive
  BY <1>3 DEF FreezeArchive
<1>4. CASE \/ \E b \in BaselineInput : ReviseBaseline(b)
           \/ LockBaseline \/ Start \/ VerifyFailed \/ VerifyPassed
           \/ \E p \in PlanInput : SetPlan(p)
           \/ \E batch \in Batches : RecordBatch(batch)
           \/ \E batch \in Batches : RejectBatch(batch)
           \/ \E item \in ItemInput : CorrectCheckpoint(item)
           \/ \E k \in DOMAIN deviations, by \in Person : ResolveFailed(k, by)
           \/ \E k \in DOMAIN deviations, by \in Person, values \in SUBSET RetestKeys :
                ResolvePassed(k, by, values)
           \/ \E w \in Person, confirmed \in ConfirmedInput, layer \in LayerInput :
             WitnessReturn(w, confirmed, layer)
  BY <1>1, <1>4 DEF ReviseBaseline, LockBaseline, Start, VerifyFailed, VerifyPassed, SetPlan, RecordBatch,
       RejectBatch, CorrectCheckpoint, ResolveFailed, ResolvePassed, WitnessReturn, Transition
<1>5. CASE UNCHANGED vars
  BY <1>5 DEF vars
<1>6. QED
  BY <1>2, <1>3, <1>4, <1>5 DEF Next

\* Nobody the case names has released it.
THEOREM ReleasedByIndependentWitness == Spec => []IndependentWitness
BY WitnessInit, WitnessNext, PTL DEF Spec

-----------------------------------------------------------------------------
(* The archive.                                                            *)

\* Nothing is archived at first.
LEMMA ArchiveInit == Init => ArchiveAlwaysServes
BY DEF Init, ArchiveAlwaysServes

\* Freezing copies what VerifyPayload recomputes, and freezes it for good.
LEMMA ArchiveNext ==
  TypeOK /\ VerdictCurrent /\ ArchiveAlwaysServes /\ [Next]_vars => ArchiveAlwaysServes'
<1> SUFFICES ASSUME TypeOK, VerdictCurrent, ArchiveAlwaysServes, [Next]_vars
             PROVE  ArchiveAlwaysServes'
  OBVIOUS
<1> USE DEF facts
<1>1. ASSUME state # "archived", state' # "archived", UNCHANGED archive
      PROVE  ArchiveAlwaysServes'
  BY <1>1 DEF ArchiveAlwaysServes
<1>2. CASE UNCHANGED vars
  BY <1>2 DEF vars, ArchiveAlwaysServes, ArchiveServes, VerifyPayload
<1>3. CASE FreezeArchive
  <2>1. /\ archive' = Build /\ state' = "archived" /\ revision' = revision + 1
        /\ UNCHANGED <<plan, checkpoints, deviations, verification, release>>
    BY <1>3 DEF FreezeArchive, Commit, Transition
  <2>2. /\ verification # None /\ release # None /\ release.decision = "release"
        /\ plan # None /\ revision \in Nat
    BY <1>3 DEF FreezeArchive, TypeOK
  <2>3. verification = Report(verification.sourceRevision, plan, checkpoints, deviations)
    BY <1>3 DEF FreezeArchive, VerdictCurrent, AfterVerification
  <2>4. VerifyPayload(Build)
    BY <2>2, <2>3 DEF VerifyPayload, Build
  <2>5. /\ Build.case.plan = plan /\ Build.case.checkpoints = checkpoints
        /\ Build.case.release = release /\ Build.eventCount = revision
    BY DEF Build
  <2>6. VerifyPayload(archive')
    BY <2>1, <2>4
  <2>7. ArchiveServes(archive)'
    BY <2>1, <2>2, <2>5, <2>6 DEF ArchiveServes
  <2>8. QED
    BY <2>1, <2>7 DEF ArchiveAlwaysServes
<1>4. CASE \/ \E b \in BaselineInput : ReviseBaseline(b)
           \/ LockBaseline \/ Start \/ VerifyFailed \/ VerifyPassed
           \/ \E p \in PlanInput : SetPlan(p)
           \/ \E batch \in Batches : RecordBatch(batch)
           \/ \E batch \in Batches : RejectBatch(batch)
           \/ \E item \in ItemInput : CorrectCheckpoint(item)
           \/ \E k \in DOMAIN deviations, by \in Person : ResolveFailed(k, by)
           \/ \E k \in DOMAIN deviations, by \in Person, values \in SUBSET RetestKeys :
                ResolvePassed(k, by, values)
           \/ \E w \in Person, confirmed \in ConfirmedInput : WitnessRelease(w, confirmed)
           \/ \E w \in Person, confirmed \in ConfirmedInput, layer \in LayerInput :
             WitnessReturn(w, confirmed, layer)
  BY <1>1, <1>4 DEF ReviseBaseline, LockBaseline, Start, VerifyFailed, VerifyPassed, SetPlan, RecordBatch,
       RejectBatch, CorrectCheckpoint, ResolveFailed, ResolvePassed, WitnessRelease, WitnessReturn,
       Transition, Commit
<1>5. QED
  BY <1>2, <1>3, <1>4 DEF Next

\* An archive, once frozen, passes every check made each time it is served.
THEOREM ArchiveServesForever == Spec => []ArchiveAlwaysServes
BY TypeCorrect, VerdictStaysCurrent, ArchiveInit, ArchiveNext, PTL DEF Spec

-----------------------------------------------------------------------------
(* What a step may never do.                                               *)

\* Baseline and plan are frozen with the start, checkpoints and verdict with
\* the passed verification.
THEOREM FactsLocked == Spec => LockedFactsKept
<1> DEFINE Kept == /\ state \notin {"draft", "baseline_locked"} => UNCHANGED <<baseline, plan>>
                   /\ state \in AfterVerification => UNCHANGED <<checkpoints, verification>>
<1>1. [Next]_vars => [Kept]_vars
  <2> SUFFICES ASSUME Next PROVE Kept
    OBVIOUS
  <2> QED
    BY DEF Next, AfterVerification, facts, ReviseBaseline, LockBaseline, Start, VerifyFailed, VerifyPassed,
         SetPlan, RecordBatch, RejectBatch, CorrectCheckpoint, ResolveFailed, ResolvePassed, WitnessRelease,
         WitnessReturn, MayWitness, FreezeArchive
<1>2. QED
  BY <1>1, PTL DEF Spec, LockedFactsKept

\* A batch is taken whole or leaves a deviation alone, no checkpoint is ever
\* lost, and a closed deviation stays as it was closed.
THEOREM BatchesAllOrNothing == Spec => AllOrNothing
<1> DEFINE Kept ==
      /\ Len(deviations') > Len(deviations) => checkpoints' = checkpoints
      /\ Len(checkpoints') >= Len(checkpoints)
      /\ \A k \in DOMAIN deviations :
           ~deviations[k].open => k \in DOMAIN deviations' /\ deviations'[k] = deviations[k]
<1>1. TypeOK /\ [Next]_vars => [Kept]_vars
  <2> SUFFICES ASSUME TypeOK, Next PROVE Kept
    OBVIOUS
  <2>0. deviations \in Seq(DeviationType) /\ checkpoints \in Seq(Checkpoint)
    BY DeviationsTyped DEF TypeOK
  <2>1. ASSUME UNCHANGED <<checkpoints, deviations>> PROVE Kept
    BY <2>0, <2>1
  <2>2. ASSUME NEW batch \in Batches, RecordBatch(batch) PROVE Kept
    <3>1. checkpoints' = checkpoints \o [k \in DOMAIN batch |-> Recorded(batch[k])]
      BY <2>2 DEF RecordBatch
    <3>2. Len(checkpoints') >= Len(checkpoints)
      BY <2>0, <3>1, BatchType
    <3>3. deviations' = deviations
      BY <2>2 DEF RecordBatch
    <3>4. QED
      BY <2>0, <3>2, <3>3
  <2>3. ASSUME NEW item \in ItemInput, CorrectCheckpoint(item) PROVE Kept
    <3>1. Len(checkpoints') = Len(checkpoints)
      BY <2>0, <2>3 DEF CorrectCheckpoint
    <3>2. deviations' = deviations
      BY <2>3 DEF CorrectCheckpoint
    <3>3. QED
      BY <2>0, <3>1, <3>2
  <2>4. ASSUME NEW d \in DeviationType, deviations' = Append(deviations, d), checkpoints' = checkpoints
        PROVE  Kept
    BY <2>0, <2>4
  <2>5. ASSUME NEW batch \in Batches, RejectBatch(batch) PROVE Kept
    BY <2>4, <2>5, RejectionMeans, DeviationTyped DEF RejectBatch
  <2>6. ASSUME NEW w, NEW confirmed, NEW layer \in LayerInput, WitnessReturn(w, confirmed, layer) PROVE Kept
    BY <2>4, <2>6, DeviationTyped, WorkflowAssumption DEF WitnessReturn, Categories
  <2>7. ASSUME NEW k \in OpenDeviations(deviations), NEW d,
               deviations' = [deviations EXCEPT ![k] = d], checkpoints' = checkpoints
        PROVE  Kept
    BY <2>0, <2>7 DEF OpenDeviations
  <2>8. ASSUME NEW k \in DOMAIN deviations, NEW by \in Person,
               \/ ResolveFailed(k, by)
               \/ \E values \in SUBSET RetestKeys : ResolvePassed(k, by, values)
        PROVE  Kept
    BY <2>7, <2>8 DEF ResolveFailed, ResolvePassed
  <2>9. CASE \/ \E b \in BaselineInput : ReviseBaseline(b)
             \/ LockBaseline \/ Start \/ VerifyFailed \/ VerifyPassed \/ FreezeArchive
             \/ \E p \in PlanInput : SetPlan(p)
             \/ \E w \in Person, confirmed \in ConfirmedInput : WitnessRelease(w, confirmed)
    BY <2>1, <2>9 DEF facts, ReviseBaseline, LockBaseline, Start, VerifyFailed, VerifyPassed, FreezeArchive,
         SetPlan, WitnessRelease
  <2>10. QED
    BY <2>2, <2>3, <2>5, <2>6, <2>8, <2>9 DEF Next
<1>2. QED
  BY <1>1, TypeCorrect, PTL DEF Spec, AllOrNothing

-----------------------------------------------------------------------------
(* The history of a deviation.                                             *)

\* Positions of the passed retests among the dispositions of a deviation.
PassedAt(d) == {j \in DOMAIN d.dispositions : d.dispositions[j].retest = "passed"}

\* A closed deviation ends in its only passed retest, an open one has none.
WellDisposed(d) == PassedAt(d) = IF d.open THEN {} ELSE {Len(d.dispositions)}

\* Trying to close an open deviation keeps its history in order.
LEMMA AttemptDisposed ==
  ASSUME NEW d \in DeviationType, d.open, WellDisposed(d), NEW by \in Person
  PROVE  WellDisposed(Attempted(d, by, "failed")) /\ WellDisposed(Closed(d, by))
<1>1. \A j \in DOMAIN d.dispositions : d.dispositions[j].retest # "passed"
  BY DEF WellDisposed, PassedAt
<1>2. ASSUME NEW retest \in {"passed", "failed"}
      PROVE  LET h == Attempted(d, by, retest).dispositions
             IN  /\ DOMAIN h = 1..Len(h)
                 /\ Len(h) \in DOMAIN h
                 /\ h[Len(h)].retest = retest
                 /\ \A j \in DOMAIN h : j # Len(h) => h[j].retest # "passed"
  <2> DEFINE entry == [closedBy |-> Trim[by], retest |-> retest]
             old == d.dispositions
             h == Append(old, entry)
  <2>1. old \in Seq(DispositionType) /\ entry.retest = retest
    BY DEF DeviationType
  <2>2. entry \in DispositionType
    BY WorkflowAssumption, TrimAssumption DEF DispositionType
  <2> HIDE DEF old, entry
  <2>3. /\ Len(h) = Len(old) + 1 /\ Len(old) \in Nat
        /\ DOMAIN h = 1..Len(h) /\ DOMAIN old = 1..Len(old)
        /\ h[Len(h)] = entry
        /\ \A j \in 1..Len(old) : h[j] = old[j]
    BY <2>1, <2>2
  <2>4. \A j \in DOMAIN old : old[j].retest # "passed"
    BY <1>1 DEF old
  <2> HIDE DEF h
  <2>5. ASSUME NEW j \in DOMAIN h, j # Len(h) PROVE h[j].retest # "passed"
    <3>1. j \in 1..Len(old)
      BY <2>3, <2>5
    <3>2. QED
      BY <2>3, <2>4, <3>1, Zenon
  <2>6. Attempted(d, by, retest).dispositions = h
    BY DEF Attempted, DeviationType, h, old, entry
  <2>7. Len(h) \in DOMAIN h
    BY <2>3
  <2>8. QED
    BY <2>1, <2>3, <2>5, <2>6, <2>7
<1>3. WellDisposed(Attempted(d, by, "failed"))
  BY <1>2, AttemptType DEF WellDisposed, PassedAt
<1>4. Closed(d, by).dispositions = Attempted(d, by, "passed").dispositions
  BY DEF Closed, Attempted, DeviationType
<1>5. WellDisposed(Closed(d, by))
  BY <1>2, <1>4, AttemptType DEF WellDisposed, PassedAt
<1>6. QED
  BY <1>3, <1>5

\* The invariant says that every deviation is well disposed.
LEMMA HistoryMeans ==
  DispositionHistory <=> \A k \in DOMAIN deviations : WellDisposed(deviations[k])
BY Zenon DEF DispositionHistory, WellDisposed, PassedAt

\* Only resolving touches a deviation, and only an open one.
LEMMA HistoryNext == TypeOK /\ DispositionHistory /\ [Next]_vars => DispositionHistory'
<1> DEFINE Disposed == \A k \in DOMAIN deviations : WellDisposed(deviations[k])
<1> SUFFICES ASSUME TypeOK, Disposed, [Next]_vars PROVE Disposed'
  BY HistoryMeans, PTL
<1>0. deviations \in Seq(DeviationType)
  BY DeviationsTyped
<1>1. ASSUME UNCHANGED deviations PROVE Disposed'
  BY <1>1
<1>2. ASSUME NEW category \in Categories, NEW layer \in Int \cup {None},
             deviations' = Append(deviations, Deviation(category, layer))
      PROVE  Disposed'
  <2>1. WellDisposed(Deviation(category, layer))
    BY DEF WellDisposed, PassedAt, Deviation
  <2>2. Deviation(category, layer) \in DeviationType
    BY DeviationTyped
  <2>3. \A k \in DOMAIN deviations' :
          \/ deviations'[k] = Deviation(category, layer)
          \/ /\ k \in DOMAIN deviations
             /\ deviations'[k] = deviations[k]
    BY <1>0, <1>2, <2>2
  <2>4. QED
    BY <2>1, <2>3
<1>3. ASSUME NEW k \in OpenDeviations(deviations), NEW by \in Person,
             \/ deviations' = [deviations EXCEPT ![k] = Attempted(@, by, "failed")]
             \/ deviations' = [deviations EXCEPT ![k] = Closed(@, by)]
      PROVE  Disposed'
  <2>1. k \in DOMAIN deviations /\ deviations[k].open /\ deviations[k] \in DeviationType
    BY <1>0 DEF OpenDeviations
  <2>2. WellDisposed(deviations'[k])
    BY <1>0, <1>3, <2>1, AttemptDisposed
  <2>3. \A j \in DOMAIN deviations' : j # k => j \in DOMAIN deviations /\ deviations'[j] = deviations[j]
    BY <1>0, <1>3
  <2>4. QED
    BY <2>2, <2>3
<1>4. CASE \E batch \in Batches : RejectBatch(batch)
  BY <1>2, <1>4, RejectionMeans DEF RejectBatch
<1>5. CASE \E w \in Person, confirmed \in ConfirmedInput, layer \in LayerInput :
             WitnessReturn(w, confirmed, layer)
  BY <1>2, <1>5, WorkflowAssumption DEF WitnessReturn, Categories
<1>6. CASE \E k \in DOMAIN deviations, by \in Person :
             \/ ResolveFailed(k, by)
             \/ \E values \in SUBSET RetestKeys : ResolvePassed(k, by, values)
  BY <1>3, <1>6 DEF ResolveFailed, ResolvePassed
<1>7. CASE \/ \E b \in BaselineInput : ReviseBaseline(b)
           \/ LockBaseline \/ Start \/ VerifyFailed \/ VerifyPassed \/ FreezeArchive
           \/ \E p \in PlanInput : SetPlan(p)
           \/ \E batch \in Batches : RecordBatch(batch)
           \/ \E item \in ItemInput : CorrectCheckpoint(item)
           \/ \E w \in Person, confirmed \in ConfirmedInput : WitnessRelease(w, confirmed)
           \/ UNCHANGED vars
  <2>1. UNCHANGED deviations
    BY <1>7 DEF facts, vars, ReviseBaseline, LockBaseline, Start, VerifyFailed, VerifyPassed, FreezeArchive,
         SetPlan, RecordBatch, CorrectCheckpoint, WitnessRelease
  <2>2. QED
    BY <1>1, <2>1
<1>8. QED
  BY <1>4, <1>5, <1>6, <1>7 DEF Next

\* Every attempt at closing a deviation is kept, and none follows the closing.
THEOREM DispositionsKept == Spec => []DispositionHistory
<1>1. Init => DispositionHistory
  BY DEF Init, DispositionHistory
<1>2. QED
  BY <1>1, TypeCorrect, HistoryNext, PTL DEF Spec

-----------------------------------------------------------------------------
(* The promise to those who read a case.                                   *)

\* What SealPromise calls the layers.
PlannedLayers == IF plan = None THEN {} ELSE DOMAIN plan.layers

\* The layers of a locked plan are numbered from 1.
LEMMA LayersAreNaturals ==
  ASSUME NEW input \in PlanInput
  PROVE  DOMAIN NormalizedPlan(input).layers \subseteq Nat \ {0}
<1>1. input.layers \in Seq(Layer)
  BY WorkflowAssumption DEF SubmittedPlan
<1>2. QED
  BY <1>1 DEF NormalizedPlan, SortedLayers

\* The layers sealed are the first ones of the plan.
SealedFromTheTop ==
  /\ Recordings = 1..Len(checkpoints)
  /\ Recordings \subseteq PlannedLayers
  /\ PlannedLayers \subseteq Nat \ {0}
  /\ Len(checkpoints) \in Nat

\* Sealing in order means sealing from the surface down.
LEMMA FromTheTop == TypeOK /\ SealedInOrder => SealedFromTheTop
<1> SUFFICES ASSUME TypeOK, SealedInOrder PROVE SealedFromTheTop
  OBVIOUS
<1>1. checkpoints \in Seq(Checkpoint)
  BY DEF TypeOK
<1>2. DOMAIN checkpoints = 1..Len(checkpoints) /\ Len(checkpoints) \in Nat
  BY <1>1
<1>3. \A k \in DOMAIN checkpoints : plan # None /\ checkpoints[k].seq = k /\ k \in DOMAIN plan.layers
  BY ConformsToLayer DEF SealedInOrder
<1>4. Recordings = DOMAIN checkpoints
  BY <1>3, Zenon DEF Recordings
<1>5. Recordings \subseteq PlannedLayers
  BY <1>3, <1>4 DEF PlannedLayers
<1>6. PlannedLayers \subseteq Nat \ {0}
  BY LayersAreNaturals DEF PlannedLayers, TypeOK
<1>7. QED
  BY <1>2, <1>4, <1>5, <1>6 DEF SealedFromTheTop

\* A new case begins as the promise does.
LEMMA PromiseInit == Init => Promise!Init
BY DEF Init, Promise!Init, Recordings

\* Every transaction is a step of the promise, or leaves what it speaks of.
LEMMA PromiseNext ==
  /\ TypeOK /\ [Next]_vars
  /\ SealedFromTheTop /\ SealedFromTheTop' /\ VerifiedIsComplete'
  => [Promise!Next]_<<state, PlannedLayers, Recordings>>
<1> SUFFICES ASSUME TypeOK, [Next]_vars,
                    SealedFromTheTop, SealedFromTheTop', VerifiedIsComplete'
             PROVE  [Promise!Next]_<<state, PlannedLayers, Recordings>>
  OBVIOUS
<1> USE DEF facts
<1>0. ASSUME UNCHANGED plan PROVE PlannedLayers' = PlannedLayers
  BY <1>0 DEF PlannedLayers
<1>1. ASSUME UNCHANGED checkpoints PROVE Recordings' = Recordings
  BY <1>1 DEF Recordings
<1>2. ASSUME UNCHANGED <<state, plan, checkpoints>>
      PROVE  UNCHANGED <<state, PlannedLayers, Recordings>>
  BY <1>0, <1>1, <1>2
<1>3. ASSUME UNCHANGED <<plan, checkpoints>>,
             \/ <<state, state'>> \in {<<"draft", "baseline_locked">>, <<"baseline_locked", "sealing">>,
                  <<"sealing", "held">>, <<"held", "sealing">>, <<"verification", "held">>,
                  <<"verification", "released">>, <<"released", "archived">>}
             \/ <<state, state'>> = <<"sealing", "verification">> /\ Recordings = PlannedLayers
      PROVE  Promise!Next
  BY <1>0, <1>1, <1>3 DEF PlannedLayers, Promise!Next, Promise!Step, Promise!FreezeBaseline, Promise!Start,
       Promise!Pause, Promise!Resume, Promise!Submit, Promise!Return, Promise!Release, Promise!Archive
<1>4. ASSUME state = "sealing", UNCHANGED <<state, plan>>, Len(checkpoints') >= Len(checkpoints)
      PROVE  Promise!SealDown
  <2>1. /\ Recordings = 1..Len(checkpoints) /\ Recordings' = 1..Len(checkpoints')
        /\ Recordings' \subseteq PlannedLayers' /\ PlannedLayers \subseteq Nat \ {0}
        /\ Len(checkpoints) \in Nat /\ Len(checkpoints') \in Nat
    BY DEF SealedFromTheTop
  <2>2. PlannedLayers' = PlannedLayers
    BY <1>0, <1>4
  <2>3. \A n \in Recordings', m \in PlannedLayers : m < n => m \in Recordings'
    BY <2>1
  <2>4. Recordings \subseteq Recordings'
    BY <1>4, <2>1
  <2>5. QED
    BY <1>4, <2>1, <2>2, <2>3, <2>4 DEF PlannedLayers, Promise!SealDown
<1>5. ASSUME NEW p \in PlanInput, SetPlan(p) PROVE Promise!Next
  <2>1. PlannedLayers' \subseteq Nat
    BY DEF SealedFromTheTop
  <2>2. QED
    BY <1>1, <1>5, <2>1 DEF SetPlan, PlannedLayers, Promise!Next, Promise!AdoptPlan
<1>6. ASSUME NEW batch \in Batches, RecordBatch(batch) PROVE Promise!Next
  <2>1. Len(checkpoints') >= Len(checkpoints)
    BY <1>6, BatchType DEF RecordBatch, TypeOK
  <2>2. QED
    BY <1>4, <1>6, <2>1 DEF RecordBatch, Promise!Next
<1>7. ASSUME NEW item \in ItemInput, CorrectCheckpoint(item) PROVE Promise!Next
  <2>1. Len(checkpoints') >= Len(checkpoints)
    BY <1>7 DEF CorrectCheckpoint, TypeOK
  <2>2. QED
    BY <1>4, <1>7, <2>1 DEF CorrectCheckpoint, Promise!Next
<1>8. CASE VerifyPassed
  <2>1. state = "sealing" /\ state' = "verification" /\ UNCHANGED <<plan, checkpoints>>
    BY <1>8 DEF VerifyPassed, Transition
  <2>2. plan # None /\ DOMAIN checkpoints = DOMAIN plan.layers
    BY <2>1 DEF VerifiedIsComplete, AfterVerification
  <2>3. DOMAIN checkpoints = 1..Len(checkpoints)
    BY DEF TypeOK
  <2>4. Recordings = PlannedLayers
    BY <2>2, <2>3 DEF SealedFromTheTop, PlannedLayers
  <2>5. QED
    BY <1>3, <2>1, <2>4
<1>9. CASE \/ LockBaseline \/ Start \/ FreezeArchive
           \/ \E batch \in Batches : RejectBatch(batch)
           \/ \E w \in Person, confirmed \in ConfirmedInput : WitnessRelease(w, confirmed)
           \/ \E w \in Person, confirmed \in ConfirmedInput, layer \in LayerInput :
             WitnessReturn(w, confirmed, layer)
  BY <1>3, <1>9 DEF LockBaseline, Start, FreezeArchive, RejectBatch, WitnessRelease, WitnessReturn, Transition,
       MayWitness
<1>10. CASE \/ \E b \in BaselineInput : ReviseBaseline(b)
            \/ VerifyFailed
            \/ \E k \in DOMAIN deviations, by \in Person : ResolveFailed(k, by)
            \/ UNCHANGED vars
  BY <1>2, <1>10 DEF ReviseBaseline, VerifyFailed, ResolveFailed, vars
<1>11. ASSUME NEW k \in DOMAIN deviations, NEW by \in Person, NEW values, ResolvePassed(k, by, values)
       PROVE  [Promise!Next]_<<state, PlannedLayers, Recordings>>
  BY <1>2, <1>3, <1>11 DEF ResolvePassed, Transition
<1>12. QED
  BY <1>5, <1>6, <1>7, <1>8, <1>9, <1>10, <1>11 DEF Next

\* The case keeps the promise of SealPromise for every well and every plan.
THEOREM KeepsPromise == Spec => PromiseKept
<1>1. Spec => Promise!Spec
  BY TypeCorrect, LayersSealedInOrder, OnlyCompleteCasesVerified, FromTheTop, PromiseInit, PromiseNext, PTL
     DEF Spec, Promise!Spec, PlannedLayers
<1>2. QED
  BY <1>1 DEF PromiseKept
=============================================================================
