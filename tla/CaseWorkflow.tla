---------------------------- MODULE CaseWorkflow ----------------------------
(***************************************************************************)
(* The life of one sealing case, from draft to archive.  Every action is   *)
(* one committed transaction of the store around one mutator of the        *)
(* service: it raises the revision by one, and a request the service       *)
(* refuses changes nothing (SealService models requests, replays and       *)
(* the read-then-commit shape of the handlers; here each handler is one    *)
(* step).  The audit event of a commit is identified by its revision.      *)
(***************************************************************************)
EXTENDS PlanRules

CONSTANTS
  BaselineInput,   \* baselines a client may submit: [depth, complete]
  PlanInput,       \* plans a client may submit
  ItemInput,       \* checkpoints a client may submit, alone or in a batch
  MaxBatch,        \* domain.MaxBatchCheckpoints
  Person,          \* spellings of a witness or of the person closing a deviation
  ConfirmedInput,  \* sets of checklist codes a witness may confirm
  LayerInput,      \* layers a witness may name in a return, or None
  None,            \* an absent plan, verification, release, archive or layer
  MaxRevision      \* bound: the last revision the model commits

Checkpoint ==
  [seq : Int, from : Int, to : Int, stage : Text, lot : Text, volume : Int,
   recordedBy : Text, evidenceDigest : Text, evidence : SUBSET Text,
   named : BOOLEAN, elevation : BOOLEAN]

Categories ==
  {"stage_mismatch", "depth_out_of_range", "material_mismatch", "volume_out_of_tolerance",
   "recorder_missing", "evidence_missing", "measurement_invalid",
   "terminal_elevation_missing", "sequence_duplicate", "witness_return"}

ASSUME WorkflowAssumption ==
  /\ BaselineInput \subseteq [depth : Int, complete : BOOLEAN]
  /\ PlanInput \subseteq SubmittedPlan
  /\ ItemInput \subseteq Checkpoint
  /\ Person \subseteq Text
  /\ LayerInput \subseteq Int \cup {None}
  /\ MaxBatch \in Nat /\ MaxRevision \in Nat
  /\ None \notin {NormalizedPlan(p) : p \in PlanInput}

VARIABLES
  baseline,      \* [depth, complete]: `complete' sums up the other baseline fields
  state,         \* domain.State
  revision,      \* optimistic lock of the case
  plan,          \* the locked plan, or None
  checkpoints,   \* accepted checkpoints, in the order they were appended
  deviations,    \* deviations, in the order they were appended
  verification,  \* the last report stored by Verify, or None
  release,       \* the last witness decision, or None
  archive,       \* the frozen archive, or None
  involved       \* history: names that ever prepared, reviewed, recorded or disposed

facts == <<baseline, plan, checkpoints, deviations>>
vars  == <<baseline, state, revision, plan, checkpoints, deviations,
           verification, release, archive, involved>>

States == {"draft", "baseline_locked", "sealing", "held",
           "verification", "released", "archived"}

CanTransition(from, to) == <<from, to>> \in {
  <<"draft", "baseline_locked">>, <<"baseline_locked", "sealing">>,
  <<"sealing", "held">>, <<"sealing", "verification">>, <<"held", "sealing">>,
  <<"verification", "held">>, <<"verification", "released">>,
  <<"released", "archived">> }

Transition(to) == CanTransition(state, to) /\ state' = to

\* What Store.Apply does around a mutator.
Commit == /\ revision < MaxRevision
          /\ state # "archived"
          /\ revision' = revision + 1

Involve(names) == involved' = involved \cup {Trim[n] : n \in names}

ValidBaseline(b) == b.complete /\ b.depth > 0

-----------------------------------------------------------------------------
(* Draft and planning.                                                     *)

Init ==
  /\ baseline \in {b \in BaselineInput : ValidBaseline(b)}
  /\ state = "draft" /\ revision = 1
  /\ plan = None /\ checkpoints = << >> /\ deviations = << >>
  /\ verification = None /\ release = None /\ archive = None
  /\ involved = {}

\* A patch leaves absent fields alone; `b' is the baseline after patching.
ReviseBaseline(b) ==
  /\ Commit
  /\ state = "draft"
  /\ ValidBaseline(b)
  /\ baseline' = b
  /\ UNCHANGED <<state, plan, checkpoints, deviations, verification, release, archive, involved>>

LockBaseline ==
  /\ Commit
  /\ state = "draft"
  /\ ValidBaseline(baseline)
  /\ Transition("baseline_locked")
  /\ UNCHANGED <<facts, verification, release, archive, involved>>

\* Fault variants: a plan stored in spite of its issues, or replaced after the start.
SetPlanUnchecked(input) ==
  /\ Commit
  /\ state = "baseline_locked"
  /\ plan' = NormalizedPlan(input)
  /\ Involve({input.preparedBy, input.reviewedBy})
  /\ UNCHANGED <<baseline, state, checkpoints, deviations, verification, release, archive>>

SetPlanLate(input) ==
  /\ Commit
  /\ state \in {"baseline_locked", "sealing"}
  /\ CanLock(baseline.depth, input)
  /\ plan' = NormalizedPlan(input)
  /\ Involve({input.preparedBy, input.reviewedBy})
  /\ UNCHANGED <<baseline, state, checkpoints, deviations, verification, release, archive>>

\* Accepted again while baseline_locked: the later plan replaces the earlier.
SetPlan(input) ==
  /\ Commit
  /\ state = "baseline_locked"
  /\ ValidBaseline(baseline)
  /\ CanLock(baseline.depth, input)
  /\ plan' = NormalizedPlan(input)
  /\ Involve({input.preparedBy, input.reviewedBy})
  /\ UNCHANGED <<baseline, state, checkpoints, deviations, verification, release, archive>>

Start ==
  /\ Commit
  /\ plan # None
  /\ state = "baseline_locked"
  /\ Transition("sealing")
  /\ UNCHANGED <<facts, verification, release, archive, involved>>

-----------------------------------------------------------------------------
(* Construction: batches of checkpoints and their correction.              *)

\* What the batch handler stores of an item: only two fields are trimmed.
Recorded(item) == [item EXCEPT !.recordedBy = Trim[@], !.evidenceDigest = Trim[@]]

\* What the correction handler stores: stage and lot are trimmed as well.
Corrected(item) == [Recorded(item) EXCEPT !.stage = Trim[@], !.lot = Trim[@]]

Recordings == {checkpoints[k].seq : k \in DOMAIN checkpoints}

NextToSeal == CHOOSE n \in 1..(Len(checkpoints) + 1) :
                n \notin Recordings /\ \A m \in 1..(n - 1) : m \in Recordings

\* Fault variant: only repetitions are refused, not gaps.
ItemCategoryAnyOrder(batch, k) ==
  IF batch[k].seq \in {batch[j].seq : j \in 1..(k - 1)} \cup Recordings
  THEN "sequence_duplicate"
  ELSE CheckCheckpoint(plan, Recorded(batch[k]))

\* The category of the deviation item k of a batch raises, or "ok".
ItemCategory(batch, k) ==
  LET earlier == {batch[j].seq : j \in 1..(k - 1)}
  IN  IF batch[k].seq # NextToSeal + k - 1 THEN "depth_out_of_range"
      ELSE IF batch[k].seq \in earlier \cup Recordings THEN "sequence_duplicate"
      ELSE CheckCheckpoint(plan, Recorded(batch[k]))

Failing(batch) == {k \in DOMAIN batch : ItemCategory(batch, k) # "ok"}

\* The deviation of the first failing item names the layer the item claims to be.
Rejection(batch) ==
  LET first == Min(Failing(batch)) IN Deviation(ItemCategory(batch, first), batch[first].seq)

\* Batches are handled whole; a longer one is refused before the transaction.
Batches == UNION {[1..n -> ItemInput] : n \in 1..MaxBatch}

RecordBatch(batch) ==
  /\ Commit
  /\ state = "sealing"
  /\ Failing(batch) = {}
  /\ checkpoints' = checkpoints \o [k \in DOMAIN batch |-> Recorded(batch[k])]
  /\ Involve({batch[k].recordedBy : k \in DOMAIN batch})
  /\ UNCHANGED <<baseline, state, plan, deviations, verification, release, archive>>

\* Fault variant: the items before the first failing one are kept.
RejectBatchKeepingPrefix(batch) ==
  /\ Commit
  /\ state = "sealing"
  /\ Failing(batch) # {}
  /\ checkpoints' = checkpoints \o [k \in 1..(Min(Failing(batch)) - 1) |-> Recorded(batch[k])]
  /\ deviations' = Append(deviations, Rejection(batch))
  /\ Transition("held")
  /\ UNCHANGED <<baseline, plan, verification, release, archive, involved>>

\* The first failing item opens one deviation and pauses the case.
RejectBatch(batch) ==
  /\ Commit
  /\ state = "sealing"
  /\ Failing(batch) # {}
  /\ deviations' = Append(deviations, Rejection(batch))
  /\ Transition("held")
  /\ UNCHANGED <<baseline, plan, checkpoints, verification, release, archive, involved>>

\* Fault variants: a correction not checked again, or accepted after verification.
CorrectUnchecked(item) ==
  /\ Commit
  /\ state = "sealing"
  /\ \E k \in DOMAIN checkpoints :
       checkpoints[k].seq = item.seq /\ checkpoints' = [checkpoints EXCEPT ![k] = Corrected(item)]
  /\ Involve({item.recordedBy})
  /\ UNCHANGED <<baseline, state, plan, deviations, verification, release, archive>>

CorrectWhileVerified(item) ==
  /\ Commit
  /\ state \in {"sealing", "verification"}
  /\ Conforms(plan, Corrected(item))
  /\ \E k \in DOMAIN checkpoints :
       checkpoints[k].seq = item.seq /\ checkpoints' = [checkpoints EXCEPT ![k] = Corrected(item)]
  /\ Involve({item.recordedBy})
  /\ UNCHANGED <<baseline, state, plan, deviations, verification, release, archive>>

CorrectCheckpoint(item) ==
  /\ Commit
  /\ state = "sealing"
  /\ Conforms(plan, Corrected(item))
  /\ \E k \in DOMAIN checkpoints :
       /\ checkpoints[k].seq = item.seq
       /\ \A j \in 1..(k - 1) : checkpoints[j].seq # item.seq
       /\ checkpoints' = [checkpoints EXCEPT ![k] = Corrected(item)]
  /\ Involve({item.recordedBy})
  /\ UNCHANGED <<baseline, state, plan, deviations, verification, release, archive>>

-----------------------------------------------------------------------------
(* Disposal of deviations.                                                 *)

\* Fault variant: any attempt closes the deviation.
AttemptedAlwaysCloses(deviation, by, retest) ==
  [deviation EXCEPT !.open = FALSE,
     !.dispositions = Append(@, [closedBy |-> Trim[by], retest |-> retest])]

\* An attempt at closing a deviation is kept on it, and a passed one closes it.
Attempted(deviation, by, retest) ==
  [deviation EXCEPT !.dispositions = Append(@, [closedBy |-> Trim[by], retest |-> retest])]

Closed(deviation, by) ==
  [Attempted(deviation, by, "passed") EXCEPT !.closedBy = by, !.open = FALSE]

\* After a failed retest the deviation stays open.
ResolveFailed(k, by) ==
  /\ Commit
  /\ state = "held"
  /\ k \in OpenDeviations(deviations)
  /\ ~IsBlank(by)
  /\ deviations' = [deviations EXCEPT ![k] = Attempted(@, by, "failed")]
  /\ Involve({by})
  /\ UNCHANGED <<baseline, state, plan, checkpoints, verification, release, archive>>

\* `values' are the keys of the retest values; the last open deviation resumes.
ResolvePassed(k, by, values) ==
  /\ Commit
  /\ state = "held"
  /\ k \in OpenDeviations(deviations)
  /\ ~IsBlank(by)
  /\ RequiredRetest(deviations[k].category) \subseteq values
  /\ deviations' = [deviations EXCEPT ![k] = Closed(@, by)]
  /\ IF OpenDeviations(deviations') = {} THEN Transition("sealing") ELSE UNCHANGED state
  /\ Involve({by})
  /\ UNCHANGED <<baseline, plan, checkpoints, verification, release, archive>>

-----------------------------------------------------------------------------
(* Verification, witness decision and archive.                             *)

CurrentReport == Report(revision, plan, checkpoints, deviations)

\* A failed verification is committed too: the case stays in sealing.
VerifyFailed ==
  /\ Commit
  /\ state = "sealing"
  /\ ~CurrentReport.passed
  /\ verification' = CurrentReport
  /\ UNCHANGED <<facts, state, release, archive, involved>>

VerifyPassed ==
  /\ Commit
  /\ state = "sealing"
  /\ CurrentReport.passed
  /\ verification' = CurrentReport
  /\ Transition("verification")
  /\ UNCHANGED <<facts, release, archive, involved>>

\* Fault variant: only recorders are kept from witnessing.
MayWitnessUnlessRecorder(witness) ==
  /\ state = "verification" /\ verification # None /\ verification.passed
  /\ ~IsBlank(witness)
  /\ witness \notin RecorderSet(checkpoints)

\* The witness id is compared as it was typed.
MayWitness(witness) ==
  /\ state = "verification" /\ verification # None /\ verification.passed
  /\ ~IsBlank(witness)
  /\ witness \notin Participants(plan, checkpoints, deviations)

\* The checklist is read before the transaction: it is that of this revision or,
\* for which None stands, of an earlier one (see PrefetchWasBefore of SealService).
ChecklistsRead ==
  {BuildWitnessChecklist(plan, verification, checkpoints, deviations, revision), None}

Decision(decision, witness, confirmed, checklist) ==
  [decision |-> decision, witness |-> witness, confirmed |-> confirmed, checklist |-> checklist]

WitnessRelease(witness, confirmed) ==
  /\ Commit
  /\ MayWitness(witness)
  /\ ChecklistCodes \subseteq confirmed
  /\ \E checklist \in ChecklistsRead :
       release' = Decision("release", witness, confirmed, checklist)
  /\ Transition("released")
  /\ UNCHANGED <<facts, verification, archive, involved>>

\* At least one returned item is named; nothing need be confirmed; and the layer
\* is any number, or none.
WitnessReturn(witness, confirmed, layer) ==
  /\ Commit
  /\ MayWitness(witness)
  /\ \E checklist \in ChecklistsRead :
       release' = Decision("return", witness, confirmed, checklist)
  /\ deviations' = Append(deviations, Deviation("witness_return", layer))
  /\ Transition("held")
  /\ UNCHANGED <<baseline, plan, checkpoints, verification, archive, involved>>

\* Fault variant: the chain head is taken from when the report was made.
BuildWithStaleHead ==
  [case |-> [state |-> state, revision |-> revision, plan |-> plan,
             checkpoints |-> checkpoints, deviations |-> deviations,
             verification |-> verification, release |-> release],
   evidence |-> [k \in DOMAIN checkpoints |->
                   <<checkpoints[k].seq, checkpoints[k].evidenceDigest, checkpoints[k].evidence>>],
   planDigest |-> plan, verificationDigest |-> ReportDigest(verification),
   witness |-> release.witness, checklist |-> release.checklist,
   eventCount |-> revision, eventChainHead |-> verification.sourceRevision]

\* archive.Builder.Build over the released case and its events 1..revision.
Build ==
  [case |-> [state |-> state, revision |-> revision, plan |-> plan,
             checkpoints |-> checkpoints, deviations |-> deviations,
             verification |-> verification, release |-> release],
   evidence |-> [k \in DOMAIN checkpoints |->
                   <<checkpoints[k].seq, checkpoints[k].evidenceDigest, checkpoints[k].evidence>>],
   planDigest |-> plan, verificationDigest |-> ReportDigest(verification),
   witness |-> release.witness, checklist |-> release.checklist,
   eventCount |-> revision, eventChainHead |-> revision]

FreezeArchive ==
  /\ Commit
  /\ state = "released"
  /\ verification # None /\ verification.passed
  /\ release # None /\ release.decision = "release"
  /\ archive' = Build
  /\ Transition("archived")
  /\ UNCHANGED <<facts, verification, release, involved>>

Next ==
  \/ \E b \in BaselineInput : ReviseBaseline(b)
  \/ LockBaseline
  \/ \E p \in PlanInput : SetPlan(p)
  \/ Start
  \/ \E batch \in Batches : RecordBatch(batch)
  \/ \E batch \in Batches : RejectBatch(batch)
  \/ \E item \in ItemInput : CorrectCheckpoint(item)
  \/ \E k \in DOMAIN deviations, by \in Person : ResolveFailed(k, by)
  \/ \E k \in DOMAIN deviations, by \in Person, values \in SUBSET RetestKeys :
       ResolvePassed(k, by, values)
  \/ VerifyFailed
  \/ VerifyPassed
  \/ \E w \in Person, confirmed \in ConfirmedInput : WitnessRelease(w, confirmed)
  \/ \E w \in Person, confirmed \in ConfirmedInput, layer \in LayerInput :
       WitnessReturn(w, confirmed, layer)
  \/ FreezeArchive

Spec == Init /\ [][Next]_vars

-----------------------------------------------------------------------------
(* What reading an archive re-checks.                                      *)

\* archive.VerifyPayload: the frozen payload is consistent in itself.
VerifyPayload(a) ==
  LET c == a.case
      v == c.verification
  IN  /\ v # None /\ c.plan # None /\ c.release # None
      /\ a.verificationDigest = ReportDigest(v)
      /\ a.planDigest = c.plan
      /\ ReportDigest(Report(v.sourceRevision, c.plan, c.checkpoints, c.deviations))
           = a.verificationDigest
      /\ c.release.decision = "release" /\ c.release.witness = a.witness
      /\ c.release.checklist = a.checklist
      /\ a.evidence = [k \in DOMAIN c.checkpoints |->
           <<c.checkpoints[k].seq, c.checkpoints[k].evidenceDigest, c.checkpoints[k].evidence>>]
      /\ a.eventCount = a.eventChainHead

\* Service.Archive: the payload against the case and the events as they are now.
ArchiveServes(a) ==
  /\ VerifyPayload(a)
  /\ a.case.plan = plan /\ a.case.checkpoints = checkpoints /\ a.case.release = release
  /\ a.eventCount <= revision

-----------------------------------------------------------------------------
(* Properties.                                                             *)

AfterVerification == {"verification", "released", "archived"}

\* Every variable keeps its shape, and a case has what its state needs: a plan
\* once it has started, no checkpoint or deviation before.
TypeOK ==
  /\ baseline \in {b \in BaselineInput : ValidBaseline(b)}
  /\ state \in States
  /\ revision \in Nat \ {0}
  /\ plan = None \/ \E p \in PlanInput :
       CanLock(baseline.depth, p) /\ plan = NormalizedPlan(p)
  /\ checkpoints \in Seq(Checkpoint)
  /\ deviations \in
       Seq([category : Categories, layer : Int \cup {None}, open : BOOLEAN, closedBy : Text,
            dispositions : Seq([closedBy : Text, retest : {"passed", "failed"}])])
  /\ release = None \/ release.decision \in {"release", "return"}
  /\ involved \subseteq Text
  /\ state = "draft" => plan = None
  /\ state \notin {"draft", "baseline_locked"} => plan # None
  /\ state \in {"draft", "baseline_locked"} => checkpoints = << >> /\ deviations = << >>

\* A case is held exactly while it has an open deviation, and it never has
\* two: whatever order batches fail, retests fail and witnesses return in.
HeldIffOpen ==
  /\ (state = "held") <=> (OpenDeviations(deviations) # {})
  /\ \A i, j \in OpenDeviations(deviations) : i = j

\* Accepted checkpoints are the layers 1..k of the plan in order, none twice
\* and none missing, and each still conforms to the plan in force.
SealedInOrder ==
  \A k \in DOMAIN checkpoints :
    plan # None /\ checkpoints[k].seq = k /\ Conforms(plan, checkpoints[k])

\* No case is verified, released or archived with a layer unsealed or a
\* deviation open, although deviations and returns come and go before that.
VerifiedIsComplete ==
  state \in AfterVerification =>
    /\ plan # None
    /\ DOMAIN checkpoints = DOMAIN plan.layers
    /\ OpenDeviations(deviations) = {}

\* The report a release rests on is the one that recomputing it today, at its
\* source revision, would give: no fact it covers changed since.
VerdictCurrent ==
  state \in AfterVerification =>
    /\ verification.passed
    /\ verification = Report(verification.sourceRevision, plan, checkpoints, deviations)

\* Whoever released a case is none of the people the case names: preparer,
\* reviewer, recorders, and everyone who closed or failed to close a deviation.
\* The names of recorders and preparers are stored trimmed and the witness's is not,
\* so this says nothing of the same name with a blank around it.
IndependentWitness ==
  state \in {"released", "archived"} =>
    /\ release.decision = "release"
    /\ release.witness \notin Participants(plan, checkpoints, deviations)

\* A frozen archive passes all the checks that serving it repeats.
ArchiveAlwaysServes ==
  /\ archive # None => state = "archived"
  /\ state = "archived" => ArchiveServes(archive)

\* A closed deviation ends in the one passed retest it has; an open one has
\* only failed retests: no attempt is lost and none follows the closing.
DispositionHistory ==
  \A k \in DOMAIN deviations :
    LET d == deviations[k].dispositions
        passed == {j \in DOMAIN d : d[j].retest = "passed"}
    IN  passed = IF deviations[k].open THEN {} ELSE {Len(d)}

\* Plan and baseline never change once sealing started, nor checkpoints after
\* verification passed; the last verdict survives until the case is reopened.
LockedFactsKept ==
  [][ /\ state \notin {"draft", "baseline_locked"} => UNCHANGED <<baseline, plan>>
      /\ state \in AfterVerification => UNCHANGED <<checkpoints, verification>> ]_vars

\* A step that opens a deviation writes no checkpoint; no step loses one; and
\* a deviation once closed is never touched again.
AllOrNothing ==
  [][ /\ Len(deviations') > Len(deviations) => checkpoints' = checkpoints
      /\ Len(checkpoints') >= Len(checkpoints)
      /\ \A k \in DOMAIN deviations :
           ~deviations[k].open => k \in DOMAIN deviations' /\ deviations'[k] = deviations[k] ]_vars

\* The case keeps the promise of SealPromise: what its readers see is its
\* state, the layers of its plan, and the layers that have a checkpoint.
Promise == INSTANCE SealPromise WITH
  phase  <- state,
  layers <- IF plan = None THEN {} ELSE DOMAIN plan.layers,
  sealed <- Recordings

PromiseKept == Promise!Spec

\* README.md:54 says that the witness took no part in preparing, reviewing,
\* recording or closing; `involved' also remembers the people whose plan or
\* checkpoint was replaced since.
WitnessNeverInvolved ==
  state \in {"released", "archived"} => Trim[release.witness] \notin involved
=============================================================================
