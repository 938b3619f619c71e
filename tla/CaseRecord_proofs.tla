--------------------------- MODULE CaseRecord_proofs ---------------------------
(***************************************************************************)
(* What is kept and what is shown beside the facts of a case, for every    *)
(* plan, batch, person, filter and history.  Every behaviour with tables   *)
(* is a behaviour of CaseWorkflow, so what is proved of the case holds;    *)
(* the rows follow from the order of the layers, and the summaries agree   *)
(* with the case although they are computed by algorithms of their own.    *)
(***************************************************************************)
EXTENDS Projections, CaseSummaries, CaseWorkflow_proofs

-----------------------------------------------------------------------------
(* The tables beside the snapshot.                                         *)

\* The tables take nothing from the case and add no step to it.
THEOREM StoredCaseIsCase == StoredSpec => Spec
<1>1. StoredInit => Init
  BY DEF StoredInit
<1>2. [StoredNext]_storedVars => [Next]_vars
  BY DEF StoredNext, storedVars
<1>3. QED
  BY <1>1, <1>2, PTL DEF StoredSpec, Spec

\* A plan, once set, is replaced but never taken away: the rows of a plan need
\* no deletion.
LEMMA PlanStays == [Next]_vars => (plan' = None => plan = None)
<1> SUFFICES ASSUME [Next]_vars, plan' = None PROVE plan = None
  OBVIOUS
<1>1. ASSUME NEW p \in PlanInput, SetPlan(p) PROVE FALSE
  BY <1>1, WorkflowAssumption DEF SetPlan
<1>2. CASE UNCHANGED plan
  BY <1>2
<1>3. QED
  BY <1>1, <1>2 DEF Next, vars, facts, ReviseBaseline, LockBaseline, Start, RecordBatch, RejectBatch,
       CorrectCheckpoint, ResolveFailed, ResolvePassed, VerifyFailed, VerifyPassed, WitnessRelease,
       WitnessReturn, FreezeArchive

\* Nothing else the model stores is None: a decision of a witness is not.
NoneIsNoDecision ==
  \A decision, witness, confirmed, checklist :
    None # [decision |-> decision, witness |-> witness, confirmed |-> confirmed, checklist |-> checklist]

\* A decision is replaced by a later one but never taken away.
LEMMA DecisionStays ==
  ASSUME NoneIsNoDecision
  PROVE  [Next]_vars => (release' = None => release = None)
<1> SUFFICES ASSUME [Next]_vars, release' = None PROVE release = None
  OBVIOUS
<1>1. ASSUME NEW w \in Person, NEW confirmed \in ConfirmedInput, WitnessRelease(w, confirmed) PROVE FALSE
  BY <1>1 DEF WitnessRelease, Decision, NoneIsNoDecision
<1>2. ASSUME NEW w \in Person, NEW confirmed \in ConfirmedInput, NEW layer \in LayerInput,
             WitnessReturn(w, confirmed, layer)
      PROVE  FALSE
  BY <1>2 DEF WitnessReturn, Decision, NoneIsNoDecision
<1>3. CASE UNCHANGED release
  BY <1>3
<1>4. QED
  BY <1>1, <1>2, <1>3 DEF Next, vars, facts, ReviseBaseline, LockBaseline, SetPlan, Start, RecordBatch,
       RejectBatch, CorrectCheckpoint, ResolveFailed, ResolvePassed, VerifyFailed, VerifyPassed,
       FreezeArchive

\* Nothing is committed to an archived case, and only there a row is added.
LEMMA ArchivedOnce == Next => state # "archived"
BY DEF Next, ReviseBaseline, LockBaseline, SetPlan, Start, RecordBatch, RejectBatch, CorrectCheckpoint,
     ResolveFailed, ResolvePassed, VerifyFailed, VerifyPassed, WitnessRelease, WitnessReturn,
     FreezeArchive, Commit

\* The rows of a new case.
LEMMA RowsInit == StoredInit => FactRowsAgree /\ NeverRefused
BY DEF StoredInit, Init, FactRowsAgree, NeverRefused, CheckpointRows, DeviationRows

\* What one commit makes of rows that agree.
LEMMA RowsNext ==
  FactRowsAgree /\ NeverRefused /\ SealedInOrder' /\ [StoredNext]_storedVars
    => FactRowsAgree' /\ NeverRefused'
<1> SUFFICES ASSUME FactRowsAgree, NeverRefused, SealedInOrder', [StoredNext]_storedVars
             PROVE  FactRowsAgree' /\ NeverRefused'
  OBVIOUS
<1>1. CASE UNCHANGED storedVars
  BY <1>1 DEF storedVars, vars, facts, FactRowsAgree, NeverRefused
<1>2. CASE StoredNext
  <2>1. Unique(CheckpointRows(checkpoints')) /\ Unique(DeviationRows(deviations'))
    BY DEF SealedInOrder, Unique, CheckpointRows, DeviationRows
  <2>2. tables'.plan = plan'
    BY <1>2, PlanStays DEF StoredNext, Sync, SyncPlan, FactRowsAgree
  <2>3. /\ tables'.checkpoints = CheckpointRows(checkpoints')
        /\ tables'.deviations = DeviationRows(deviations')
        /\ refused' = FALSE
    BY <1>2, <2>1, Zenon DEF StoredNext, Sync, Replace
  <2>4. tables'.archives = IF state' = "archived" THEN <<archive'>> ELSE << >>
    <3>1. tables.archives = << >>
      BY <1>2, ArchivedOnce DEF StoredNext, FactRowsAgree
    <3>2. tables'.archives = IF state' = "archived" THEN Append(<< >>, archive') ELSE << >>
      BY <1>2, <3>1 DEF StoredNext, Sync
    <3>3. QED
      BY <3>2
  <2>5. QED
    BY <2>2, <2>3, <2>4 DEF FactRowsAgree, NeverRefused, CheckpointRows, DeviationRows
<1>3. QED
  BY <1>1, <1>2

\* The row of the decision after one commit.
LEMMA DecisionRowNext ==
  ASSUME NoneIsNoDecision
  PROVE  DecisionRowAgrees /\ [StoredNext]_storedVars => DecisionRowAgrees'
<1> SUFFICES ASSUME DecisionRowAgrees, [StoredNext]_storedVars PROVE DecisionRowAgrees'
  OBVIOUS
<1>1. CASE UNCHANGED storedVars
  BY <1>1 DEF storedVars, vars, DecisionRowAgrees
<1>2. CASE StoredNext
  <2>1. tables'.release = SyncRelease(tables.release, release')
    BY <1>2 DEF StoredNext, Sync
  <2>2. release' = None => release = None
    BY <1>2, DecisionStays DEF StoredNext
  <2>3. QED
    BY <2>1, <2>2 DEF SyncRelease, DecisionRowAgrees
<1>3. QED
  BY <1>1, <1>2

\* The rows agree with the case after every commit.
THEOREM RowsFollowTheCase ==
  ASSUME NoneIsNoDecision
  PROVE  StoredSpec => []RowsAgree
<1>1. StoredSpec => []SealedInOrder
  BY StoredCaseIsCase, LayersSealedInOrder, PTL
<1>2. StoredInit => DecisionRowAgrees
  BY DEF StoredInit, Init, DecisionRowAgrees
<1>3. StoredSpec => [](FactRowsAgree /\ NeverRefused)
  BY <1>1, RowsInit, RowsNext, PTL DEF StoredSpec
<1>4. StoredSpec => []DecisionRowAgrees
  BY <1>2, DecisionRowNext, PTL DEF StoredSpec
<1>5. NeverRefused /\ FactRowsAgree /\ DecisionRowAgrees => RowsAgree
  BY DEF RowsAgree
<1>6. QED
  BY <1>3, <1>4, <1>5, PTL

\* After every commit opening the database would accept the rows of the case.
THEOREM OpensAfterEveryCommit ==
  ASSUME NoneIsNoDecision
  PROVE  StoredSpec => []CaseProjectionAgrees
<1>1. ASSUME RowsAgree, TypeOK PROVE CaseProjectionAgrees
  <2>1. Len(CheckpointRows(checkpoints)) = Len(checkpoints)
    BY <1>1 DEF CheckpointRows, TypeOK
  <2>2. Len(DeviationRows(deviations)) = Len(deviations)
    BY <1>1 DEF DeviationRows, TypeOK
  <2>3. Len(tables.archives) = IF state = "archived" THEN 1 ELSE 0
    BY <1>1 DEF RowsAgree, FactRowsAgree
  <2>4. QED
    BY <1>1, <2>1, <2>2, <2>3 DEF RowsAgree, FactRowsAgree, DecisionRowAgrees, CaseProjectionAgrees
<1>2. StoredSpec => []TypeOK
  BY StoredCaseIsCase, TypeCorrect, PTL
<1>3. QED
  BY <1>1, <1>2, RowsFollowTheCase, PTL

\* No commit the rules allow breaks a constraint of the tables.
THEOREM NoCommitRefused == StoredSpec => []NeverRefused
<1>1. StoredSpec => []SealedInOrder
  BY StoredCaseIsCase, LayersSealedInOrder, PTL
<1>2. QED
  BY <1>1, RowsInit, RowsNext, PTL DEF StoredSpec

-----------------------------------------------------------------------------
(* Progress and report.                                                    *)

\* A checkpoint that conforms passes each of the tests the report repeats.
LEMMA ConformsMeans ==
  ASSUME NEW p, NEW cp, Conforms(p, cp)
  PROVE  /\ cp.lot = p.layers[cp.seq].lot
         /\ ~(cp.volume <= 0) /\ ~OutOfTolerance(p, p.layers[cp.seq], cp.volume)
         /\ RequiredEvidence(p, p.layers[cp.seq]) \subseteq cp.evidence
         /\ cp.seq + 1 \in DOMAIN p.layers \/ cp.elevation
<1> DEFINE l == p.layers[cp.seq]
           tests == <<
    [category |-> "stage_mismatch",          fails |-> cp.stage # l.stage],
    [category |-> "depth_out_of_range",      fails |-> cp.from # l.from \/ cp.to # l.to],
    [category |-> "material_mismatch",       fails |-> cp.lot # l.lot],
    [category |-> "volume_out_of_tolerance",
        fails |-> cp.volume <= 0 \/ OutOfTolerance(p, l, cp.volume)],
    [category |-> "recorder_missing",        fails |-> IsBlank(cp.recordedBy)],
    [category |-> "evidence_missing",
        fails |-> \/ IsBlank(cp.evidenceDigest)
                  \/ ~(RequiredEvidence(p, l) \subseteq cp.evidence)],
    [category |-> "measurement_invalid",     fails |-> ~cp.named],
    [category |-> "terminal_elevation_missing",
        fails |-> cp.seq + 1 \notin DOMAIN p.layers /\ ~cp.elevation] >>
           failing == {k \in DOMAIN tests : tests[k].fails}
<1>1. DOMAIN tests = 1..8 /\ \A k \in 1..8 : tests[k].category # "ok"
  OBVIOUS
<1>2. FirstFailure(tests) = "ok"
  BY Zenon DEF Conforms, CheckCheckpoint
<1>3. failing = {}
  <2>1. ASSUME failing # {} PROVE FALSE
    <3>1. failing \in SUBSET Nat /\ failing \subseteq 1..8
      <4> HIDE DEF tests
      <4>1. QED
        BY <1>1
    <3>2. Min(failing) \in failing
      <4> HIDE DEF failing
      <4>1. QED
        BY <2>1, <3>1, LeastNat
    <3>3. FirstFailure(tests) = tests[Min(failing)].category
      BY <2>1, Zenon DEF FirstFailure
    <3> HIDE DEF failing, tests
    <3>4. QED
      BY <1>1, <1>2, <3>1, <3>2, <3>3
  <2>2. QED
    BY <2>1
<1>4. ~tests[3].fails /\ ~tests[4].fails /\ ~tests[6].fails /\ ~tests[8].fails
  <2> HIDE DEF tests
  <2>1. QED
    BY <1>1, <1>3
<1>5. QED
  BY <1>4

\* A plan in force is one the preflight let through: its layers are numbered
\* as they are placed and stacked from the surface to the bottom of the well.
LEMMA PlanInForce ==
  ASSUME TypeOK, plan # None
  PROVE  /\ plan.layers \in Seq(Layer)
         /\ Len(plan.layers) \in Nat
         /\ DOMAIN plan.layers = 1..Len(plan.layers)
         /\ \A k \in DOMAIN plan.layers : plan.layers[k].seq = k
         /\ Stacked(baseline.depth, plan.layers) /\ Stocked(plan) /\ plan.tolerance \in 0..(50 * Percent)
<1>1. PICK p \in PlanInput : CanLock(baseline.depth, p) /\ plan = NormalizedPlan(p)
  BY DEF TypeOK
<1>2. p \in SubmittedPlan /\ baseline.depth \in Int
  BY WorkflowAssumption DEF TypeOK
<1>3. plan.layers \in Seq(Layer)
  BY <1>1, <1>2, PlanNormalized
<1>4. Headed(plan, p) /\ Stacked(baseline.depth, plan.layers) /\ Stocked(plan)
  BY <1>1, <1>2, CleanPlan
<1> QED BY <1>3, <1>4, ListIsFinite DEF Stacked, Headed

\* Where layers are sealed in order, the checkpoint of a layer has its number.
LEMMA SealedAtNumber ==
  ASSUME TypeOK, SealedInOrder, plan # None, NEW k \in DOMAIN plan.layers
  PROVE  SealedAt(plan.layers[k]) = {c \in {k} : c \in DOMAIN checkpoints}
BY PlanInForce DEF SealedAt, SealedInOrder

\* A layer that is sealed passes the report.
LEMMA SealedPasses ==
  ASSUME TypeOK, SealedInOrder, plan # None, NEW k \in DOMAIN plan.layers, k \in DOMAIN checkpoints
  PROVE  LayerPassed(plan, k, LayerChecks(plan, checkpoints, k))
<1> DEFINE cp == checkpoints[k]
           at == {c \in DOMAIN checkpoints : checkpoints[c].seq = plan.layers[k].seq}
<1>1. Conforms(plan, cp) /\ cp.seq = k /\ plan.layers[k].seq = k /\ k \in Int
  BY PlanInForce DEF SealedInOrder
<1>2. at = {k}
  BY SealedAtNumber DEF SealedAt
<1>3. Max(at) = k
  BY <1>1, <1>2 DEF Max
<1>4. LayerChecks(plan, checkpoints, k) =
        [interval |-> CheckCheckpoint(plan, cp), volume |-> cp.volume,
         tolerated |-> ~OutOfTolerance(plan, plan.layers[k], cp.volume),
         missing |-> RequiredEvidence(plan, plan.layers[k]) \ cp.evidence,
         elevation |-> cp.elevation]
  BY <1>2, <1>3, Zenon DEF LayerChecks
<1>5. /\ ~OutOfTolerance(plan, plan.layers[k], cp.volume)
      /\ RequiredEvidence(plan, plan.layers[k]) \subseteq cp.evidence
      /\ k + 1 \in DOMAIN plan.layers \/ cp.elevation
  BY <1>1, ConformsMeans
<1>6. CheckCheckpoint(plan, cp) = "ok"
  BY <1>1 DEF Conforms
<1> DEFINE check == LayerChecks(plan, checkpoints, k)
<1>7. check.interval = "ok" /\ check.missing = {} /\ check.elevation = cp.elevation
  BY <1>4, <1>5, <1>6
<1>8. check.tolerated = ~OutOfTolerance(plan, plan.layers[k], cp.volume)
  BY <1>4
<1> HIDE DEF cp, at, check
<1>9. LayerPassed(plan, k, check)
  BY <1>1, <1>5, <1>7, <1>8, Zenon DEF LayerPassed, Tolerable
<1>10. QED
  BY <1>9 DEF check

\* Progress counts the layers that have a checkpoint, and all of them exactly
\* if there is one for every layer.
LEMMA AllCompleted ==
  ASSUME TypeOK, SealedInOrder, plan # None
  PROVE  SummarizeProgress.completed = SummarizeProgress.total
           <=> \A k \in DOMAIN plan.layers : k \in DOMAIN checkpoints
<1>1. CompletedLayers = {k \in DOMAIN plan.layers : k \in DOMAIN checkpoints}
  BY SealedAtNumber DEF CompletedLayers
<1>2. IsFiniteSet(DOMAIN plan.layers) /\ Cardinality(DOMAIN plan.layers) = Len(plan.layers)
  BY PlanInForce, ListIsFinite
<1>3. Cardinality(CompletedLayers) = Cardinality(DOMAIN plan.layers) <=> CompletedLayers = DOMAIN plan.layers
  BY <1>1, <1>2, FS_Subset
<1>4. SummarizeProgress.completed = Cardinality(CompletedLayers)
        /\ SummarizeProgress.total = Len(plan.layers)
  BY DEF SummarizeProgress
<1>5. QED
  BY <1>1, <1>2, <1>3, <1>4

\* Complete progress and a case not held are what a passed report is.
LEMMA ProgressIsReport == TypeOK /\ SealedInOrder /\ HeldIffOpen => ProgressMatchesReport
<1> SUFFICES ASSUME TypeOK, SealedInOrder, HeldIffOpen, plan # None
             PROVE  CurrentReport.passed <=>
                      SummarizeProgress.completed = SummarizeProgress.total /\ state # "held"
  BY DEF ProgressMatchesReport
<1>1. state # "held" <=> OpenDeviations(deviations) = {}
  BY DEF HeldIffOpen
<1>2. ASSUME CurrentReport.passed
      PROVE  OpenDeviations(deviations) = {} /\ \A k \in DOMAIN plan.layers : k \in DOMAIN checkpoints
  <2>1. \A k \in DOMAIN plan.layers : \E c \in DOMAIN checkpoints : checkpoints[c].seq = k
    BY <1>2, PassedReport, PlanInForce DEF CurrentReport
  <2>2. QED
    BY <1>2, <2>1, PassedReport DEF CurrentReport, SealedInOrder
<1>3. ASSUME OpenDeviations(deviations) = {}, \A k \in DOMAIN plan.layers : k \in DOMAIN checkpoints
      PROVE  CurrentReport.passed
  BY <1>3, SealedPasses DEF CurrentReport, Report
<1>4. QED
  BY <1>1, <1>2, <1>3, AllCompleted

\* Progress is complete exactly when verification would pass, except that an
\* open deviation alone keeps it back.
THEOREM ProgressAgrees == Spec => []ProgressMatchesReport
BY TypeCorrect, LayersSealedInOrder, HoldMeansOpenDeviation, ProgressIsReport, PTL

\* A blocked layer is the one that the only open deviation names.
LEMMA BlockedByTheHold == HeldIffOpen => BlockedOnlyWhileHeld
<1> SUFFICES ASSUME HeldIffOpen, plan # None PROVE BlockedOnlyWhileHeld
  BY DEF BlockedOnlyWhileHeld
<1>1. \A k \in DOMAIN plan.layers :
        LayerProgress(plan.layers[k]).status = "blocked" => Blocked(plan.layers[k])
  BY DEF LayerProgress
<1>2. QED
  BY <1>1 DEF BlockedOnlyWhileHeld, Blocked, HeldIffOpen

\* A layer is shown as blocked only while the case is held, and then only one.
THEOREM BlockedWhileHeld == Spec => []BlockedOnlyWhileHeld
BY HoldMeansOpenDeviation, BlockedByTheHold, PTL

-----------------------------------------------------------------------------
(* A finished case.                                                        *)

\* The upper layers together reach down to where the last of them ends.
LEMMA DepthAddsUp ==
  ASSUME NEW depth, NEW layers \in Seq(Layer), Stacked(depth, layers)
  PROVE  SumFunctionOnSet([k \in DOMAIN layers |-> Span(layers[k])], DOMAIN layers) = depth
<1> DEFINE n == Len(layers)
           v == [k \in DOMAIN layers |-> Span(layers[k])]
           sum(m) == SumFunctionOnSet(v, 1..m)
           wrong == {m \in 1..n : sum(m) # layers[m].to}
           m == Min(wrong)
<1>1. n \in Nat /\ DOMAIN layers = 1..n /\ n # 0
  BY DEF Stacked
<1>2. \A k \in 1..n : layers[k] \in Layer
  OBVIOUS
<1>3. \A k \in 1..n : /\ layers[k].from \in Int /\ layers[k].to \in Int /\ v[k] \in Nat
                      /\ v[k] = layers[k].to - layers[k].from
  BY <1>1, <1>2 DEF Layer, Stacked, Span
<1>4. /\ layers[1].from = 0 /\ layers[n].to = depth
      /\ \A k \in 1..n : k > 1 => layers[k-1].to = layers[k].from
  BY <1>1 DEF Stacked
<1> HIDE DEF n, v
<1>5. ASSUME NEW k \in 1..n
      PROVE  /\ sum(k) \in Nat /\ sum(0) = 0
             /\ sum(k) = v[k] + sum(k - 1)
  <2>1. IsFiniteSet(1..k) /\ \A x \in 1..k : v[x] \in Nat
    BY <1>1, <1>3, FS_Interval
  <2>2. /\ SumFunctionOnSet(v, 1..k) \in Nat /\ SumFunctionOnSet(v, {}) = 0
        /\ \A x \in 1..k : SumFunctionOnSet(v, 1..k) = v[x] + SumFunctionOnSet(v, (1..k) \ {x})
    BY <2>1, SumOfNaturals
  <2>3. 1..0 = {} /\ (1..k) \ {k} = 1..(k - 1) /\ k \in 1..k
    BY <1>1
  <2> QED BY <2>2, <2>3
<1> HIDE DEF sum
<1>6. wrong = {}
  <2>1. SUFFICES ASSUME wrong # {} PROVE FALSE
    OBVIOUS
  <2>2. m \in wrong /\ \A y \in wrong : m <= y
    <3>1. wrong \in SUBSET Nat
      BY <1>1
    <3> HIDE DEF wrong
    <3> QED BY <2>1, <3>1, LeastNat
  <2> HIDE DEF m
  <2>3. m \in 1..n /\ sum(m) # layers[m].to /\ m \in Int /\ m >= 1
    BY <1>1, <2>2
  <2>4. CASE m = 1
    <3>1. sum(1) = v[1] + sum(1 - 1) /\ 1 - 1 = 0 /\ sum(0) = 0
      BY <1>5, <2>3, <2>4
    <3> QED BY <1>3, <1>4, <2>3, <2>4, <3>1
  <2>5. CASE m > 1
    <3>1. m - 1 \in 1..n /\ m - 1 < m
      BY <1>1, <2>3, <2>5
    <3>2. m - 1 \notin wrong
      BY <2>2, <2>3, <3>1
    <3>3. sum(m - 1) = layers[m-1].to /\ layers[m-1].to = layers[m].from
      BY <1>4, <2>3, <2>5, <3>1, <3>2
    <3>4. sum(m) = v[m] + sum(m - 1)
      BY <1>5, <2>3
    <3> QED BY <1>3, <2>3, <3>3, <3>4
  <2> QED BY <2>3, <2>4, <2>5
<1>7. n \in 1..n
  BY <1>1
<1>8. sum(n) = depth
  BY <1>4, <1>6, <1>7
<1> QED BY <1>1, <1>8 DEF sum, v, n

\* Deviations within tolerance add up to one within tolerance.
LEMMA TolerancesAdd ==
  ASSUME NEW S, IsFiniteSet(S), NEW v, NEW w, NEW c \in Nat,
         \A x \in S : v[x] \in Nat /\ w[x] \in Nat /\ Abs(v[x] - w[x]) * 100 * Percent <= w[x] * c
  PROVE  /\ SumFunctionOnSet(v, S) \in Nat /\ SumFunctionOnSet(w, S) \in Nat
         /\ Abs(SumFunctionOnSet(v, S) - SumFunctionOnSet(w, S)) * 100 * Percent <= SumFunctionOnSet(w, S) * c
<1> DEFINE V(T) == SumFunctionOnSet(v, T)
           W(T) == SumFunctionOnSet(w, T)
           wrong == {T \in SUBSET S : ~(Abs(V(T) - W(T)) * 100 * Percent <= W(T) * c)}
<1>1. ASSUME NEW T \in SUBSET S
      PROVE  /\ V(T) \in Nat /\ W(T) \in Nat /\ V({}) = 0 /\ W({}) = 0
             /\ \A x \in T : V(T) = v[x] + V(T \ {x}) /\ W(T) = w[x] + W(T \ {x})
  <2>1. IsFiniteSet(T) /\ (\A x \in T : v[x] \in Nat) /\ (\A x \in T : w[x] \in Nat)
    BY FS_Subset
  <2>2. V(T) \in Nat /\ V({}) = 0 /\ \A x \in T : V(T) = v[x] + V(T \ {x})
    BY <2>1, SumOfNaturals
  <2>3. W(T) \in Nat /\ W({}) = 0 /\ \A x \in T : W(T) = w[x] + W(T \ {x})
    BY <2>1, SumOfNaturals
  <2> QED BY <2>2, <2>3
<1> HIDE DEF V, W
<1>2. wrong = {}
  <2>1. SUFFICES ASSUME wrong # {} PROVE FALSE
    OBVIOUS
  <2>2. IsWellFoundedOn(StrictSubsetOrdering(S), SUBSET S)
    BY FS_StrictSubsetOrderingWellFounded, FS_FiniteSubsetsOfFinite
  <2>3. PICK T \in wrong : \A U \in wrong : <<U, T>> \notin StrictSubsetOrdering(S)
    <3>1. wrong \subseteq SUBSET S
      OBVIOUS
    <3> HIDE DEF wrong
    <3> QED BY <2>1, <2>2, <3>1, WFMin, Zenon
  <2>4. T \in SUBSET S /\ V(T) \in Nat /\ W(T) \in Nat /\ ~(Abs(V(T) - W(T)) * 100 * Percent <= W(T) * c)
    BY <1>1, <2>3
  <2>5. CASE T = {}
    <3>1. V(T) = 0 /\ W(T) = 0
      BY <1>1, <2>4, <2>5
    <3> QED BY <2>4, <3>1 DEF Abs, Percent
  <2>6. ASSUME NEW x \in T PROVE FALSE
    <3> DEFINE U == T \ {x}
    <3>1. U \in SUBSET S /\ <<U, T>> \in StrictSubsetOrdering(S)
      BY <2>4, <2>6 DEF StrictSubsetOrdering
    <3>2. U \notin wrong
      BY <2>3, <3>1
    <3>3. V(T) = v[x] + V(U) /\ W(T) = w[x] + W(U)
      BY <1>1, <2>4
    <3>4. V(U) \in Nat /\ W(U) \in Nat
      BY <1>1, <3>1
    <3>5. Abs(V(U) - W(U)) * 100 * Percent <= W(U) * c
      BY <3>1, <3>2
    <3> HIDE DEF U
    <3>6. v[x] \in Nat /\ w[x] \in Nat /\ Abs(v[x] - w[x]) * 100 * Percent <= w[x] * c
      BY <2>4
    <3>7. Abs(V(T) - W(T)) <= Abs(V(U) - W(U)) + Abs(v[x] - w[x])
      BY <3>3, <3>4, <3>6 DEF Abs
    <3>8. W(T) * c = W(U) * c + w[x] * c
      BY <3>3, <3>4, <3>6
    <3>9. /\ Abs(V(T) - W(T)) \in Int /\ Abs(V(U) - W(U)) \in Int /\ Abs(v[x] - w[x]) \in Int
          /\ W(T) * c \in Int /\ W(U) * c \in Int /\ w[x] * c \in Int
      BY <2>4, <3>4, <3>6 DEF Abs
    <3> QED BY <2>4, <3>5, <3>6, <3>7, <3>8, <3>9 DEF Percent
  <2> QED BY <2>5, <2>6
<1>3. S \in SUBSET S /\ S \notin wrong
  BY <1>2
<1> QED BY <1>1, <1>3 DEF V, W

\* A ratio within tolerance is rounded beyond it by half a hundredth at most.
LEMMA RoundedWithin ==
  ASSUME NEW x \in Nat, NEW t \in Nat, t > 0, NEW c \in Nat, x * 100 * Percent <= t * c
  PROVE  2 * Rounded(x * 10000, t) * Percent <= 200 * c + Percent
<1> DEFINE n == 2 * (x * 10000) + t
           q == n \div (2 * t)
<1>1. n \in Nat /\ 2 * t \in Nat /\ 2 * t > 0
  OBVIOUS
<1>2. \A a, b \in Nat : b > 0 => a \div b \in Int /\ (a \div b) * b <= a
  OBVIOUS
<1> HIDE DEF n
<1>3. q \in Int /\ q * (2 * t) <= n
  BY <1>1, <1>2
<1> HIDE DEF q
<1>4. 20 * (q * t) <= 2 * (t * c) + 10 * t
  BY <1>3 DEF n, Percent
<1>5. 20 * q <= 2 * c + 10
  <2>1. SUFFICES ASSUME 20 * q >= 2 * c + 11 PROVE FALSE
    BY <1>3
  <2>2. t * (20 * q) >= t * (2 * c + 11)
    BY <1>3, <2>1
  <2>3. t * (20 * q) = 20 * (q * t) /\ t * (2 * c + 11) = 2 * (t * c) + 11 * t
    BY <1>3
  <2>4. q * t \in Int /\ t * c \in Int
    BY <1>3
  <2> QED BY <1>4, <2>2, <2>3, <2>4
<1>6. Rounded(x * 10000, t) = q
  BY DEF Rounded, q, n
<1> QED BY <1>3, <1>5, <1>6 DEF Percent

\* Nothing else the model stores is None: a report is not.
NoneIsNoReport ==
  \A passed, source, digest, checks, open :
    None # [passed |-> passed, sourceRevision |-> source, planDigest |-> digest,
            checks |-> checks, open |-> open]

\* A case that is finished: every layer of a plan in force has its checkpoint.
Finished ==
  /\ TypeOK /\ SealedInOrder /\ plan # None
  /\ DOMAIN checkpoints = DOMAIN plan.layers

\* In a finished case the layers completed are all of them, each by the
\* checkpoint of its number.
LEMMA FinishedLayers ==
  ASSUME Finished
  PROVE  /\ CompletedLayers = DOMAIN plan.layers
         /\ \A k \in DOMAIN plan.layers :
              /\ SealedAt(plan.layers[k]) = {k} /\ Max(SealedAt(plan.layers[k])) = k
              /\ Conforms(plan, checkpoints[k]) /\ checkpoints[k].seq = k
<1>1. ASSUME NEW k \in DOMAIN plan.layers PROVE SealedAt(plan.layers[k]) = {k} /\ k \in Int
  <2>1. SealedAt(plan.layers[k]) = {c \in {k} : c \in DOMAIN checkpoints} /\ k \in DOMAIN checkpoints
    BY SealedAtNumber DEF Finished
  <2>2. k \in Int
    BY PlanInForce DEF Finished
  <2> QED BY <2>1, <2>2
<1>2. \A k \in Int : Max({k}) = k
  BY DEF Max
<1>3. CompletedLayers = DOMAIN plan.layers
  BY <1>1 DEF CompletedLayers
<1> QED BY <1>1, <1>2, <1>3 DEF Finished, SealedInOrder

\* Each layer of a finished case lacks neither evidence nor, at the bottom,
\* its terminal elevation.
LEMMA FinishedProgress ==
  ASSUME Finished, OpenDeviations(deviations) = {}
  PROVE  /\ \A k \in DOMAIN plan.layers :
              /\ LayerProgress(plan.layers[k]).status = "passed"
              /\ LayerProgress(plan.layers[k]).missing = {}
         /\ LayerProgress(plan.layers[Len(plan.layers)]).elevation
<1>1. ASSUME NEW k \in DOMAIN plan.layers
      PROVE  /\ LayerProgress(plan.layers[k]).status = "passed"
             /\ LayerProgress(plan.layers[k]).missing = {}
             /\ k + 1 \notin DOMAIN plan.layers => LayerProgress(plan.layers[k]).elevation
  <2> DEFINE layer == plan.layers[k]
             at == SealedAt(layer)
             cp == checkpoints[Max(at)]
  <2>1. at = {k} /\ Max(at) = k /\ Conforms(plan, checkpoints[k]) /\ checkpoints[k].seq = k
    BY FinishedLayers
  <2>2. ~Blocked(layer)
    BY DEF Blocked
  <2> DEFINE elevation == at # {} /\ cp.elevation
  <2>3. LayerProgress(layer) =
          [status    |-> IF Blocked(layer) THEN "blocked" ELSE IF at = {} THEN "pending" ELSE "passed",
           missing   |-> IF at = {} THEN {} ELSE RequiredEvidence(plan, layer) \ cp.evidence,
           elevation |-> elevation]
    BY Zenon DEF LayerProgress
  <2>4. cp = checkpoints[k]
    BY <2>1
  <2>5. RequiredEvidence(plan, layer) \subseteq cp.evidence /\ (k + 1 \in DOMAIN plan.layers \/ cp.elevation)
    BY <2>1, <2>4, ConformsMeans
  <2>6. elevation <=> cp.elevation
    BY <2>1
  <2> HIDE DEF cp, at, layer, elevation
  <2>7. LayerProgress(layer).elevation = elevation
    BY <2>3
  <2>8. LayerProgress(layer).status = "passed" /\ LayerProgress(layer).missing = {}
    BY <2>1, <2>2, <2>3, <2>5
  <2> QED BY <2>5, <2>6, <2>7, <2>8 DEF layer
<1>2. Len(plan.layers) \in DOMAIN plan.layers /\ Len(plan.layers) + 1 \notin DOMAIN plan.layers
  BY PlanInForce DEF Finished, Stacked
<1> QED BY <1>1, <1>2

\* A finished case has no depth left.
LEMMA FinishedDepth ==
  ASSUME Finished
  PROVE  RemainingDepth = 0
<1>1. CompletedDepth = baseline.depth
  <2>1. plan.layers \in Seq(Layer) /\ Stacked(baseline.depth, plan.layers)
    BY PlanInForce DEF Finished
  <2>2. SumFunctionOnSet([k \in DOMAIN plan.layers |-> Span(plan.layers[k])], DOMAIN plan.layers) = baseline.depth
    BY <2>1, DepthAddsUp, Zenon
  <2>3. CompletedLayers = DOMAIN plan.layers
    BY FinishedLayers, Zenon
  <2> QED BY <2>2, <2>3, Zenon DEF CompletedDepth
<1>2. baseline.depth - CompletedDepth = 0
  BY <1>1, WorkflowAssumption DEF Finished, TypeOK
<1>3. Max({0, 0}) = 0
  BY DEF Max
<1> QED BY <1>2, <1>3 DEF RemainingDepth

\* In a finished case every lot is within the tolerance of the plan, and shown so
\* but for the rounding.
LEMMA FinishedMaterials ==
  ASSUME Finished, NEW lot
  PROVE  /\ Abs(Actual(lot) - Target(lot)) * 100 * Percent <= Target(lot) * plan.tolerance
         /\ 2 * Ratio(lot) * Percent <= 200 * plan.tolerance + Percent
<1> DEFINE K == DOMAIN plan.layers
           latest(k) == checkpoints[Max(SealedAt(plan.layers[k]))]
           v == [k \in CompletedLayers |-> latest(k).volume]
           w == [k \in K |-> plan.layers[k].target]
           S == {k \in K : plan.layers[k].lot = lot}
           c == plan.tolerance
<1>1. /\ CompletedLayers = K
      /\ \A k \in K : /\ latest(k) = checkpoints[k] /\ checkpoints[k] \in Checkpoint
                       /\ Conforms(plan, checkpoints[k]) /\ checkpoints[k].seq = k
  BY FinishedLayers DEF Finished, TypeOK
<1>2. c \in Nat /\ IsFiniteSet(K) /\ \A k \in K : plan.layers[k] \in Layer
  <2>1. plan.layers \in Seq(Layer)
    BY PlanInForce, Zenon DEF Finished
  <2>2. IsFiniteSet(K)
    BY <2>1, ListIsFinite
  <2>3. \A k \in K : plan.layers[k] \in Layer
    BY <2>1
  <2>4. c \in Nat
    <3>1. c \in 0..(50 * Percent)
      BY PlanInForce, Zenon DEF Finished
    <3> HIDE DEF c
    <3> QED BY <3>1 DEF Percent
  <2> QED BY <2>2, <2>3, <2>4
<1>3. ASSUME NEW k \in K
      PROVE  /\ v[k] \in Nat /\ w[k] \in Nat /\ w[k] > 0 /\ Abs(v[k] - w[k]) * 100 * Percent <= w[k] * c
             /\ latest(k).lot = plan.layers[k].lot
  <2>1. /\ checkpoints[k].volume \in Int /\ ~(checkpoints[k].volume <= 0)
        /\ ~OutOfTolerance(plan, plan.layers[k], checkpoints[k].volume)
        /\ checkpoints[k].lot = plan.layers[k].lot
    BY <1>1, ConformsMeans DEF Checkpoint
  <2>2. plan.layers[k].target \in Int /\ plan.layers[k].target > 0
    BY <1>2, PlanInForce DEF Finished, Stocked, Layer
  <2>3. v[k] = checkpoints[k].volume /\ w[k] = plan.layers[k].target /\ latest(k).lot = checkpoints[k].lot
    BY <1>1
  <2> HIDE DEF v, w, latest, c, K
  <2>4. v[k] \in Nat /\ w[k] \in Nat /\ w[k] > 0 /\ ~(Abs(v[k] - w[k]) * 100 * Percent > w[k] * c)
    BY <2>1, <2>2, <2>3 DEF OutOfTolerance, c
  <2>5. Abs(v[k] - w[k]) * 100 * Percent \in Int /\ w[k] * c \in Int
    BY <1>2, <2>4 DEF Abs, Percent
  <2> QED BY <2>1, <2>3, <2>4, <2>5
<1>4. Actual(lot) = SumFunctionOnSet(v, S)
  <2>1. {k \in CompletedLayers : latest(k).lot = lot} = S
    BY <1>1, <1>3
  <2>2. Actual(lot) = SumFunctionOnSet(v, {k \in CompletedLayers : latest(k).lot = lot})
    BY Zenon DEF Actual
  <2> QED BY <2>1, <2>2
<1>5. Target(lot) = SumFunctionOnSet(w, S)
  BY Zenon DEF Target, VolumeOfLot
<1>6. S \in SUBSET K /\ IsFiniteSet(S)
  BY <1>2, FS_Subset
<1> HIDE DEF v, w, S, K, latest, c
<1>7. /\ Actual(lot) \in Nat /\ Target(lot) \in Nat
      /\ Abs(Actual(lot) - Target(lot)) * 100 * Percent <= Target(lot) * c
  BY <1>2, <1>3, <1>4, <1>5, <1>6, TolerancesAdd
<1> DEFINE x == Abs(Actual(lot) - Target(lot))
<1>8. x \in Nat /\ x * 100 * Percent <= Target(lot) * c
  BY <1>7 DEF Abs
<1>9. Ratio(lot) = IF Target(lot) > 0 THEN Rounded(x * 10000, Target(lot)) ELSE 0
  BY DEF Ratio
<1> HIDE DEF x
<1>10. 2 * Ratio(lot) * Percent <= 200 * c + Percent
  <2>1. CASE Target(lot) > 0
    BY <1>2, <1>7, <1>8, <1>9, <2>1, RoundedWithin
  <2>2. CASE ~(Target(lot) > 0)
    BY <1>2, <1>9, <2>2 DEF Percent
  <2> QED BY <2>1, <2>2
<1> QED BY <1>7, <1>10 DEF c

\* A finished case with a current verdict shows no gap.
LEMMA NoGapShown ==
  NoneIsNoReport /\ TypeOK /\ SealedInOrder /\ VerifiedIsComplete /\ VerdictCurrent => FinishedShowsNoGap
<1> SUFFICES ASSUME NoneIsNoReport, TypeOK, SealedInOrder, VerifiedIsComplete, VerdictCurrent,
                    state \in AfterVerification
             PROVE  FinishedShowsNoGap
  BY DEF FinishedShowsNoGap
<1> DEFINE p == SummarizeProgress
<1>1. Finished /\ OpenDeviations(deviations) = {}
  BY DEF Finished, VerifiedIsComplete
<1>2. p = [completed |-> Cardinality(CompletedLayers), total |-> Len(plan.layers),
           remaining |-> RemainingDepth,
           layers    |-> [k \in DOMAIN plan.layers |-> LayerProgress(plan.layers[k])],
           materials |-> [lot \in {plan.layers[k].lot : k \in DOMAIN plan.layers} |-> Marker(lot)]]
  BY Zenon DEF SummarizeProgress
<1>3. Len(plan.layers) \in DOMAIN plan.layers
  BY <1>1, PlanInForce DEF Finished, Stacked
<1> DEFINE layers == [k \in DOMAIN plan.layers |-> LayerProgress(plan.layers[k])]
<1>4. p.layers = layers /\ p.total = Len(plan.layers) /\ p.remaining = RemainingDepth
  BY <1>2
<1>5. /\ \A k \in DOMAIN layers : layers[k].status = "passed" /\ layers[k].missing = {}
      /\ layers[Len(plan.layers)].elevation
  BY <1>1, <1>3, FinishedProgress
<1>6. RemainingDepth = 0
  BY <1>1, FinishedDepth
<1>7. verification # None /\ verification.passed
  <2>1. verification = Report(verification.sourceRevision, plan, checkpoints, deviations)
    BY DEF VerdictCurrent
  <2>2. Report(verification.sourceRevision, plan, checkpoints, deviations) # None
    BY Zenon DEF Report, NoneIsNoReport
  <2> QED BY <2>1, <2>2 DEF VerdictCurrent
<1>8. VerificationCount = IF state = "archived" THEN "archived" ELSE "passed"
  BY <1>7 DEF VerificationCount
<1> HIDE DEF layers, p
<1> QED BY <1>4, <1>5, <1>6, <1>8 DEF FinishedShowsNoGap, p

\* A verified case shows no gap: every layer passed with its evidence, and no depth
\* left to the bottom of the well, although progress adds the layers up by itself.
THEOREM FinishedCasesShowNoGap ==
  ASSUME NoneIsNoReport
  PROVE  Spec => []FinishedShowsNoGap
BY TypeCorrect, LayersSealedInOrder, OnlyCompleteCasesVerified, VerdictStaysCurrent, NoGapShown, PTL

\* In a verified case every lot is within the tolerance, although each volume was
\* checked by itself, and one shown as exceeding it is over by the rounding alone.
THEOREM ExceededLotsAreRounded == Spec => []ExceededOnlyByRounding
<1>1. TypeOK /\ SealedInOrder /\ VerifiedIsComplete => ExceededOnlyByRounding
  <2> SUFFICES ASSUME TypeOK, SealedInOrder, VerifiedIsComplete, state \in AfterVerification
               PROVE  ExceededOnlyByRounding
    BY DEF ExceededOnlyByRounding
  <2>1. Finished
    BY DEF Finished, VerifiedIsComplete
  <2> QED BY <2>1, FinishedMaterials DEF ExceededOnlyByRounding
<1> QED BY <1>1, TypeCorrect, LayersSealedInOrder, OnlyCompleteCasesVerified, PTL

-----------------------------------------------------------------------------
(* Tasks, summary and quality groups.                                      *)

\* The deviations a summary is about.
Summarized(f) ==
  {k \in DOMAIN deviations :
     OfKind(f, k) /\ (f.open = None \/ deviations[k].open = f.open) /\ DetectedWithin(f, k)}

\* Service and domain filter the same deviations, in whichever order.
LEMMA SummaryMeans ==
  ASSUME NEW f
  PROVE  /\ SummarizeDeviations(f).total = Cardinality(Summarized(f))
         /\ SummarizeDeviations(f).open = Cardinality(Summarized(f) \cap OpenDeviations(deviations))
         /\ SummarizeDeviations(f).groups = Groups(Summarized(f))
         /\ DeviationTasks(f).items = Summarized(f)
<1> DEFINE ks == {k \in {j \in DOMAIN deviations : OfKind(f, j)} :
                   (f.open = None \/ deviations[k].open = f.open) /\ DetectedWithin(f, k)}
<1>1. ks = Summarized(f)
  BY DEF Summarized
<1>2. SummarizeDeviations(f) =
        [total |-> Cardinality(ks), open |-> Cardinality(ks \cap OpenDeviations(deviations)),
         groups |-> Groups(ks)]
  BY Zenon DEF SummarizeDeviations
<1>3. DeviationTasks(f).items = Summarized(f)
  BY DEF DeviationTasks, Summarized
<1> HIDE DEF ks
<1>4. QED
  BY <1>1, <1>2, <1>3

\* The groups of some deviations, and what is in each.
LEMMA GroupOfKey ==
  ASSUME NEW ks, NEW key \in DOMAIN Groups(ks)
  PROVE  Groups(ks)[key] = Group({k \in ks : GroupKey(k) = key})
BY Zenon DEF Groups

LEMMA ItemsOfKey ==
  ASSUME NEW ks, NEW key \in DOMAIN Groups(ks)
  PROVE  /\ DOMAIN Groups(ks)[key].items = {k \in ks : GroupKey(k) = key}
         /\ \A k \in ks : GroupKey(k) = key => Groups(ks)[key].items[k] = SummaryItem(k)
<1>1. \A set : Group(set).items = [k \in set |-> SummaryItem(k)]
  BY DEF Group
<1>2. Groups(ks)[key].items = [k \in {j \in ks : GroupKey(j) = key} |-> SummaryItem(k)]
  BY <1>1, GroupOfKey
<1>3. QED
  BY <1>2

\* The groups share out the deviations they are made of.
LEMMA GroupsShare ==
  ASSUME NEW ks
  PROVE  /\ DOMAIN Groups(ks) = {GroupKey(k) : k \in ks}
         /\ UNION {DOMAIN Groups(ks)[key].items : key \in DOMAIN Groups(ks)} = ks
<1>1. DOMAIN Groups(ks) = {GroupKey(k) : k \in ks}
  BY Zenon DEF Groups
<1>2. \A key \in DOMAIN Groups(ks) : DOMAIN Groups(ks)[key].items = {k \in ks : GroupKey(k) = key}
  BY ItemsOfKey, Zenon
<1>3. QED
  BY <1>1, <1>2, Zenon

\* The latest retest tells whether a deviation is open.
LEMMA LatestRetest ==
  ASSUME TypeOK, DispositionHistory, NEW k \in DOMAIN deviations
  PROVE  SummaryItem(k).open <=> SummaryItem(k).latest # "passed"
<1> DEFINE d == deviations[k].dispositions
<1>1. deviations[k] \in DeviationType
  BY DeviationsTyped
<1>2. d \in Seq(DispositionType) /\ deviations[k].open \in BOOLEAN
  BY <1>1 DEF DeviationType
<1>3. {j \in DOMAIN d : d[j].retest = "passed"} = IF deviations[k].open THEN {} ELSE {Len(d)}
  BY Zenon DEF DispositionHistory
<1>4. SummaryItem(k).open = deviations[k].open
  BY DEF SummaryItem
<1>5. SummaryItem(k).latest = IF d = << >> THEN None ELSE d[Len(d)].retest
  BY DEF SummaryItem, Last
<1> HIDE DEF d
<1>6. CASE deviations[k].open
  <2>1. d # << >> => Len(d) \in DOMAIN d
    BY <1>2
  <2>2. SummaryItem(k).latest # "passed"
    BY <1>3, <1>5, <1>6, <2>1, FilterAssumption
  <2>3. QED
    BY <1>4, <1>6, <2>2
<1>7. CASE ~deviations[k].open
  <2>1. Len(d) \in DOMAIN d /\ d[Len(d)].retest = "passed"
    BY <1>3, <1>7
  <2>2. d # << >>
    BY <2>1
  <2>3. QED
    BY <1>4, <1>5, <1>7, <2>1, <2>2
<1>8. QED
  BY <1>6, <1>7

\* The groups of the quality summary are those of the summary of all deviations.
LEMMA QualityMeans ==
  LET whole == SummarizeDeviations(NoFilter).groups
  IN  /\ DOMAIN QualityGroups = DOMAIN whole
      /\ \A key \in DOMAIN whole : \A figure \in {"total", "open", "earliest", "latest"} :
           QualityGroups[key][figure] = whole[key][figure]
<1> DEFINE all == DOMAIN deviations
           whole == SummarizeDeviations(NoFilter).groups
           of(key) == {k \in all : GroupKey(k) = key}
<1>1. Summarized(NoFilter) = all
  BY DEF Summarized, NoFilter, OfKind, DetectedWithin
<1>2. whole = Groups(all)
  BY <1>1, SummaryMeans
<1>3. DOMAIN QualityGroups = {GroupKey(k) : k \in all}
  BY Zenon DEF QualityGroups
<1>4. DOMAIN QualityGroups = DOMAIN whole
  BY <1>2, <1>3, GroupsShare
<1>5. ASSUME NEW key \in DOMAIN whole, NEW figure \in {"total", "open", "earliest", "latest"}
      PROVE  QualityGroups[key][figure] = whole[key][figure]
  <2>1. QualityGroups[key] =
          [total |-> Cardinality(of(key)), open |-> Cardinality({k \in of(key) : deviations[k].open}),
           earliest |-> Min(of(key)), latest |-> Max(of(key))]
    BY <1>4, <1>5, Zenon DEF QualityGroups
  <2>2. whole[key] = Group(of(key))
    BY <1>2, <1>5, GroupOfKey, Zenon
  <2>3. {k \in of(key) : deviations[k].open} = of(key) \cap OpenDeviations(deviations)
    BY DEF OpenDeviations
  <2>4. /\ whole[key].total = Cardinality(of(key))
        /\ whole[key].open = Cardinality(of(key) \cap OpenDeviations(deviations))
        /\ whole[key].earliest = Min(of(key))
        /\ whole[key].latest = Max(of(key))
    <3> HIDE DEF of, whole
    <3>1. QED
      BY <2>2 DEF Group
  <2>5. /\ QualityGroups[key].total = whole[key].total
        /\ QualityGroups[key].open = whole[key].open
        /\ QualityGroups[key].earliest = whole[key].earliest
        /\ QualityGroups[key].latest = whole[key].latest
    <3> DEFINE total == Cardinality(of(key))
               open == Cardinality({k \in of(key) : deviations[k].open})
               earliest == Min(of(key))
               latest == Max(of(key))
    <3>1. QualityGroups[key] = [total |-> total, open |-> open, earliest |-> earliest, latest |-> latest]
      BY <2>1
    <3>2. /\ whole[key].total = total /\ whole[key].open = open
          /\ whole[key].earliest = earliest /\ whole[key].latest = latest
      BY <2>3, <2>4, Zenon
    <3> HIDE DEF total, open, earliest, latest, of, all, whole
    <3>3. QED
      BY <3>1, <3>2
  <2>6. QED
    BY <1>5, <2>5
<1>6. QED
  BY <1>4, <1>5

\* Tasks and summary agree in every state with typed deviations of sound history.
LEMMA SummariesMatch == TypeOK /\ DispositionHistory => SummariesAgree
<1> SUFFICES ASSUME TypeOK, DispositionHistory PROVE SummariesAgree
  OBVIOUS
<1>1. ASSUME NEW f \in FilterInput
      PROVE  LET tasks   == DeviationTasks(f)
                 summary == SummarizeDeviations(f)
                 shared  == UNION {DOMAIN summary.groups[key].items : key \in DOMAIN summary.groups}
             IN  /\ shared = tasks.items
                 /\ summary.total = Cardinality(tasks.items)
                 /\ f.open = TRUE => summary.open = summary.total
                 /\ f = NoFilter => summary.open = tasks.open
                 /\ \A key \in DOMAIN summary.groups : \A k \in DOMAIN summary.groups[key].items :
                      LET item == summary.groups[key].items[k]
                      IN  item.open <=> item.latest # "passed"
  <2> DEFINE ks == Summarized(f)
             summary == SummarizeDeviations(f)
  <2>1. /\ summary.total = Cardinality(ks)
        /\ summary.open = Cardinality(ks \cap OpenDeviations(deviations))
        /\ summary.groups = Groups(ks) /\ DeviationTasks(f).items = ks
    BY SummaryMeans
  <2>2. f.open = TRUE => ks \cap OpenDeviations(deviations) = ks
    BY FilterAssumption DEF Summarized, OpenDeviations
  <2>3. f = NoFilter => ks \cap OpenDeviations(deviations) = OpenDeviations(deviations)
    BY DEF Summarized, NoFilter, OfKind, DetectedWithin, OpenDeviations
  <2>4. DeviationTasks(f).open = Cardinality(OpenDeviations(deviations))
    BY DEF DeviationTasks
  <2>5. ks \subseteq DOMAIN deviations
    BY DEF Summarized
  <2> HIDE DEF ks, summary
  <2>6. ASSUME NEW key \in DOMAIN Groups(ks), NEW k \in DOMAIN Groups(ks)[key].items
        PROVE  Groups(ks)[key].items[k].open <=> Groups(ks)[key].items[k].latest # "passed"
    <3>1. k \in ks /\ Groups(ks)[key].items[k] = SummaryItem(k)
      <4>1. /\ DOMAIN Groups(ks)[key].items = {j \in ks : GroupKey(j) = key}
            /\ \A j \in ks : GroupKey(j) = key => Groups(ks)[key].items[j] = SummaryItem(j)
        BY ItemsOfKey
      <4>2. QED
        BY <4>1
    <3>2. SummaryItem(k).open <=> SummaryItem(k).latest # "passed"
      BY <2>5, <3>1, LatestRetest
    <3>3. QED
      BY <3>1, <3>2
  <2>7. UNION {DOMAIN summary.groups[key].items : key \in DOMAIN summary.groups} = ks
    <3>1. UNION {DOMAIN Groups(ks)[key].items : key \in DOMAIN Groups(ks)} = ks
      BY GroupsShare
    <3>2. QED
      BY <2>1, <3>1, Zenon
  <2>8. summary.total = Cardinality(DeviationTasks(f).items)
    BY <2>1
  <2>9. /\ f.open = TRUE => summary.open = summary.total
        /\ f = NoFilter => summary.open = DeviationTasks(f).open
    BY <2>1, <2>2, <2>3, <2>4
  <2>10. QED
    BY <2>1, <2>6, <2>7, <2>8, <2>9, Zenon DEF summary
<1>2. QED
  BY <1>1, QualityMeans, Zenon DEF SummariesAgree

\* Tasks, summary and quality summary agree under every filter.
THEOREM SummariesAlwaysAgree == Spec => []SummariesAgree
BY TypeCorrect, DispositionsKept, SummariesMatch, PTL
===============================================================================
