--------------------------- MODULE PlanDesk_proofs ---------------------------
(***************************************************************************)
(* What the answer of the preflight means, for a well of any depth, any    *)
(* number of layers and any spelling.                                      *)
(***************************************************************************)
EXTENDS PlanDesk, PlanRules_proofs

-----------------------------------------------------------------------------
(* The answer.                                                             *)

\* An answer is the one the rules give for the plan submitted.
AnswersThePlan ==
  /\ input \in PlanInput
  /\ answer # Unasked =>
       answer = [verdict |-> PlanVerdict(Depth, input), issues |-> PlanIssues(Depth, input)]

\* Only the rules answer.
LEMMA Answers == Spec => []AnswersThePlan
<1>1. Init => AnswersThePlan
  BY DEF Init, AnswersThePlan
<1>2. AnswersThePlan /\ [Next]_vars => AnswersThePlan'
  BY DEF AnswersThePlan, Next, Preflight, vars
<1> QED BY <1>1, <1>2, PTL DEF Spec

\* A plan is called lockable if it has no issues.
LEMMA LockableMeans ==
  AnswersThePlan => /\ input \in SubmittedPlan
                    /\ answer # Unasked => (Lockable <=> CanLock(Depth, input))
                    /\ Lockable => CanLock(Depth, input)
<1> SUFFICES ASSUME AnswersThePlan
             PROVE  /\ input \in SubmittedPlan
                    /\ answer # Unasked => (Lockable <=> CanLock(Depth, input))
                    /\ Lockable => CanLock(Depth, input)
  OBVIOUS
<1>1. input \in SubmittedPlan
  BY DeskAssumption DEF AnswersThePlan
<1>2. Lockable => answer # Unasked
  BY DEF Lockable, Unasked
<1>3. PlanVerdict(Depth, input) = "locked" <=> PlanIssues(Depth, input) = {}
  BY DEF PlanVerdict
<1>4. answer # Unasked => (Lockable <=> CanLock(Depth, input))
  BY <1>3 DEF AnswersThePlan, Lockable, CanLock
<1> QED BY <1>1, <1>2, <1>4

-----------------------------------------------------------------------------
(* A lockable plan can be built.                                           *)

\* A checkpoint conforms if it fails none of the tests.
LEMMA NoFailure ==
  ASSUME NEW tests, NEW n \in Nat, DOMAIN tests = 1..n, \A k \in 1..n : ~tests[k].fails
  PROVE  FirstFailure(tests) = "ok"
<1>1. {k \in DOMAIN tests : tests[k].fails} = {}
  OBVIOUS
<1> QED BY <1>1, Zenon DEF FirstFailure

\* A checkpoint that agrees with its layer, is within tolerance and has what is
\* asked for conforms.
LEMMA NothingFails ==
  ASSUME NEW p, NEW cp, cp.seq \in DOMAIN p.layers, NEW l, l = p.layers[cp.seq],
         cp.stage = l.stage, cp.from = l.from, cp.to = l.to, cp.lot = l.lot,
         ~(cp.volume <= 0), ~OutOfTolerance(p, l, cp.volume),
         ~IsBlank(cp.recordedBy), ~IsBlank(cp.evidenceDigest),
         RequiredEvidence(p, l) \subseteq cp.evidence, cp.named, cp.elevation
  PROVE  Conforms(p, cp)
<1> DEFINE m == p.layers[cp.seq]
           a == cp.stage # m.stage
           b == cp.from # m.from \/ cp.to # m.to
           c == cp.lot # m.lot
           d == cp.volume <= 0 \/ OutOfTolerance(p, m, cp.volume)
           e == IsBlank(cp.recordedBy)
           f == IsBlank(cp.evidenceDigest) \/ ~(RequiredEvidence(p, m) \subseteq cp.evidence)
           g == ~cp.named
           h == cp.seq + 1 \notin DOMAIN p.layers /\ ~cp.elevation
           tests == <<
    [category |-> "stage_mismatch",             fails |-> a],
    [category |-> "depth_out_of_range",         fails |-> b],
    [category |-> "material_mismatch",          fails |-> c],
    [category |-> "volume_out_of_tolerance",    fails |-> d],
    [category |-> "recorder_missing",           fails |-> e],
    [category |-> "evidence_missing",           fails |-> f],
    [category |-> "measurement_invalid",        fails |-> g],
    [category |-> "terminal_elevation_missing", fails |-> h] >>
<1>1. CheckCheckpoint(p, cp) = FirstFailure(tests)
  BY Zenon DEF CheckCheckpoint
<1>2. l = m
  OBVIOUS
<1> HIDE DEF m
<1>3. ~a /\ ~b /\ ~c /\ ~d /\ ~e /\ ~f /\ ~g /\ ~h
  BY <1>2, Zenon
<1> HIDE DEF a, b, c, d, e, f, g, h
<1>4. DOMAIN tests = 1..8 /\ \A j \in 1..8 : ~tests[j].fails
  BY <1>3
<1> HIDE DEF tests
<1> QED BY <1>1, <1>4, NoFailure DEF Conforms

\* A normalised name is normal.
LEMMA TrimTwice ==
  ASSUME NEW t \in Text
  PROVE  Trim[t] \in Text /\ Trim[Trim[t]] = Trim[t]
BY TrimAssumption

\* Each layer of a plan without issues, reported as planned, conforms.
LEMMA PlannedConforms ==
  ASSUME NEW given \in SubmittedPlan, CanLock(Depth, given),
         NEW k \in DOMAIN NormalizedPlan(given).layers
  PROVE  Conforms(NormalizedPlan(given), AsPlanned(NormalizedPlan(given), k))
<1> DEFINE p == NormalizedPlan(given)
           l == p.layers[k]
           cp == AsPlanned(p, k)
<1>1. Depth \in Int
  BY DeskAssumption
<1>2. Headed(p, given) /\ Stacked(Depth, p.layers) /\ Stocked(p)
  BY <1>1, CleanPlan
<1>3. p.layers \in Seq(Layer)
  BY PlanNormalized
<1>4. /\ p.preparedBy = Trim[given.preparedBy] /\ p.reviewedBy = Trim[given.reviewedBy]
      /\ given.preparedBy \in Text /\ given.reviewedBy \in Text
  BY PlanNormalized DEF SubmittedPlan
<1>5. ~IsBlank(p.preparedBy) /\ ~IsBlank(p.reviewedBy)
  BY <1>2, <1>4, TrimTwice DEF IsBlank, Headed
<1>6. l \in Layer /\ l.seq = k /\ l.target > 0 /\ l.target \in Int /\ p.tolerance \in 0..(50 * Percent)
  <2>1. k \in DOMAIN p.layers
    OBVIOUS
  <2> HIDE DEF p
  <2>2. l \in Layer
    BY <1>3, <2>1
  <2> QED BY <1>2, <2>1, <2>2 DEF Stacked, Stocked, Headed, Layer
<1> HIDE DEF p
<1>7. cp = [seq |-> l.seq, from |-> l.from, to |-> l.to, stage |-> l.stage, lot |-> l.lot,
            volume |-> l.target, recordedBy |-> p.preparedBy, evidenceDigest |-> p.reviewedBy,
            evidence |-> RequiredEvidence(p, l), named |-> TRUE, elevation |-> TRUE]
  BY Zenon DEF AsPlanned
<1>8. p.layers[cp.seq] = l /\ cp.seq \in DOMAIN p.layers
  BY <1>6, <1>7 DEF p
<1>9. ~OutOfTolerance(p, l, l.target)
  <2>1. l.target * p.tolerance >= 0
    BY <1>6
  <2>2. Abs(l.target - l.target) = 0
    BY <1>6 DEF Abs
  <2>3. l.target * p.tolerance \in Int
    BY <1>6
  <2> HIDE DEF l
  <2> QED BY <2>1, <2>2, <2>3 DEF OutOfTolerance, Percent
<1>10. /\ cp.stage = l.stage /\ cp.from = l.from /\ cp.to = l.to /\ cp.lot = l.lot
       /\ cp.volume = l.target /\ cp.recordedBy = p.preparedBy /\ cp.evidenceDigest = p.reviewedBy
       /\ cp.evidence = RequiredEvidence(p, l) /\ cp.named /\ cp.elevation
  BY <1>7
<1> HIDE DEF cp, l
<1>11. ~(cp.volume <= 0)
  BY <1>6, <1>10
<1>12. Conforms(p, cp)
  BY <1>5, <1>8, <1>9, <1>10, <1>11, NothingFails
<1> QED BY <1>12 DEF p, cp

\* No lockable plan is a trap: each of its layers, reported as planned, passes
\* the construction gate.
THEOREM LockablePlansAreBuildable == Spec => []LockableIsBuildable
<1>1. AnswersThePlan => LockableIsBuildable
  BY LockableMeans, PlannedConforms DEF LockableIsBuildable
<1> QED BY <1>1, Answers, PTL


-----------------------------------------------------------------------------
(* The digest can be recomputed.                                           *)

\* A finite set as a sequence: each element once.
LEMMA SetAsSequence ==
  ASSUME NEW S, IsFiniteSet(S)
  PROVE  /\ SetToSeq(S) \in Seq(S) /\ DOMAIN SetToSeq(S) = 1..Cardinality(S)
         /\ \A x \in S : \E k \in DOMAIN SetToSeq(S) : SetToSeq(S)[k] = x
<1> DEFINE n == Cardinality(S)
           s == SetToSeq(S)
<1>1. n \in Nat /\ ExistsBijection(1..n, S)
  BY FS_CardinalityType
<1>2. PICK f : f \in Bijection(1..n, S)
  BY <1>1, Fun_ExistsBij
<1>3. f \in [1..n -> S] /\ IsInjective(f)
  <2>1. f \in [1..n -> S] /\ \A a, b \in 1..n : f[a] = f[b] => a = b
    BY <1>2, Fun_BijectionProperties, Zenon
  <2>2. DOMAIN f = 1..n
    BY <2>1
  <2> QED BY <2>1, <2>2, Zenon DEF IsInjective
<1>4. s = CHOOSE g \in [1..n -> S] : IsInjective(g)
  BY Zenon DEF SetToSeq
<1>5. s \in [1..n -> S] /\ IsInjective(s)
  BY <1>3, <1>4, Zenon
<1> HIDE DEF s
<1>6. s \in Injection(1..n, S)
  BY <1>5, Zenon DEF Injection
<1>7. IsFiniteSet(1..n) /\ Cardinality(1..n) = n
  BY <1>1, FS_Interval
<1>8. s \in Surjection(1..n, S)
  BY <1>6, <1>7, FS_Injection
<1>9. \A x \in S : \E k \in 1..n : s[k] = x
  BY <1>8, Zenon DEF Surjection
<1>10. s \in Seq(S) /\ DOMAIN s = 1..n
  BY <1>1, <1>5
<1> QED BY <1>9, <1>10 DEF s

\* The entries of a list, trimmed, are finitely many and trimmed.
LEMMA TrimmedOnce ==
  ASSUME NEW texts \in Seq(Text)
  PROVE  /\ IsFiniteSet(Trimmed(texts)) /\ Trimmed(texts) \subseteq Text
         /\ \A t \in Trimmed(texts) : Trim[t] = t
<1> DEFINE n == Len(texts)
           f == [k \in 1..n |-> Trim[texts[k]]]
<1>1. n \in Nat /\ DOMAIN texts = 1..n /\ \A k \in 1..n : texts[k] \in Text
  OBVIOUS
<1>2. Trimmed(texts) = {f[k] : k \in 1..n}
  BY <1>1 DEF Trimmed
<1>3. IsFiniteSet(1..n)
  BY <1>1, FS_Interval
<1>4. f \in Surjection(1..n, Trimmed(texts))
  <2>1. f \in [1..n -> Trimmed(texts)] /\ \A t \in Trimmed(texts) : \E k \in 1..n : f[k] = t
    BY <1>2
  <2> QED BY <2>1, Fun_IsSurj
<1>5. IsFiniteSet(Trimmed(texts))
  BY <1>3, <1>4, FS_Surjection
<1> QED BY <1>1, <1>2, <1>5, TrimTwice

\* Listing the entries of a trimmed set and trimming them gives the set back.
LEMMA TrimmedAgain ==
  ASSUME NEW texts \in Seq(Text)
  PROVE  /\ SetToSeq(Trimmed(texts)) \in Seq(Text)
         /\ Trimmed(SetToSeq(Trimmed(texts))) = Trimmed(texts)
<1> DEFINE T == Trimmed(texts)
           s == SetToSeq(T)
<1>1. IsFiniteSet(T) /\ T \subseteq Text /\ \A t \in T : Trim[t] = t
  BY TrimmedOnce
<1> HIDE DEF T
<1>2. s \in Seq(T) /\ \A x \in T : \E k \in DOMAIN s : s[k] = x
  BY <1>1, SetAsSequence
<1> HIDE DEF s
<1>3. \A k \in DOMAIN s : s[k] \in T
  BY <1>2
<1>4. Trimmed(s) = {s[k] : k \in DOMAIN s}
  BY <1>1, <1>3 DEF Trimmed
<1>5. Trimmed(s) = T
  BY <1>2, <1>3, <1>4
<1>6. s \in Seq(Text)
  BY <1>1, <1>2
<1> QED BY <1>5, <1>6 DEF s, T

\* Normalising a stored plan once more gives the plan itself.
LEMMA NormalizedTwice ==
  ASSUME NEW given \in SubmittedPlan, CanLock(Depth, given)
  PROVE  NormalizedPlan(Resubmitted(NormalizedPlan(given))) = NormalizedPlan(given)
<1> DEFINE p == NormalizedPlan(given)
           r == Resubmitted(p)
           S == SortedLayers(Typed(given))
<1>1. Stacked(Depth, S)
  BY DeskAssumption, CleanPlan, PlanNormalized
<1>2. /\ given.lots \in Seq(Text) /\ given.evidence \in Seq(Text) /\ given.tolerance \in Int
      /\ given.preparedBy \in Text /\ given.reviewedBy \in Text
  BY DEF SubmittedPlan
<1>3. /\ S \in Seq(Layer) /\ \A k \in DOMAIN S : S[k].seq = k
      /\ \A k \in DOMAIN S : NormalizedLayer(S[k]) = S[k]
  BY <1>1, PlanNormalized, StoredLayersNormal DEF Stacked
<1>4. p = [layers |-> S, lots |-> Trimmed(given.lots), evidence |-> Trimmed(given.evidence),
           tolerance |-> given.tolerance, preparedBy |-> Trim[given.preparedBy],
           reviewedBy |-> Trim[given.reviewedBy]]
  BY PlanNormalized
<1> HIDE DEF S
<1>5. r = [layers |-> S, lots |-> SetToSeq(Trimmed(given.lots)),
           evidence |-> SetToSeq(Trimmed(given.evidence)),
           tolerance |-> given.tolerance, preparedBy |-> Trim[given.preparedBy],
           reviewedBy |-> Trim[given.reviewedBy]]
  <2>1. PICK one : one = [p EXCEPT !.lots = SetToSeq(@)]
    OBVIOUS
  <2>2. r = [one EXCEPT !.evidence = SetToSeq(@)]
    BY <2>1 DEF Resubmitted
  <2> HIDE DEF p, r
  <2> DEFINE lots == SetToSeq(Trimmed(given.lots))
             evidence == SetToSeq(Trimmed(given.evidence))
  <2>3. SetToSeq(p.lots) = lots /\ SetToSeq(p.evidence) = evidence
    BY <1>4
  <2> HIDE DEF lots, evidence
  <2>4. one = [layers |-> S, lots |-> lots, evidence |-> Trimmed(given.evidence),
               tolerance |-> given.tolerance, preparedBy |-> Trim[given.preparedBy],
               reviewedBy |-> Trim[given.reviewedBy]]
    BY <1>4, <2>1, <2>3
  <2>5. SetToSeq(one.evidence) = evidence
    BY <1>4, <2>3, <2>4
  <2>6. r = [layers |-> S, lots |-> lots, evidence |-> evidence,
             tolerance |-> given.tolerance, preparedBy |-> Trim[given.preparedBy],
             reviewedBy |-> Trim[given.reviewedBy]]
    BY <2>2, <2>4, <2>5
  <2> QED BY <2>6 DEF lots, evidence
<1> HIDE DEF r, p
<1>6. r \in SubmittedPlan
  BY <1>2, <1>3, <1>5, TrimTwice, TrimmedAgain DEF SubmittedPlan
<1>7. Typed(r) = S
  <2>1. Typed(r) = [k \in DOMAIN S |-> S[k]]
    BY <1>3, <1>5 DEF Typed
  <2> QED BY <1>3, <2>1
<1>8. SortedLayers(Typed(r)) = S
  BY <1>3, <1>7, SortedTwice
<1>9. NormalizedPlan(r) =
        [layers |-> SortedLayers(Typed(r)), lots |-> Trimmed(r.lots), evidence |-> Trimmed(r.evidence),
         tolerance |-> r.tolerance, preparedBy |-> Trim[r.preparedBy], reviewedBy |-> Trim[r.reviewedBy]]
  BY <1>6, PlanNormalized
<1>10. /\ Trimmed(r.lots) = Trimmed(given.lots) /\ Trimmed(r.evidence) = Trimmed(given.evidence)
       /\ Trim[r.preparedBy] = Trim[given.preparedBy] /\ Trim[r.reviewedBy] = Trim[given.reviewedBy]
  BY <1>2, <1>5, TrimTwice, TrimmedAgain
<1>11. NormalizedPlan(r) = p
  BY <1>4, <1>5, <1>8, <1>9, <1>10
<1> QED BY <1>11 DEF r, p

\* Typing the layers in the opposite order stores the same plan.
LEMMA ReversedSame ==
  ASSUME NEW given \in SubmittedPlan, CanLock(Depth, given)
  PROVE  NormalizedPlan([given EXCEPT !.layers = Reverse(@)]) = NormalizedPlan(given)
<1> DEFINE r == [given EXCEPT !.layers = Reverse(@)]
           A == Typed(given)
           B == Typed(r)
           n == Len(given.layers)
<1>1. given.layers \in Seq(Layer) /\ n \in Nat /\ DOMAIN given.layers = 1..n
  BY DEF SubmittedPlan
<1>2. r.layers = [k \in 1..n |-> given.layers[n - k + 1]]
  BY DEF SubmittedPlan, Reverse
<1>3. /\ r.lots = given.lots /\ r.evidence = given.evidence /\ r.tolerance = given.tolerance
      /\ r.preparedBy = given.preparedBy /\ r.reviewedBy = given.reviewedBy
  BY DEF SubmittedPlan
<1>4. r \in SubmittedPlan
  <2>1. r.layers \in Seq(Layer)
    BY <1>1, <1>2
  <2>2. r = [given EXCEPT !.layers = r.layers]
    BY DEF SubmittedPlan
  <2> HIDE DEF r
  <2> QED BY <2>1, <2>2 DEF SubmittedPlan
<1> HIDE DEF r
<1>5. /\ A \in Seq(Layer) /\ DOMAIN A = 1..n /\ Len(A) = n
      /\ B \in Seq(Layer) /\ DOMAIN B = 1..n
  BY <1>1, <1>2, <1>4, TypedLayers
<1>6. \A k \in 1..n : n - k + 1 \in 1..n /\ B[k] = A[n - k + 1] /\ n - (n - k + 1) + 1 = k
  BY <1>1, <1>2 DEF Typed
<1> HIDE DEF A, B
<1>7. Numbered(A)
  <2>1. \A k \in DOMAIN SortedLayers(A) : SortedLayers(A)[k].seq = k
    BY DeskAssumption, CleanPlan, PlanNormalized DEF Stacked, A
  <2>2. DOMAIN SortedLayers(A) = DOMAIN A
    BY <1>1, <1>5, PlanNormalized DEF A
  <2> QED BY <1>5, <2>1, <2>2, SortedNumbered
<1>8. Numbered(B)
  <2>1. \A k \in 1..n : B[k].seq \in 1..n
    <3>1. \A m \in 1..n : A[m].seq \in 1..n
      BY <1>5, <1>7, Zenon DEF Numbered
    <3> QED BY <1>6, <3>1
  <2>2. ASSUME NEW j \in 1..n, NEW k \in 1..n, B[j].seq = B[k].seq PROVE j = k
    <3>1. A[n - j + 1].seq = A[n - k + 1].seq /\ n - j + 1 \in DOMAIN A /\ n - k + 1 \in DOMAIN A
      BY <1>5, <1>6, <2>2
    <3>2. n - j + 1 = n - k + 1
      BY <1>7, <3>1, Zenon DEF Numbered
    <3> QED BY <1>1, <3>2
  <2> QED BY <1>5, <2>1, <2>2 DEF Numbered
<1>9. \A k \in DOMAIN A : \E j \in DOMAIN B : A[k] = B[j]
  BY <1>5, <1>6
<1>10. SortedLayers(A) = SortedLayers(B)
  BY <1>5, <1>7, <1>8, <1>9, OrderOfTypingIrrelevant
<1>11. NormalizedPlan(r) = NormalizedPlan(given)
  BY <1>3, <1>4, <1>10, PlanNormalized DEF A, B
<1> QED BY <1>11 DEF r

\* The digest of a lockable plan depends neither on the order its layers were
\* typed in nor on normalising it once more: an archive can recompute it.
THEOREM DigestsAreCanonical == Spec => []DigestIsCanonical
<1>1. AnswersThePlan => DigestIsCanonical
  BY LockableMeans, NormalizedTwice, ReversedSame, Zenon DEF DigestIsCanonical, PlanDigest
<1> QED BY <1>1, Answers, PTL


-----------------------------------------------------------------------------
(* A list without blanks and repetitions.                                  *)

\* The list as typed has as many entries as trimmed ones if none repeats.
LEMMA ListedMeans ==
  ASSUME NEW texts \in Seq(Text)
  PROVE  Listed(texts) <=>
           Blank \notin Trimmed(texts) /\ \A k \in DOMAIN texts : ~RepeatsEarlier(texts, k)
<1> DEFINE K == DOMAIN texts
           f == [k \in K |-> Trim[texts[k]]]
           T == Trimmed(texts)
           distinct == \A j, k \in K : f[j] = f[k] => j = k
<1>1. Len(texts) \in Nat /\ K = 1..Len(texts)
  OBVIOUS
<1>2. IsFiniteSet(K) /\ Cardinality(K) = Len(texts)
  BY <1>1, FS_Interval
<1>3. \A k \in K : f[k] = Trim[texts[k]] /\ f[k] \in T
  BY DEF Trimmed
<1>4. \A t \in T : \E k \in K : f[k] = t
  BY DEF Trimmed
<1>5. \A k \in K : k \in Int
  BY <1>1
<1>6. f \in [K -> T]
  BY <1>3
<1> HIDE DEF K, f, T
<1>7. Cardinality(T) = Len(texts) <=> distinct
  <2>1. f \in Surjection(K, T)
    BY <1>4, <1>6, Fun_IsSurj
  <2>2. Cardinality(T) = Cardinality(K) <=> f \in Injection(K, T)
    BY <1>2, <2>1, FS_Surjection
  <2>3. f \in Injection(K, T) <=> distinct
    BY <1>6, Fun_IsInj, Fun_InjectionProperties
  <2> QED BY <1>2, <2>2, <2>3
<1>8. (\A k \in K : ~IsBlank(texts[k])) <=> Blank \notin T
  BY <1>3, <1>4 DEF IsBlank
<1>9. (\A k \in K : ~RepeatsEarlier(texts, k)) <=> \A k \in K : f[k] = Blank \/ \A j \in K : j < k => f[j] # f[k]
  BY <1>3 DEF RepeatsEarlier, K
<1>10. Blank \notin T => (distinct <=> \A k \in K : ~RepeatsEarlier(texts, k))
  <2>1. ASSUME Blank \notin T, \A k \in K : ~RepeatsEarlier(texts, k) PROVE distinct
    <3>1. \A j, k \in K : j < k => f[j] # f[k]
      BY <1>3, <1>9, <2>1
    <3> QED BY <1>5, <3>1
  <2>2. ASSUME distinct PROVE \A k \in K : ~RepeatsEarlier(texts, k)
    BY <1>5, <1>9, <2>2
  <2> QED BY <2>1, <2>2
<1>11. Listed(texts) <=> (\A k \in K : ~IsBlank(texts[k])) /\ Cardinality(T) = Len(texts)
  BY DEF Listed, K, T
<1> HIDE DEF distinct
<1> QED BY <1>7, <1>8, <1>10, <1>11 DEF K, T

-----------------------------------------------------------------------------
(* Stacked layers tile the well.                                           *)

\* As many layers have a number below m as there are numbers below m.
LEMMA NumbersBelow ==
  ASSUME NEW layers \in Seq(Layer), Numbered(layers), NEW m \in DOMAIN layers
  PROVE  Cardinality({j \in DOMAIN layers : layers[j].seq < m}) = m - 1
<1> DEFINE K == DOMAIN layers
           B == {j \in K : layers[j].seq < m}
           s == [j \in B |-> layers[j].seq]
<1>1. IsFiniteSet(K) /\ Len(layers) \in Nat /\ K = 1..Len(layers)
  BY ListIsFinite
<1>2. m - 1 \in Nat /\ IsFiniteSet(1..(m - 1)) /\ Cardinality(1..(m - 1)) = m - 1
  <2>1. m \in Nat /\ m >= 1
    BY <1>1
  <2>2. PICK c \in Int : c = m - 1 /\ c >= 0
    BY <2>1
  <2>3. IsFiniteSet(1..c) /\ Cardinality(1..c) = c
    BY <2>2, FS_Interval
  <2> QED BY <2>1, <2>2, <2>3
<1>3. s \in [B -> 1..(m - 1)] /\ \A i, j \in B : s[i] = s[j] => i = j
  BY <1>1 DEF Numbered
<1>4. \A n \in 1..(m - 1) : \E j \in B : s[j] = n
  <2> TAKE n \in 1..(m - 1)
  <2>1. n \in K /\ n < m
    BY <1>1
  <2>2. PICK j \in K : layers[j].seq = n
    BY <2>1, EveryNumber
  <2> QED BY <2>1, <2>2
<1> HIDE DEF B, s
<1>5. s \in Injection(B, 1..(m - 1))
  BY <1>3, Fun_IsInj
<1>6. s \in Surjection(B, 1..(m - 1))
  BY <1>3, <1>4, Fun_IsSurj
<1>7. Cardinality(B) = Cardinality(1..(m - 1))
  BY <1>2, <1>5, <1>6, FS_Injection
<1> QED BY <1>2, <1>7 DEF B

\* Of two stacked layers the upper one ends before the lower one begins.
LEMMA StackedApart ==
  ASSUME NEW layers \in Seq(Layer), Stacked(Depth, layers),
         NEW j \in DOMAIN layers, NEW k \in DOMAIN layers, j < k
  PROVE  layers[j].to <= layers[k].from
<1> DEFINE K == DOMAIN layers
           wrong == {i \in K : j < i /\ ~(layers[j].to <= layers[i].from)}
           m == Min(wrong)
<1>1. SUFFICES ASSUME wrong # {} PROVE FALSE
  OBVIOUS
<1>2. Len(layers) \in Nat /\ K = 1..Len(layers)
  BY ListIsFinite
<1>3. \A i \in K : layers[i] \in Layer
  OBVIOUS
<1> HIDE DEF K
<1>4. \A i \in K : layers[i].from \in Int /\ layers[i].to \in Int /\ layers[i].from < layers[i].to
  BY <1>3 DEF Layer, Stacked, K
<1>5. m \in wrong /\ \A y \in wrong : m <= y
  <2>1. wrong \in SUBSET Nat
    BY <1>2
  <2> HIDE DEF wrong
  <2> QED BY <1>1, <2>1, LeastNat
<1> HIDE DEF m
<1>6. m \in K /\ j < m /\ layers[m].from < layers[j].to /\ j \in K
  BY <1>4, <1>5 DEF K
<1>7. m - 1 \in K /\ m - 1 < m /\ (m - 1 = j \/ j < m - 1)
  BY <1>2, <1>6
<1>8. layers[m-1].to = layers[m].from
  BY <1>2, <1>6, <1>7 DEF Stacked, K
<1>9. m - 1 \notin wrong
  BY <1>2, <1>5, <1>6, <1>7
<1>10. CASE m - 1 = j
  BY <1>4, <1>6, <1>8, <1>10
<1>11. CASE j < m - 1
  <2>1. layers[j].to <= layers[m-1].from
    BY <1>7, <1>9, <1>11
  <2> QED BY <1>4, <1>6, <1>7, <1>8, <2>1
<1> QED BY <1>7, <1>10, <1>11

\* Every metre is in one of the stacked layers.
LEMMA StackedCovers ==
  ASSUME NEW layers \in Seq(Layer), Stacked(Depth, layers), NEW d \in 0..(Depth - 1)
  PROVE  \E k \in DOMAIN layers :
           \A j \in DOMAIN layers : (layers[j].from <= d /\ d < layers[j].to) <=> j = k
<1> DEFINE K == DOMAIN layers
           below == {i \in K : d < layers[i].to}
           m == Min(below)
<1>1. Len(layers) \in Nat /\ K = 1..Len(layers)
  BY ListIsFinite
<1>2. \A i \in K : layers[i] \in Layer
  OBVIOUS
<1>3. Len(layers) \in K /\ 1 \in K
  BY <1>1 DEF Stacked
<1>4. Depth \in Int /\ d \in Int /\ 0 <= d /\ d < Depth
  BY DeskAssumption
<1> HIDE DEF K
<1>5. \A i \in K : layers[i].from \in Int /\ layers[i].to \in Int /\ layers[i].from < layers[i].to
  BY <1>2 DEF Layer, Stacked, K
<1>6. m \in below /\ \A y \in below : m <= y
  <2>1. below \in SUBSET Nat
    BY <1>1
  <2>2. Len(layers) \in below
    BY <1>3, <1>4 DEF Stacked
  <2> HIDE DEF below
  <2> QED BY <2>1, <2>2, LeastNat
<1> HIDE DEF m
<1>7. m \in K /\ m \in Int /\ d < layers[m].to
  BY <1>1, <1>6
<1>8. layers[m].from <= d
  <2>1. CASE m = 1
    BY <1>4, <2>1 DEF Stacked
  <2>2. CASE m # 1
    <3>1. m - 1 \in K /\ m > 1 /\ m - 1 < m
      BY <1>1, <1>7, <2>2
    <3>2. m - 1 \notin below
      BY <1>6, <1>7, <3>1
    <3>3. layers[m-1].to = layers[m].from
      BY <1>7, <3>1 DEF Stacked, K
    <3> QED BY <1>4, <1>5, <3>1, <3>2, <3>3
  <2> QED BY <2>1, <2>2
<1>9. ASSUME NEW j \in K, layers[j].from <= d, d < layers[j].to PROVE j = m
  <2>1. j \in Int
    BY <1>1
  <2>2. ~(j < m)
    <3>1. SUFFICES ASSUME j < m PROVE FALSE
      OBVIOUS
    <3>2. layers[j].to <= layers[m].from
      BY <1>7, <3>1, StackedApart DEF K
    <3> QED BY <1>4, <1>5, <1>7, <1>8, <1>9, <3>2
  <2>3. ~(m < j)
    <3>1. SUFFICES ASSUME m < j PROVE FALSE
      OBVIOUS
    <3>2. layers[m].to <= layers[j].from
      BY <1>7, <3>1, StackedApart DEF K
    <3> QED BY <1>4, <1>5, <1>7, <1>8, <1>9, <3>2
  <2> QED BY <1>7, <2>1, <2>2, <2>3
<1> QED BY <1>7, <1>8, <1>9 DEF K


\* A stack tiles the well, in whatever order it was typed.
LEMMA StackTiles ==
  ASSUME NEW layers \in Seq(Layer), Stacked(Depth, SortedLayers(layers)),
         SortedLayers(layers) \in Seq(Layer), DOMAIN SortedLayers(layers) = DOMAIN layers
  PROVE  Tiles(layers)
<1> DEFINE L == SortedLayers(layers)
           K == DOMAIN layers
<1>1. Numbered(layers)
  BY SortedNumbered DEF Stacked
<1>2. \A k \in K : layers[k].seq \in K /\ L[layers[k].seq] = layers[k]
  BY <1>1, NumberedSorted DEF Numbered
<1>3. \A n \in K : \E k \in K : layers[k].seq = n
  BY <1>1, EveryNumber
<1>4. \A j, k \in K : layers[j].seq = layers[k].seq => j = k
  BY <1>1 DEF Numbered
<1>5. \A k \in K : k \in Int /\ layers[k] \in Layer
  BY ListIsFinite
<1>6. \A n \in K : L[n] \in Layer
  OBVIOUS
<1>7. \A n \in K : /\ 0 <= L[n].from /\ L[n].from < L[n].to /\ L[n].to <= Depth
                   /\ L[n].from \in Int /\ L[n].to \in Int
  BY <1>6 DEF Stacked, Layer
<1> HIDE DEF K, L
<1>8. ASSUME NEW d \in 0..(Depth - 1) PROVE Cardinality(Reaching(layers, d)) = 1
  <2>1. PICK n \in K : \A j \in K : (L[j].from <= d /\ d < L[j].to) <=> j = n
    BY StackedCovers DEF K, L
  <2>2. PICK k \in K : layers[k].seq = n
    BY <1>3
  <2>3. Reaching(layers, d) = {k}
    BY <1>2, <1>4, <2>1, <2>2 DEF Reaching, K
  <2> QED BY <2>3, FS_Singleton
<1>9. ASSUME NEW k \in K
      PROVE  /\ 0 <= layers[k].from /\ layers[k].from < layers[k].to /\ layers[k].to <= Depth
             /\ layers[k].seq = 1 + Cardinality({j \in K : layers[j].from < layers[k].from})
  <2>1. \A j, m \in K : j < m => L[j].from < L[m].from
    <3> TAKE j, m \in K
    <3> HAVE j < m
    <3>1. L[j].to <= L[m].from
      BY StackedApart DEF K, L
    <3> QED BY <1>7, <3>1
  <2>2. \A j \in K : layers[j].from < layers[k].from <=> layers[j].seq < layers[k].seq
    <3> TAKE j \in K
    <3> DEFINE x == layers[j].seq
               y == layers[k].seq
    <3>1. x \in K /\ y \in K /\ L[x] = layers[j] /\ L[y] = layers[k]
      BY <1>2
    <3> HIDE DEF x, y
    <3>2. x \in Int /\ y \in Int /\ L[x].from \in Int /\ L[y].from \in Int
      BY <1>5, <1>7, <3>1
    <3>3. (x < y => L[x].from < L[y].from) /\ (y < x => L[y].from < L[x].from)
      BY <2>1, <3>1
    <3>4. (L[x].from < L[y].from) <=> (x < y)
      BY <3>2, <3>3
    <3> QED BY <3>1, <3>4 DEF x, y
  <2> DEFINE higher == {j \in K : layers[j].from < layers[k].from}
             lower  == {j \in K : layers[j].seq < layers[k].seq}
  <2>3. Cardinality(lower) = layers[k].seq - 1
    BY <1>1, <1>2, NumbersBelow DEF K
  <2>4. higher = lower
    BY <2>2
  <2>5. layers[k].seq \in Int
    BY <1>2, <1>5
  <2>6. layers[k].seq = 1 + Cardinality(higher)
    <3> HIDE DEF higher, lower
    <3> QED BY <2>3, <2>4, <2>5
  <2>7. L[layers[k].seq] = layers[k] /\ layers[k].seq \in K
    BY <1>2
  <2> QED BY <1>7, <2>6, <2>7
<1> QED BY <1>8, <1>9 DEF Tiles, K

\* Tiles do not overlap.
LEMMA TilesApart ==
  ASSUME NEW layers \in Seq(Layer), Tiles(layers), NEW d \in 0..(Depth - 1),
         NEW j \in DOMAIN layers, NEW k \in DOMAIN layers,
         layers[j].from <= d, d < layers[j].to, layers[k].from <= d, d < layers[k].to
  PROVE  j = k
<1>1. Reaching(layers, d) \in SUBSET (DOMAIN layers) /\ IsFiniteSet(DOMAIN layers)
  BY ListIsFinite DEF Reaching
<1>2. IsFiniteSet(Reaching(layers, d)) /\ Cardinality(Reaching(layers, d)) = 1
  BY <1>1, FS_Subset DEF Tiles
<1>3. PICK x : Reaching(layers, d) = {x}
  BY <1>2, FS_Singleton
<1>4. j \in Reaching(layers, d) /\ k \in Reaching(layers, d)
  BY DEF Reaching
<1> QED BY <1>3, <1>4

\* Tiles are numbered from the surface down.
LEMMA TilesNumbered ==
  ASSUME NEW layers \in Seq(Layer), Tiles(layers)
  PROVE  /\ Numbered(layers)
         /\ \A j, k \in DOMAIN layers : layers[j].from < layers[k].from <=> layers[j].seq < layers[k].seq
<1> DEFINE K == DOMAIN layers
           before == [k \in K |-> {j \in K : layers[j].from < layers[k].from}]
<1>1. IsFiniteSet(K) /\ Len(layers) \in Nat /\ K = 1..Len(layers) /\ Cardinality(K) = Len(layers)
  BY ListIsFinite
<1>2. \A k \in K : layers[k] \in Layer
  OBVIOUS
<1>3. Depth \in Int
  BY DeskAssumption
<1> HIDE DEF K
<1>4. \A k \in K : /\ layers[k].from \in Int /\ layers[k].to \in Int /\ layers[k].seq \in Int
                   /\ 0 <= layers[k].from /\ layers[k].from < layers[k].to /\ layers[k].to <= Depth
  BY <1>2 DEF Layer, Tiles, K
<1>5. \A j, k \in K : layers[j].from = layers[k].from => j = k
  <2> TAKE j, k \in K
  <2> HAVE layers[j].from = layers[k].from
  <2>1. layers[j].from \in 0..(Depth - 1)
    BY <1>3, <1>4
  <2> QED BY <1>4, <2>1, TilesApart DEF K
<1>6. StrictOrder(K, before)
  BY <1>4, <1>5 DEF StrictOrder
<1>7. \A k \in K : layers[k].seq = 1 + Cardinality(before[k])
  BY DEF Tiles, K
<1>8. \A j, k \in K : /\ Cardinality(before[j]) \in 0..(Cardinality(K) - 1)
                      /\ j \in before[k] <=> Cardinality(before[j]) < Cardinality(before[k])
  BY <1>1, <1>6, FewerBefore
<1>9. \A j, k \in K : j \in before[k] <=> layers[j].from < layers[k].from
  OBVIOUS
<1> HIDE DEF before
<1>10. \A k \in K : layers[k].seq \in K
  BY <1>1, <1>7, <1>8
<1>11. \A j, k \in K : layers[j].from < layers[k].from <=> layers[j].seq < layers[k].seq
  BY <1>7, <1>8, <1>9
<1>12. \A j, k \in K : layers[j].seq = layers[k].seq => j = k
  BY <1>4, <1>5, <1>11
<1> QED BY <1>10, <1>11, <1>12 DEF Numbered, K


\* Tiles, sorted, are stacked.
LEMMA TilesStack ==
  ASSUME NEW layers \in Seq(Layer), Tiles(layers), layers # << >>,
         SortedLayers(layers) \in Seq(Layer), Len(SortedLayers(layers)) = Len(layers)
  PROVE  Stacked(Depth, SortedLayers(layers))
<1> DEFINE L == SortedLayers(layers)
           K == DOMAIN layers
           n == Len(layers)
<1>1. Numbered(layers) /\ \A j, k \in K : layers[j].from < layers[k].from <=> layers[j].seq < layers[k].seq
  BY TilesNumbered
<1>2. n \in Nat /\ n # 0 /\ K = 1..n /\ DOMAIN L = K /\ Len(L) = n
  BY ListIsFinite
<1>3. \A m \in K : \E k \in K : layers[k].seq = m /\ L[m] = layers[k]
  <2> TAKE m \in K
  <2>1. PICK k \in K : layers[k].seq = m
    BY <1>1, EveryNumber
  <2>2. L[layers[k].seq] = layers[k]
    BY <1>1, NumberedSorted
  <2> QED BY <2>1, <2>2
<1>4. Depth \in Int /\ Depth > 0
  BY DeskAssumption
<1>5. \A k \in K : layers[k] \in Layer
  OBVIOUS
<1>6. \A k \in K : /\ layers[k].from \in Int /\ layers[k].to \in Int /\ layers[k].seq \in Int
                   /\ 0 <= layers[k].from /\ layers[k].from < layers[k].to /\ layers[k].to <= Depth
  BY <1>5 DEF Layer, Tiles
<1> HIDE DEF L
<1>7. \A m \in K : /\ L[m].from \in Int /\ L[m].to \in Int /\ L[m].seq = m /\ m \in Int
                   /\ 0 <= L[m].from /\ L[m].from < L[m].to /\ L[m].to <= Depth
  BY <1>2, <1>3, <1>6
<1>8. \A i, m \in K : i < m => L[i].from < L[m].from
  <2> TAKE i, m \in K
  <2> HAVE i < m
  <2>1. PICK a \in K : layers[a].seq = i /\ L[i] = layers[a]
    BY <1>3
  <2>2. PICK b \in K : layers[b].seq = m /\ L[m] = layers[b]
    BY <1>3
  <2> QED BY <1>1, <2>1, <2>2
<1>9. ASSUME NEW d \in 0..(Depth - 1), NEW i \in K, NEW m \in K, L[i].from <= d, d < L[i].to,
             L[m].from <= d, d < L[m].to
      PROVE  i = m
  <2>1. PICK a \in K : layers[a].seq = i /\ L[i] = layers[a]
    BY <1>3
  <2>2. PICK b \in K : layers[b].seq = m /\ L[m] = layers[b]
    BY <1>3
  <2>3. a = b
    BY <1>9, <2>1, <2>2, TilesApart
  <2> QED BY <2>1, <2>2, <2>3
<1>10. ASSUME NEW d \in 0..(Depth - 1) PROVE \E m \in K : L[m].from <= d /\ d < L[m].to
  <2>1. Cardinality(Reaching(layers, d)) = 1
    BY DEF Tiles
  <2>2. Reaching(layers, d) # {}
    <3>1. SUFFICES ASSUME Reaching(layers, d) = {} PROVE FALSE
      OBVIOUS
    <3>2. Cardinality(Reaching(layers, d)) = 0
      BY <3>1, FS_EmptySet, Zenon
    <3> QED BY <2>1, <3>2
  <2>3. PICK k \in K : layers[k].from <= d /\ d < layers[k].to
    BY <2>2 DEF Reaching
  <2>4. layers[k].seq \in K /\ L[layers[k].seq] = layers[k]
    BY <1>1, NumberedSorted DEF Numbered, L
  <2> QED BY <2>3, <2>4
<1> HIDE DEF K, n
<1>11. ASSUME NEW m \in K, m > 1 PROVE L[m-1].to = L[m].from
  <2>1. m - 1 \in K /\ m - 1 < m /\ m - 1 # m
    BY <1>2, <1>11
  <2>2. L[m-1].from < L[m].from
    BY <1>8, <2>1
  <2>3. ~(L[m].from < L[m-1].to)
    <3>1. SUFFICES ASSUME L[m].from < L[m-1].to PROVE FALSE
      OBVIOUS
    <3> DEFINE d == L[m].from
    <3>2. d \in 0..(Depth - 1)
      BY <1>4, <1>7
    <3>3. L[m-1].from <= d /\ d < L[m-1].to /\ L[m].from <= d /\ d < L[m].to
      BY <1>7, <2>1, <2>2, <3>1
    <3> HIDE DEF d
    <3>4. m - 1 = m
      BY <1>9, <2>1, <3>2, <3>3
    <3> QED BY <2>1, <3>4
  <2>4. ~(L[m-1].to < L[m].from)
    <3>1. SUFFICES ASSUME L[m-1].to < L[m].from PROVE FALSE
      OBVIOUS
    <3> DEFINE d == L[m-1].to
               e == L[m-1].from
    <3>2. d \in 0..(Depth - 1) /\ e \in 0..(Depth - 1) /\ e < d /\ d < L[m].from
      BY <1>4, <1>7, <2>1, <3>1
    <3>3. PICK i \in K : L[i].from <= d /\ d < L[i].to
      BY <1>10, <3>2
    <3>4. i < m /\ i # m - 1
      BY <1>7, <1>8, <2>1, <3>2, <3>3
    <3>5. i < m - 1
      BY <1>7, <2>1, <3>4
    <3>6. L[i].from <= e /\ e < L[i].to
      BY <1>7, <1>8, <2>1, <3>2, <3>3, <3>5
    <3>7. L[m-1].from <= e /\ e < L[m-1].to
      BY <1>7, <2>1
    <3> HIDE DEF d, e
    <3>8. i = m - 1
      BY <1>9, <2>1, <3>2, <3>6, <3>7
    <3> QED BY <3>4, <3>8
  <2> QED BY <1>7, <2>1, <2>3, <2>4
<1>12. 1 \in K /\ L[1].from = 0
  <2>1. 1 \in K /\ \A i \in K : i = 1 \/ 1 < i
    BY <1>2
  <2>2. 0 \in 0..(Depth - 1)
    BY <1>4
  <2>3. PICK i \in K : L[i].from <= 0 /\ 0 < L[i].to
    BY <1>10, <2>2
  <2>4. i = 1
    BY <1>7, <1>8, <2>1, <2>3
  <2> QED BY <1>7, <2>1, <2>3, <2>4
<1>13. n \in K /\ L[n].to = Depth
  <2>1. n \in K /\ \A i \in K : i = n \/ \E m \in K : m > 1 /\ m - 1 = i
    <3>1. \A i \in K : i = n \/ (i + 1 \in K /\ i + 1 > 1 /\ i + 1 - 1 = i)
      BY <1>2
    <3> QED BY <1>2, <3>1
  <2>2. Depth - 1 \in 0..(Depth - 1)
    BY <1>4
  <2>3. PICK i \in K : Depth - 1 < L[i].to
    BY <1>10, <2>2
  <2>4. L[i].to = Depth
    BY <1>4, <1>7, <2>3
  <2>5. i = n
    <3>1. SUFFICES ASSUME NEW m \in K, m > 1, m - 1 = i PROVE FALSE
      BY <2>1
    <3>2. L[i].to = L[m].from
      BY <1>11, <3>1
    <3> QED BY <1>4, <1>7, <2>4, <3>1, <3>2
  <2> QED BY <2>1, <2>4, <2>5
<1>14. L # << >>
  BY <1>2
<1> QED BY <1>2, <1>7, <1>11, <1>12, <1>13, <1>14 DEF Stacked, L, n


-----------------------------------------------------------------------------
(* What can be locked.                                                     *)

\* Whether layers tile the well does not depend on the spelling of their names.
LEMMA TypedTiles ==
  ASSUME NEW given \in SubmittedPlan
  PROVE  Tiles(Typed(given)) <=> Tiles(given.layers)
<1> DEFINE A == Typed(given)
           B == given.layers
<1>1. DOMAIN A = DOMAIN B
  BY TypedLayers
<1>2. \A k \in DOMAIN B : A[k].from = B[k].from /\ A[k].to = B[k].to /\ A[k].seq = B[k].seq
  BY TypedLayers
<1> HIDE DEF A, B
<1>3. \A d : Reaching(A, d) = Reaching(B, d)
  BY <1>1, <1>2 DEF Reaching
<1>4. \A k \in DOMAIN B : {j \in DOMAIN A : A[j].from < A[k].from} = {j \in DOMAIN B : B[j].from < B[k].from}
  BY <1>1, <1>2
<1>5. (\A d \in 0..(Depth - 1) : Cardinality(Reaching(A, d)) = 1)
        <=> \A d \in 0..(Depth - 1) : Cardinality(Reaching(B, d)) = 1
  BY <1>3
<1>6. ASSUME NEW k \in DOMAIN B
      PROVE  (/\ 0 <= A[k].from /\ A[k].from < A[k].to /\ A[k].to <= Depth
              /\ A[k].seq = 1 + Cardinality({j \in DOMAIN A : A[j].from < A[k].from}))
         <=> (/\ 0 <= B[k].from /\ B[k].from < B[k].to /\ B[k].to <= Depth
              /\ B[k].seq = 1 + Cardinality({j \in DOMAIN B : B[j].from < B[k].from}))
  <2> DEFINE x == {j \in DOMAIN A : A[j].from < A[k].from}
             y == {j \in DOMAIN B : B[j].from < B[k].from}
  <2>1. x = y
    BY <1>4
  <2> HIDE DEF x, y
  <2>2. (/\ 0 <= A[k].from /\ A[k].from < A[k].to /\ A[k].to <= Depth
         /\ A[k].seq = 1 + Cardinality(x))
    <=> (/\ 0 <= B[k].from /\ B[k].from < B[k].to /\ B[k].to <= Depth
         /\ B[k].seq = 1 + Cardinality(y))
    BY <1>2, <2>1
  <2> QED BY <2>2 DEF x, y
<1>7. Tiles(A) <=> Tiles(B)
  BY <1>1, <1>5, <1>6, Zenon DEF Tiles
<1> QED BY <1>7 DEF A, B

\* A normalised plan is stacked if the layers submitted tile the well.
LEMMA StackedIffTiles ==
  ASSUME NEW given \in SubmittedPlan
  PROVE  Stacked(Depth, SortedLayers(Typed(given))) <=> Tiles(given.layers) /\ given.layers # << >>
<1> DEFINE A == Typed(given)
           S == SortedLayers(A)
<1>1. /\ given.layers \in Seq(Layer) /\ A \in Seq(Layer)
      /\ DOMAIN A = DOMAIN given.layers /\ Len(A) = Len(given.layers)
  BY TypedLayers
<1>2. S \in Seq(Layer) /\ DOMAIN S = DOMAIN A /\ Len(S) = Len(A)
  BY <1>1, PlanNormalized
<1>3. Tiles(A) <=> Tiles(given.layers)
  BY TypedTiles
<1> HIDE DEF A
<1>4. A # << >> <=> given.layers # << >>
  BY <1>1
<1>5. Stacked(Depth, S) => Tiles(A) /\ S # << >>
  BY <1>1, <1>2, StackTiles DEF Stacked
<1>6. Tiles(A) /\ A # << >> => Stacked(Depth, S)
  BY <1>1, <1>2, TilesStack
<1>7. S # << >> <=> A # << >>
  <2> HIDE DEF S
  <2> QED BY <1>1, <1>2
<1> QED BY <1>3, <1>4, <1>5, <1>6, <1>7 DEF A

\* A normalised plan is stocked if its layers are sound and use the lots listed.
LEMMA StockedIffUsed ==
  ASSUME NEW given \in SubmittedPlan, Blank \notin Trimmed(given.lots)
  PROVE  Stocked(NormalizedPlan(given)) <=>
           /\ Trimmed(given.lots) = {Trim[given.layers[k].lot] : k \in DOMAIN given.layers}
           /\ \A k \in DOMAIN given.layers : given.layers[k].target > 0 /\ ~IsBlank(given.layers[k].stage)
<1> DEFINE p == NormalizedPlan(given)
           A == Typed(given)
           S == SortedLayers(A)
           T == Trimmed(given.lots)
           K == DOMAIN given.layers
           B == given.layers
<1>1. p.layers = S /\ p.lots = T /\ S \in Seq(Layer) /\ DOMAIN S = K
  BY PlanNormalized
<1>2. /\ \A k \in K : \E j \in K : S[k] = A[j]
      /\ \A j \in K : \E k \in K : S[k] = A[j]
  BY SameLayersStored
<1>3. \A k \in K : /\ A[k].stage = Trim[B[k].stage] /\ A[k].lot = Trim[B[k].lot]
                   /\ A[k].target = B[k].target
  BY TypedLayers
<1>4. \A k \in K : B[k] \in Layer
  BY DEF SubmittedPlan
<1>5. \A k \in K : IsBlank(A[k].stage) <=> IsBlank(B[k].stage)
  BY <1>3, <1>4, TrimTwice DEF IsBlank, Layer
<1> HIDE DEF p, A, S, T, K, B
<1>6. T \ {Blank} = T
  BY DEF T
<1>7. /\ \A k \in K : \E j \in K :
           /\ S[k].lot = Trim[B[j].lot]
           /\ S[k].target = B[j].target
           /\ (IsBlank(S[k].stage) <=> IsBlank(B[j].stage))
      /\ \A j \in K : \E k \in K :
           /\ S[k].lot = Trim[B[j].lot]
           /\ S[k].target = B[j].target
           /\ (IsBlank(S[k].stage) <=> IsBlank(B[j].stage))
  <2>1. ASSUME NEW k \in K, NEW j \in K, S[k] = A[j]
        PROVE  /\ S[k].lot = Trim[B[j].lot]
               /\ S[k].target = B[j].target
               /\ (IsBlank(S[k].stage) <=> IsBlank(B[j].stage))
    BY <1>3, <1>5, <2>1
  <2> QED BY <1>2, <2>1
<1>8. (\A k \in K : ~IsBlank(S[k].stage)) <=> \A k \in K : ~IsBlank(B[k].stage)
  BY <1>7
<1>9. (\A k \in K : S[k].target > 0) <=> \A k \in K : B[k].target > 0
  BY <1>7
<1>10. (\A k \in K : S[k].lot \in T) <=> \A k \in K : Trim[B[k].lot] \in T
  BY <1>7
<1>11. ASSUME \A k \in K : S[k].target > 0
       PROVE  (\A m \in T : VolumeOfLot(S, m) # 0) <=> \A m \in T : \E k \in K : Trim[B[k].lot] = m
  <2>1. \A m : VolumeOfLot(S, m) # 0 <=> \E k \in K : S[k].lot = m
    BY <1>1, <1>11, VolumeUsed
  <2>2. \A m : (\E k \in K : S[k].lot = m) <=> \E k \in K : Trim[B[k].lot] = m
    <3> TAKE m
    <3>1. ASSUME NEW k \in K, S[k].lot = m PROVE \E j \in K : Trim[B[j].lot] = m
      BY <1>7, <3>1
    <3>2. ASSUME NEW j \in K, Trim[B[j].lot] = m PROVE \E k \in K : S[k].lot = m
      BY <1>7, <3>2
    <3> QED BY <3>1, <3>2
  <2> QED BY <2>1, <2>2
<1>12. Stocked(p) <=> /\ \A k \in K : ~IsBlank(S[k].stage)
                      /\ \A k \in K : S[k].target > 0
                      /\ \A k \in K : S[k].lot \in T
                      /\ \A m \in T : VolumeOfLot(S, m) # 0
  BY <1>1, <1>6 DEF Stocked
<1>13. Stocked(p) <=> /\ T = {Trim[B[k].lot] : k \in K}
                      /\ \A k \in K : B[k].target > 0 /\ ~IsBlank(B[k].stage)
  BY <1>8, <1>9, <1>10, <1>11, <1>12
<1> QED BY <1>13 DEF p, T, B, K

\* What the preflight lets through, said of the plan as it was submitted.
LEMMA LockableSound ==
  ASSUME NEW given \in SubmittedPlan
  PROVE  CanLock(Depth, given) <=>
      /\ Tiles(given.layers)
      /\ given.layers # << >>
      /\ Listed(given.lots)
      /\ Trimmed(given.lots) = {Trim[given.layers[k].lot] : k \in DOMAIN given.layers}
      /\ Listed(given.evidence) /\ given.evidence # << >>
      /\ \A k \in DOMAIN given.layers : given.layers[k].target > 0 /\ ~IsBlank(given.layers[k].stage)
      /\ given.tolerance \in 0..(50 * Percent)
      /\ ~IsBlank(given.preparedBy) /\ ~IsBlank(given.reviewedBy)
      /\ Trim[given.preparedBy] # Trim[given.reviewedBy]
<1> DEFINE p == NormalizedPlan(given)
<1>1. /\ p.layers = SortedLayers(Typed(given)) /\ p.lots = Trimmed(given.lots)
      /\ p.evidence = Trimmed(given.evidence) /\ p.tolerance = given.tolerance
      /\ p.preparedBy = Trim[given.preparedBy] /\ p.reviewedBy = Trim[given.reviewedBy]
  BY PlanNormalized
<1>2. CanLock(Depth, given) <=> Headed(p, given) /\ Stacked(Depth, p.layers) /\ Stocked(p)
  BY DeskAssumption, CleanPlan
<1>3. given.lots \in Seq(Text) /\ given.evidence \in Seq(Text)
  BY DEF SubmittedPlan
<1>4. Trimmed(given.evidence) # {} <=> given.evidence # << >>
  BY <1>3 DEF Trimmed
<1>5. Listed(given.evidence) => Blank \notin Trimmed(given.evidence)
  BY <1>3, ListedMeans
<1> HIDE DEF p
<1>6. Headed(p, given) <=>
        /\ ~IsBlank(given.preparedBy) /\ ~IsBlank(given.reviewedBy)
        /\ Trim[given.preparedBy] # Trim[given.reviewedBy]
        /\ given.tolerance \in 0..(50 * Percent)
        /\ Listed(given.lots) /\ Listed(given.evidence) /\ given.evidence # << >>
  BY <1>1, <1>3, <1>4, <1>5, ListedMeans DEF Headed, IsBlank
<1>7. Stacked(Depth, p.layers) <=> Tiles(given.layers) /\ given.layers # << >>
  BY <1>1, StackedIffTiles
<1>8. Listed(given.lots) => Blank \notin Trimmed(given.lots)
  BY <1>3, ListedMeans
<1>9. Listed(given.lots) =>
        (Stocked(p) <=>
          /\ Trimmed(given.lots) = {Trim[given.layers[k].lot] : k \in DOMAIN given.layers}
          /\ \A k \in DOMAIN given.layers : given.layers[k].target > 0 /\ ~IsBlank(given.layers[k].stage))
  BY <1>8, StockedIffUsed DEF p
<1> QED BY <1>2, <1>6, <1>7, <1>9

\* Preflight lets a plan through exactly if its layers tile the well, the lots
\* used are the lots registered, evidence is asked for, and two different
\* people answer for it -- whatever order or spelling the client used.
THEOREM LockablePlansAreSound == Spec => []LockableIffSound
<1>1. AnswersThePlan => LockableIffSound
  BY LockableMeans, LockableSound DEF LockableIffSound
<1> QED BY <1>1, Answers, PTL
===============================================================================
