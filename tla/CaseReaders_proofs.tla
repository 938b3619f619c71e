-------------------------- MODULE CaseReaders_proofs --------------------------
(***************************************************************************)
(* What readers are shown while others commit, for every set of readers,   *)
(* cases, handlers and requests.  The argument is of one fact at a time: a *)
(* record a reader holds was right when it was read, and what is committed *)
(* afterwards only adds to it.                                             *)
(***************************************************************************)
EXTENDS CaseReaders, SealService_proofs, Counting

\* Readers write nothing: what is proved of the service holds with them.
THEOREM ReadersServe == ReadersSpec => Spec
<1>1. ReadersInit => Init
  BY DEF ReadersInit
<1>2. [ReadersNext]_readerVars => [Next]_vars
  <2>1. ASSUME NEW x \in Reader, Read(x) PROVE UNCHANGED vars
    BY <2>1 DEF Read, GetCase, Timeline, ReadArchive, GetHead, GetHeadCut, TimelineNext,
                ReadArchiveCase, ReadArchiveEvents, Shown, Turn, Step
  <2> QED BY <2>1 DEF ReadersNext, Command, readerVars
<1> QED BY <1>1, <1>2, PTL DEF ReadersSpec, Spec

-----------------------------------------------------------------------------
(* What a commit leaves of what was read.                                  *)

LEMMA CasesStay ==
  ASSUME Service, [Next]_vars
  PROVE  /\ \A c \in Case : Exists(c) =>
              /\ Exists(c)' /\ cases[c].revision \in Nat /\ cases'[c].revision \in Nat
              /\ cases[c].revision <= cases'[c].revision
         /\ \A n \in DOMAIN audit : n \in DOMAIN audit' /\ audit'[n] = audit[n]
         /\ \A c \in Case : archives[c] # None =>
              archives'[c] = archives[c] /\ cases'[c] = cases[c]
<1>1. CASE UNCHANGED tables
  BY <1>1 DEF tables, Exists, Service, Tables, Snapshot
<1>2. CASE Grows
  <2>1. PICK s, type, seen, id, fingerprint :
          /\ Advances(s, type, seen, id, fingerprint)
          /\ Exists(s.case) => <<cases[s.case].state, s.state>> \in Ledger!Moves
          /\ \A c \in Case : archives[c] # None => archives'[c] = archives[c]
    BY <1>2 DEF Grows
  <2>2. Grown(s, type, seen, id)
    BY <2>1, WriteGrows DEF Service
  <2>3. \A c \in Case : Exists(c) =>
          /\ Exists(c)' /\ cases[c].revision \in Nat /\ cases'[c].revision \in Nat
          /\ cases[c].revision <= cases'[c].revision
    BY <2>1, <2>2, WriteRaises DEF Service
  <2>4. \A n \in DOMAIN audit : n \in DOMAIN audit' /\ audit'[n] = audit[n]
    BY <2>2 DEF Grown
  <2>5. ASSUME NEW c \in Case, archives[c] # None PROVE cases'[c] = cases[c]
    <3>1. Exists(c) /\ cases[c].state = "archived"
      BY <2>5 DEF Service, Frozen
    <3>2. c # s.case
      BY <2>1, <3>1 DEF Ledger!Moves
    <3> QED BY <2>2, <3>2 DEF Grown
  <2> QED BY <2>1, <2>3, <2>4, <2>5
<1> QED BY <1>1, <1>2, StepKinds

\* Freezing changes neither verdict nor facts.
VerdictKept ==
  \A c \in Case : archives[c] # None /\ archives[c].case.case = c =>
    archives[c].case.verdict = cases[c].verdict

LEMMA VerdictStays == Service /\ VerdictKept /\ [Next]_vars => VerdictKept'
<1> SUFFICES ASSUME Service, VerdictKept, [Next]_vars, NEW c \in Case,
                    archives'[c] # None, archives'[c].case.case = c
             PROVE  archives'[c].case.verdict = cases'[c].verdict
  BY DEF VerdictKept
<1>1. CASE archives[c] # None
  <2>1. cases'[c] = cases[c] /\ archives'[c] = archives[c]
    BY <1>1, CasesStay
  <2> QED BY <1>1, <2>1 DEF VerdictKept
<1>2. CASE archives[c] = None
  <2>1. PICK h \in Handler : Freeze(h)
    <3>1. archives' # archives
      BY <1>2, Zenon
    <3>2. \/ \E h \in Handler, r \in Request : Send(h, r)
          \/ \E h \in Handler : Handle(h) \/ CutOff(h)
          \/ Crash \/ Restart
      BY <3>1, Zenon DEF Next, vars, tables
    <3>3. PICK h \in Handler : Handle(h)
      BY <3>1, <3>2, Zenon DEF Send, CutOff, Crash, Restart, tables
    <3> QED BY <3>1, <3>3, Zenon DEF Handle, Prefetch, PrefetchRefuse, PrefetchEvents, ApplyCreate,
                 ApplyCommit, ApplyReplay, ApplyRefuse, BuildArchive, FreezeElse, Reply, tables
  <2>2. PICK r \in Request : \E s, b :
          run[h].req = r /\ run[h].case = s /\ run[h].archive = b /\ AtFreeze(r, s, b)
    BY <2>1, FreezeStage DEF Freeze
  <2>3. PICK taken, a : run[h].case = taken /\ run[h].archive = a /\ AtFreeze(r, taken, a)
    BY <2>2
  <2>4. /\ FreezeRefusal(h) = "none"
        /\ archives' = [archives EXCEPT ![r.case] = a]
    BY <2>1, <2>2, <2>3 DEF Freeze
  <2>5. c = r.case /\ archives'[c] = a
    BY <1>2, <2>4 DEF Service, Tables
  <2>6. Exists(c) /\ cases[c].revision = taken.revision
    BY <2>2, <2>3, <2>4, <2>5 DEF FreezeRefusal, Refusal
  <2>7. a.case = taken /\ cases[c] = taken /\ taken \in Snapshot
    BY <2>3, <2>5, <2>6 DEF AtFreeze, Taken, Held
  <2>8. PICK after : after = [cases[c] EXCEPT !.state = "archived", !.revision = @ + 1]
    OBVIOUS
  <2>9. after.verdict = taken.verdict /\ after.case = taken.case
    <3> SUFFICES ASSUME taken \in Snapshot,
                        after = [taken EXCEPT !.state = "archived", !.revision = @ + 1]
                 PROVE  after.verdict = taken.verdict /\ after.case = taken.case
      BY <2>7, <2>8, Zenon
    <3> QED BY DEF Snapshot
  <2>10. cases' = [cases EXCEPT ![c] = after]
    <3>1. \E id, print : Write(after, "archive", None, id, print)
      BY <2>1, <2>2, <2>5, <2>8 DEF Freeze
    <3> QED BY <2>5, <2>7, <2>9, <3>1 DEF Write
  <2> QED BY <2>5, <2>7, <2>9, <2>10 DEF Service, Tables
<1> QED BY <1>1, <1>2

LEMMA ServiceWithVerdict == Spec => [](Service /\ VerdictKept)
<1>1. Init => VerdictKept
  BY DEF Init, VerdictKept
<1> QED BY <1>1, ServiceInvariant, VerdictStays, PTL DEF Spec

-----------------------------------------------------------------------------
(* Reading an archive.                                                     *)

\* A set of numbers with an upper bound has a greatest.
LEMMA Greatest ==
  ASSUME NEW n \in Nat, NEW S \in SUBSET (0..n), S # {}
  PROVE  Max(S) \in S /\ \A m \in S : m <= Max(S)
<1> DEFINE below == {n - m : m \in S}
           least == Min(below)
<1>1. \A m \in S : n - m \in Nat /\ m \in Int
  OBVIOUS
<1>2. \A y \in below : y \in Nat
  BY <1>1
<1>3. \E y : y \in below
  OBVIOUS
<1>4. least \in below /\ \A y \in below : least <= y
  <2> HIDE DEF below
  <2> QED BY <1>2, <1>3, LeastNat
<1> HIDE DEF least
<1>5. PICK top \in S : least = n - top
  BY <1>4
<1>6. \A m \in S : m <= top
  <2> TAKE m \in S
  <2>1. least <= n - m
    BY <1>4
  <2> QED BY <1>1, <1>5, <2>1
<1> QED BY <1>6, MaxIs

\* An archive of the case it is kept for verifies against the events and the case
\* there are.
LEMMA HistoryVerifies ==
  ASSUME Service, VerdictKept, NEW c \in Case, archives[c] # None, archives[c].case.case = c
  PROVE  LET a == archives[c] IN
         /\ ValidateChain(a.events) /\ ValidateChain(EventsOf(c))
         /\ FactsMatch(a, cases[c]) /\ EventsMatch(a, EventsOf(c))
         /\ Cardinality(EventsOf(c)) = Cardinality(a.events) + 1
<1> DEFINE E == EventsOf(c)
           frozen == archives[c].events
           head == ChainHead(c)
<1>1. Tables /\ Chained(c) /\ Exists(c)
  BY DEF Service, Frozen
<1>2. /\ head \in E /\ head \in Nat /\ \A n \in E : n <= head
      /\ audit[head].revision = cases[c].revision
  BY <1>1, HeadOfChain, EventsAreSequences
<1>3. frozen = E \ {head} /\ archives[c].case.revision = cases[c].revision - 1
  BY DEF Service, HistoryOf
<1>4. E \subseteq 1..Len(audit) /\ Len(audit) \in Nat
  BY <1>1, EventsAreSequences
<1>5. ValidateChain(E)
  BY <1>1 DEF Chained, ChainHolds
<1>6. frozen # {}
  <2>1. archives[c].case.revision \in Nat \ {0} /\ cases[c].revision \in Nat
    BY <1>1 DEF Tables, Archive, Snapshot, Exists
  <2>2. cases[c].revision - 1 \in Revisions(c)
    BY <1>1, <1>3, <2>1 DEF Revisions
  <2>3. PICK e : Versions(c, cases[c].revision - 1) = {e}
    BY <2>2 DEF Service, Written
  <2>4. e \in E /\ audit[e].revision = cases[c].revision - 1
    BY <2>3 DEF Versions
  <2> QED BY <1>2, <1>3, <2>1, <2>4
<1>7. ValidateChain(frozen)
  <2>1. ASSUME NEW n \in frozen PROVE {m \in frozen : m < n} = {m \in E : m < n}
    BY <1>2, <1>3, <1>4, <2>1
  <2>2. \A n \in frozen : audit[n].previous = Max({0} \cup {m \in E : m < n})
    BY <1>3, <1>5 DEF ValidateChain
  <2> HIDE DEF E, frozen
  <2> QED BY <1>6, <2>1, <2>2 DEF ValidateChain
<1>8. EventsMatch(archives[c], E)
  <2>1. frozen \in SUBSET (0..Len(audit))
    BY <1>3, <1>4
  <2> HIDE DEF E, frozen, head
  <2>2. PICK last \in frozen : last = Max(frozen) /\ \A n \in frozen : n <= last
    BY <1>4, <1>6, <2>1, Greatest
  <2>3. last \in Nat /\ last < head
    BY <1>2, <1>3, <1>4, <2>1, <2>2
  <2>4. frozen = {n \in E : n <= last}
    <3>1. ASSUME NEW n \in frozen PROVE n \in E /\ n <= last
      BY <1>3, <2>2, <3>1
    <3>2. ASSUME NEW n \in E, n <= last PROVE n \in frozen
      BY <1>2, <1>3, <1>4, <2>3, <3>2
    <3> QED BY <3>1, <3>2
  <2>5. frozen = {n \in E : n <= Max(frozen)}
    BY <2>2, <2>4
  <2> QED BY <2>5 DEF EventsMatch, frozen, E
<1>9. Cardinality(E) = Cardinality(frozen) + 1
  <2> HIDE DEF E, frozen, head
  <2>1. IsFiniteSet(1..Len(audit))
    BY <1>4, FS_Interval
  <2>2. IsFiniteSet(E)
    BY <1>4, <2>1, FS_Subset
  <2>3. Cardinality(E) \in Nat
    BY <2>2, FS_CardinalityType
  <2>4. Cardinality(E \ {head}) = Cardinality(E) - 1
    BY <1>2, <2>2, FS_RemoveElement
  <2> QED BY <1>3, <2>3, <2>4
<1>10. FactsMatch(archives[c], cases[c])
  BY <1>1 DEF FactsMatch, VerdictKept, Tables
<1> QED BY <1>5, <1>7, <1>8, <1>9, <1>10

\* And one of another case does not.
LEMMA OtherFails ==
  ASSUME Service, NEW c \in Case, archives[c] # None, archives[c].case.case # c
  PROVE  ~FactsMatch(archives[c], cases[c])
BY DEF Service, Tables, Frozen, FactsMatch

-----------------------------------------------------------------------------
(* Walking a timeline.                                                     *)

\* The events in their order, each once.
LEMMA InOrderSorts ==
  ASSUME NEW S \in SUBSET Nat, IsFiniteSet(S)
  PROVE  LET t == InOrder(S)
         IN  /\ t \in Seq(S) /\ Len(t) = Cardinality(S)
             /\ \A i, j \in 1..Len(t) : i < j => t[i] < t[j]
             /\ \A m \in S : \E j \in 1..Len(t) : t[j] = m
<1> DEFINE before == [x \in S |-> {m \in S : m < x}]
<1>1. PICK n, t : n = Cardinality(S) /\ t = InOrder(S)
  OBVIOUS
<1>2. t = [k \in 1..n |-> CHOOSE x \in S : Cardinality({m \in S : m < x}) = k - 1]
  BY <1>1, Zenon DEF InOrder
<1>3. StrictOrder(S, before)
  <2>1. \A x \in S : x \in Nat
    OBVIOUS
  <2>2. before \in [S -> SUBSET S] /\ \A x, y \in S : x \in before[y] <=> x < y
    OBVIOUS
  <2> HIDE DEF before
  <2>3. \A x, y \in S : x \in before[y] => before[x] \subseteq before[y]
    <3> SUFFICES ASSUME NEW x \in S, NEW y \in S, x \in before[y], NEW z \in before[x] PROVE z \in before[y]
      OBVIOUS
    <3> QED BY <2>1, <2>2
  <2> QED BY <2>1, <2>2, <2>3 DEF StrictOrder
<1>4. \A x \in S : before[x] = {m \in S : m < x}
  OBVIOUS
<1> HIDE DEF before
<1>5. n \in Nat
  BY <1>1, FS_CardinalityType
<1>6. ASSUME NEW k \in 1..n PROVE t[k] \in S /\ Cardinality(before[t[k]]) = k - 1
  <2>1. PICK x \in S : Place(S, before, k) = {x}
    BY <1>1, <1>3, EveryPlace
  <2>2. x \in S /\ Cardinality({m \in S : m < x}) = k - 1
    BY <1>4, <2>1 DEF Place
  <2>3. t[k] = CHOOSE y \in S : Cardinality({m \in S : m < y}) = k - 1
    BY <1>2, Zenon
  <2>4. t[k] \in S /\ Cardinality({m \in S : m < t[k]}) = k - 1
    BY <2>2, <2>3, Zenon
  <2> QED BY <1>4, <2>4
<1>7. t \in [1..n -> S]
  BY <1>2, <1>6
<1>8. t \in Seq(S) /\ Len(t) = n
  BY <1>7, <1>5, LenProperties
<1>9. ASSUME NEW x \in S PROVE \E k \in 1..n : t[k] = x
  <2>1. PICK k \in 1..n : Cardinality(before[x]) = k - 1
    <3>1. Cardinality(before[x]) \in 0..(n - 1)
      BY <1>1, <1>3, FewerBefore
    <3> QED BY <1>5, <3>1
  <2>2. t[k] \in S /\ Cardinality(before[t[k]]) = k - 1
    BY <1>6
  <2>3. PICK y \in S : Place(S, before, k) = {y}
    BY <1>1, <1>3, EveryPlace
  <2> QED BY <2>1, <2>2, <2>3 DEF Place
<1>10. ASSUME NEW i \in 1..n, NEW j \in 1..n, i < j PROVE t[i] < t[j]
  <2>1. t[i] \in before[t[j]]
    <3>1. Cardinality(before[t[i]]) < Cardinality(before[t[j]])
      BY <1>6, <1>10, <1>5
    <3> QED BY <1>3, <1>6, <3>1, FewerBefore
  <2> QED BY <1>4, <1>6, <2>1
<1> QED BY <1>1, <1>8, <1>9, <1>10

\* The sequence s has the first of the numbers E, in their order.
Gathers(s, E) ==
  /\ s \in Seq(E)
  /\ \A i, j \in 1..Len(s) : i < j => s[i] < s[j]
  /\ \A m \in E : \A i \in 1..Len(s) : m < s[i] => \E j \in 1..Len(s) : s[j] = m

\* Only the beginning of the whole order can be such a sequence.
LEMMA OneOrder ==
  ASSUME NEW E \in SUBSET Nat, IsFiniteSet(E), NEW s, Gathers(s, E)
  PROVE  IsPrefix(s, InOrder(E))
<1>1. PICK t : t = InOrder(E)
  OBVIOUS
<1>2. /\ t \in Seq(E)
      /\ \A i, j \in 1..Len(t) : i < j => t[i] < t[j]
      /\ \A m \in E : \E j \in 1..Len(t) : t[j] = m
  BY <1>1, InOrderSorts
<1>3. PICK a, b : a = Len(s) /\ b = Len(t)
  OBVIOUS
<1>4. /\ a \in Nat /\ s \in [1..a -> E] /\ b \in Nat /\ t \in [1..b -> E]
  BY <1>2, <1>3, LenProperties DEF Gathers
<1>5. /\ \A i, j \in 1..a : i < j => s[i] < s[j]
      /\ \A m \in E : \A i \in 1..a : m < s[i] => \E j \in 1..a : s[j] = m
  BY <1>3 DEF Gathers
<1> DEFINE Wrong == {i \in 1..a : i > b \/ s[i] # t[i]}
<1>6. ASSUME Wrong # {} PROVE FALSE
  <2>1. PICK i \in Wrong : \A j \in Wrong : i <= j
    <3>1. Wrong \in SUBSET Nat
      BY <1>4
    <3> HIDE DEF Wrong
    <3> QED BY <1>6, <3>1, LeastNat
  <2>2. \A j \in 1..a : j < i => j <= b /\ s[j] = t[j]
    BY <1>4, <2>1
  <2>3. PICK k \in 1..b : t[k] = s[i]
    BY <1>2, <1>3, <1>4, <2>1
  <2>4. k >= i
    <3> SUFFICES ASSUME k < i PROVE FALSE
      BY <1>4, <2>1
    <3>1. k \in 1..a /\ s[k] = t[k]
      BY <1>4, <2>1, <2>2
    <3>2. s[k] < s[i] /\ s[k] \in Nat
      BY <1>4, <1>5, <2>1, <3>1
    <3> QED BY <2>3, <3>1, <3>2
  <2>5. i \in 1..b /\ k # i
    BY <1>4, <2>1, <2>3, <2>4
  <2>6. t[i] < s[i] /\ t[i] \in E
    BY <1>2, <1>3, <1>4, <2>3, <2>4, <2>5
  <2>7. PICK j \in 1..a : s[j] = t[i]
    BY <1>5, <2>1, <2>6
  <2>8. j < i
    <3>1. s[j] \in Nat /\ s[i] \in Nat /\ s[j] < s[i]
      BY <1>4, <2>1, <2>6, <2>7
    <3> QED BY <1>4, <1>5, <2>1, <3>1
  <2>9. t[j] = t[i] /\ j \in 1..b
    BY <1>4, <2>1, <2>2, <2>7, <2>8
  <2>10. t[j] < t[i] /\ t[j] \in Nat
    BY <1>2, <1>3, <1>4, <2>5, <2>8, <2>9
  <2> QED BY <2>9, <2>10
<1>7. a <= b /\ \A i \in 1..a : s[i] = t[i]
  <2>1. \A i \in 1..a : i <= b /\ s[i] = t[i]
    BY <1>4, <1>6
  <2> QED BY <1>4, <2>1
<1>8. SubSeq(s, 1, a) = s
  BY <1>3, SubSeqFull DEF Gathers
<1>9. SubSeq(t, 1, a) = s
  <2>1. /\ SubSeq(t, 1, a) \in Seq(E) /\ Len(SubSeq(t, 1, a)) = a
        /\ \A i \in 1..a : SubSeq(t, 1, a)[i] = t[i]
    <3>1. \A i \in 1..a : t[i] \in E
      BY <1>4, <1>7
    <3> QED BY <1>4, <3>1, SubSeqProperties
  <2> QED BY <1>3, <1>7, <2>1, SeqEqual DEF Gathers
<1> QED BY <1>1, <1>3, <1>7, <1>8, <1>9 DEF IsPrefix

\* More of the numbers, from where the sequence ended.
LEMMA GathersOn ==
  ASSUME NEW E \in SUBSET Nat, NEW s, Gathers(s, E), NEW after \in Nat,
         Len(s) = 0 => \A m \in E : after < m,
         Len(s) > 0 => after = s[Len(s)],
         NEW t \in Seq(E),
         \A i \in 1..Len(t) : after < t[i],
         \A i, j \in 1..Len(t) : i < j => t[i] < t[j],
         \A m \in E : \A i \in 1..Len(t) : after < m /\ m < t[i] => \E j \in 1..Len(t) : t[j] = m
  PROVE  /\ Gathers(s \o t, E)
         /\ \A m \in E : m <= after => m \in ToSet(s \o t)
         /\ \A j \in 1..Len(t) : t[j] \in ToSet(s \o t)
         /\ Len(s \o t) = Len(s) + Len(t)
         /\ Len(t) > 0 => (s \o t)[Len(s \o t)] = t[Len(t)]
<1>1. PICK a, b, u : a = Len(s) /\ b = Len(t) /\ u = s \o t
  OBVIOUS
<1>2. /\ a \in Nat /\ s \in [1..a -> E] /\ b \in Nat /\ t \in [1..b -> E]
  BY <1>1, LenProperties DEF Gathers
<1>3. u \in Seq(E) /\ Len(u) = a + b /\ \A i \in 1..(a + b) : u[i] = IF i <= a THEN s[i] ELSE t[i - a]
  BY <1>1, ConcatProperties DEF Gathers
<1>4. /\ \A i \in 1..a : i \in 1..(a + b) /\ u[i] = s[i]
      /\ \A j \in 1..b : a + j \in 1..(a + b) /\ u[a + j] = t[j]
  BY <1>2, <1>3
<1>5. \A m \in E : m <= after <=> \E i \in 1..a : s[i] = m
  <2> TAKE m \in E
  <2>1. CASE a = 0
    BY <1>1, <2>1
  <2>2. CASE a > 0
    <3>1. after = s[a] /\ a \in 1..a
      BY <1>1, <1>2, <2>2
    <3>2. ASSUME NEW i \in 1..a PROVE s[i] <= after
      <4>1. s[i] \in Nat /\ (i < a \/ i = a)
        <5>1. s[i] \in E
          BY <1>2
        <5>2. i < a \/ i = a
          BY <1>2
        <5> QED BY <5>1, <5>2
      <4>2. i < a => s[i] < s[a]
        BY <1>1, <3>1 DEF Gathers
      <4> QED BY <3>1, <4>1, <4>2
    <3>3. m < after => \E i \in 1..a : s[i] = m
      BY <1>1, <3>1 DEF Gathers
    <3> QED BY <3>1, <3>2, <3>3
  <2> QED BY <1>2, <2>1, <2>2
<1>6. ASSUME NEW i \in 1..(a + b), NEW j \in 1..(a + b), i < j PROVE u[i] < u[j]
  <2>1. CASE j <= a
    BY <1>1, <1>2, <1>4, <1>6, <2>1 DEF Gathers
  <2>2. CASE i <= a /\ a < j
    <3>1. u[i] = s[i] /\ u[j] = t[j - a] /\ j - a \in 1..b /\ i \in 1..a
      BY <1>2, <1>3, <2>2
    <3>2. s[i] <= after /\ after < t[j - a] /\ s[i] \in Nat /\ t[j - a] \in Nat
      BY <1>1, <1>2, <1>5, <3>1
    <3> QED BY <3>1, <3>2
  <2>3. CASE a < i
    <3>1. j - a \in 1..b /\ i - a \in 1..b /\ i - a < j - a /\ ~(i <= a) /\ ~(j <= a)
      BY <1>2, <1>6, <2>3
    <3>2. u[i] = t[i - a] /\ u[j] = t[j - a]
      BY <1>3, <3>1
    <3> QED BY <1>1, <3>1, <3>2
  <2> QED BY <1>2, <1>6, <2>1, <2>2, <2>3
<1>7. ASSUME NEW m \in E, NEW i \in 1..(a + b), m < u[i] PROVE \E j \in 1..(a + b) : u[j] = m
  <2>1. CASE m <= after
    BY <1>4, <1>5, <2>1
  <2>2. CASE after < m
    <3>1. u[i] \in E
      BY <1>3, ElementOfSeq
    <3>2. a < i
      <4> SUFFICES ASSUME i <= a PROVE FALSE
        BY <1>2
      <4>1. i \in 1..a /\ s[i] = u[i]
        BY <1>2, <1>4
      <4>2. u[i] <= after /\ u[i] \in Nat /\ m \in Nat
        BY <1>5, <3>1, <4>1
      <4> QED BY <1>7, <2>2, <4>2
    <3>3. u[i] = t[i - a] /\ i - a \in 1..b
      BY <1>2, <1>3, <3>2
    <3>4. PICK j \in 1..b : t[j] = m
      BY <1>1, <1>7, <2>2, <3>3
    <3> QED BY <1>4, <3>4
  <2> QED BY <2>1, <2>2
<1>8. Gathers(u, E)
  BY <1>3, <1>6, <1>7 DEF Gathers
<1>9. ToSet(u) = {u[i] : i \in 1..(a + b)}
  BY <1>3, LenProperties DEF ToSet
<1>10. b > 0 => u[a + b] = t[b]
  BY <1>2, <1>4
<1>11. \A m \in E : m <= after => m \in ToSet(u)
  BY <1>4, <1>5, <1>9
<1>12. \A j \in 1..b : t[j] \in ToSet(u)
  BY <1>4, <1>9
<1> QED BY <1>1, <1>3, <1>8, <1>10, <1>11, <1>12

LEMMA EventsBounded ==
  ASSUME NEW c, \E E : audit \in Seq(E)
  PROVE  /\ EventsOf(c) \in SUBSET Nat /\ IsFiniteSet(EventsOf(c))
         /\ \A m \in EventsOf(c) : 0 < m
<1>1. Len(audit) \in Nat /\ DOMAIN audit = 1..Len(audit)
  OBVIOUS
<1>2. EventsOf(c) \subseteq 1..Len(audit)
  BY <1>1 DEF EventsOf
<1>3. IsFiniteSet(1..Len(audit))
  BY <1>1, FS_Interval
<1>4. IsFiniteSet(EventsOf(c))
  BY <1>2, <1>3, FS_Subset
<1> QED BY <1>1, <1>2, <1>4

\* A page goes on from the last event shown, and without a cursor leaves none out.
LEMMA PageContinues ==
  ASSUME \E F : audit \in Seq(F), NEW c, NEW seen, Gathers(seen, EventsOf(c)), NEW after \in Nat,
         Len(seen) = 0 => after = 0, Len(seen) > 0 => after = seen[Len(seen)]
  PROVE  LET E    == EventsOf(c)
             page == Page(c, after)
             all  == seen \o page.items
         IN  /\ Gathers(all, E)
             /\ page.next = 0 => E \subseteq ToSet(all)
             /\ page.next # 0 => /\ Len(all) > 0 /\ page.next = all[Len(all)]
                                 /\ page.next \in Nat
<1>1. PICK E, S, rows : E = EventsOf(c) /\ S = {n \in E : n > after} /\ rows = InOrder(S)
  OBVIOUS
<1>2. E \in SUBSET Nat /\ IsFiniteSet(E) /\ \A m \in E : 0 < m
  BY <1>1, EventsBounded
<1>3. S \in SUBSET Nat /\ IsFiniteSet(S) /\ S \subseteq E
  BY <1>1, <1>2, FS_Subset
<1>4. /\ rows \in Seq(S)
      /\ \A i, j \in 1..Len(rows) : i < j => rows[i] < rows[j]
      /\ \A m \in S : \E j \in 1..Len(rows) : rows[j] = m
  <2>1. S \in SUBSET Nat /\ IsFiniteSet(S) /\ rows = InOrder(S)
    BY <1>1, <1>3
  <2> QED BY <2>1, InOrderSorts
<1>5. PICK n : n = Len(rows)
  OBVIOUS
<1>6. n \in Nat /\ rows \in [1..n -> S]
  BY <1>4, <1>5, LenProperties
<1>7. PICK items, next : items = Page(c, after).items /\ next = Page(c, after).next
  OBVIOUS
<1>8. /\ n > TimelineLimit => items = SubSeq(rows, 1, TimelineLimit) /\ next = rows[TimelineLimit]
      /\ ~(n > TimelineLimit) => items = rows /\ next = 0
  BY <1>1, <1>5, <1>7 DEF Page
<1>9. PICK k \in Nat : k = IF n > TimelineLimit THEN TimelineLimit ELSE n
  BY <1>6, ReaderAssumption
<1>10. k <= n /\ k \in Nat
  BY <1>6, <1>9, ReaderAssumption
<1>11. items \in Seq(S) /\ Len(items) = k /\ \A i \in 1..k : items[i] = rows[i]
  <2>1. CASE n > TimelineLimit
    <3>1. \A i \in 1..k : rows[i] \in S
      BY <1>6, <1>10
    <3>2. items = SubSeq(rows, 1, k)
      BY <1>8, <1>9, <2>1
    <3> QED BY <1>10, <3>1, <3>2, SubSeqProperties
  <2>2. CASE ~(n > TimelineLimit)
    <3>1. items = rows /\ k = n
      BY <1>8, <1>9, <2>2
    <3> QED BY <1>4, <1>5, <3>1
  <2> QED BY <2>1, <2>2
<1>12. \A i, j \in 1..k : i < j => items[i] < items[j]
  <2>1. \A i \in 1..k : i \in 1..n /\ items[i] = rows[i]
    BY <1>6, <1>10, <1>11
  <2>2. \A i, j \in 1..n : i < j => rows[i] < rows[j]
    BY <1>4, <1>5
  <2> QED BY <2>1, <2>2
<1>13. items \in Seq(E) /\ \A i \in 1..k : items[i] \in S /\ after < items[i]
  <2>1. \A i \in 1..k : items[i] \in S
    BY <1>6, <1>10, <1>11
  <2> QED BY <1>1, <1>2, <1>3, <1>11, <2>1, SeqMonotonic
<1>14. ASSUME NEW m \in E, NEW i \in 1..k, after < m /\ m < items[i] PROVE \E j \in 1..k : items[j] = m
  <2>1. m \in S /\ m \in Nat
    BY <1>1, <1>2, <1>14
  <2>2. PICK j \in 1..n : rows[j] = m
    BY <1>4, <1>5, <2>1
  <2>3. j < i
    <3> SUFFICES ASSUME i <= j PROVE FALSE
      BY <1>6, <1>10
    <3>1. i \in 1..n /\ rows[i] \in Nat
      <4>1. i \in 1..n
        BY <1>6, <1>10
      <4>2. rows[i] \in S
        BY <1>6, <4>1
      <4> QED BY <1>3, <4>1, <4>2
    <3>2. i = j \/ rows[i] < rows[j]
      BY <1>4, <1>5, <1>6, <3>1
    <3> QED BY <1>11, <1>14, <2>1, <2>2, <3>1, <3>2
  <2>4. j \in 1..k
    BY <1>6, <1>10, <2>3
  <2> QED BY <1>11, <2>2, <2>4
<1>15. PICK all : all = seen \o items
  OBVIOUS
<1>16. /\ Gathers(all, E)
       /\ \A m \in E : m <= after => m \in ToSet(all)
       /\ \A j \in 1..k : items[j] \in ToSet(all)
       /\ Len(all) = Len(seen) + k
       /\ k > 0 => all[Len(all)] = items[k]
  <2>1. /\ Gathers(seen, E)
        /\ Len(seen) = 0 => \A m \in E : after < m
    BY <1>1, <1>2
  <2>2. /\ items \in Seq(E)
        /\ \A i \in 1..Len(items) : after < items[i]
        /\ \A i, j \in 1..Len(items) : i < j => items[i] < items[j]
        /\ \A m \in E : \A i \in 1..Len(items) :
             after < m /\ m < items[i] => \E j \in 1..Len(items) : items[j] = m
    BY <1>11, <1>12, <1>13, <1>14
  <2>3. E \in SUBSET Nat
    BY <1>2
  <2>4. /\ Gathers(all, E)
        /\ \A m \in E : m <= after => m \in ToSet(all)
        /\ \A j \in 1..Len(items) : items[j] \in ToSet(all)
        /\ Len(all) = Len(seen) + Len(items)
        /\ Len(items) > 0 => all[Len(all)] = items[Len(items)]
    <3>1. /\ Gathers(seen \o items, E)
          /\ \A m \in E : m <= after => m \in ToSet(seen \o items)
          /\ \A j \in 1..Len(items) : items[j] \in ToSet(seen \o items)
          /\ Len(seen \o items) = Len(seen) + Len(items)
          /\ Len(items) > 0 => (seen \o items)[Len(seen \o items)] = items[Len(items)]
      BY <2>1, <2>2, <2>3, GathersOn
    <3> QED BY <1>15, <3>1
  <2> QED BY <1>11, <2>4
<1>17. next = 0 => E \subseteq ToSet(all)
  <2>1. ASSUME next = 0, NEW m \in S PROVE m \in ToSet(all)
    <3>1. k = n
      <4> SUFFICES ASSUME n > TimelineLimit PROVE FALSE
        BY <1>9
      <4>1. next \in S
        BY <1>6, <1>8, ReaderAssumption
      <4> QED BY <1>2, <1>3, <2>1, <4>1
    <3> QED BY <1>4, <1>5, <1>11, <1>16, <3>1
  <2> QED BY <1>1, <1>2, <1>16, <2>1
<1>18. next # 0 => Len(all) > 0 /\ next = all[Len(all)] /\ next \in Nat
  <2> SUFFICES ASSUME next # 0 PROVE Len(all) > 0 /\ next = all[Len(all)] /\ next \in Nat
    OBVIOUS
  <2>1. n > TimelineLimit /\ k = TimelineLimit /\ k \in 1..n
    BY <1>6, <1>8, <1>9, ReaderAssumption
  <2>2. next = items[k] /\ next \in S
    BY <1>6, <1>8, <1>11, <2>1
  <2>3. Len(seen) \in Nat
    BY LenProperties DEF Gathers
  <2> QED BY <1>3, <1>16, <2>1, <2>2, <2>3
<1> QED BY <1>1, <1>7, <1>15, <1>16, <1>17, <1>18

\* A commit adds its event behind all there are.
LEMMA EventsStay ==
  ASSUME Service, [Next]_vars, NEW c
  PROVE  /\ EventsOf(c) \subseteq EventsOf(c)' /\ EventsOf(c)' \in SUBSET Nat
         /\ \A m \in EventsOf(c)' \ EventsOf(c) : \A n \in EventsOf(c) : n < m
<1>1. CASE UNCHANGED tables
  <2>1. EventsOf(c)' = EventsOf(c)
    BY <1>1 DEF tables, EventsOf
  <2> QED BY <2>1, EventsBounded DEF Service, Tables
<1>2. CASE Grows
  <2>1. PICK s, type, seen, id, fingerprint : Advances(s, type, seen, id, fingerprint)
    BY <1>2 DEF Grows
  <2>2. Grown(s, type, seen, id)
    BY <2>1, WriteGrows DEF Service
  <2>3. /\ Len(audit) \in Nat /\ DOMAIN audit = 1..Len(audit) /\ DOMAIN audit' = 1..(Len(audit) + 1)
        /\ \A n \in 1..Len(audit) : audit'[n] = audit[n]
    BY <2>2 DEF Grown
  <2> QED BY <2>3 DEF EventsOf
<1> QED BY <1>1, <1>2, StepKinds

\* What was gathered is still the beginning of the chain.
LEMMA GathersStay ==
  ASSUME Service, [Next]_vars, NEW c, NEW s, Gathers(s, EventsOf(c))
  PROVE  Gathers(s, EventsOf(c)')
<1>1. PICK E, F : E = EventsOf(c) /\ F = EventsOf(c)'
  OBVIOUS
<1>2. E \subseteq F /\ F \in SUBSET Nat /\ \A m \in F \ E : \A n \in E : n < m
  BY <1>1, EventsStay
<1>3. \A i \in 1..Len(s) : s[i] \in E
  BY <1>1, ElementOfSeq DEF Gathers
<1>4. E \in SUBSET Nat
  BY <1>1, EventsBounded DEF Service, Tables
<1>5. Gathers(s, E) /\ s \in Seq(F)
  BY <1>1, <1>2, SeqMonotonic DEF Gathers
<1>6. ASSUME NEW m \in F, NEW i \in 1..Len(s), m < s[i] PROVE m \in E
  <2> SUFFICES ASSUME m \notin E PROVE FALSE
    OBVIOUS
  <2>1. s[i] < m /\ s[i] \in Nat
    BY <1>2, <1>3, <1>4
  <2>2. m \in Nat
    BY <1>2
  <2> QED BY <1>6, <2>1, <2>2
<1> QED BY <1>1, <1>5, <1>6 DEF Gathers

-----------------------------------------------------------------------------
(* The invariant of the readers.                                           *)

\* What a reader holds, in terms of the tables there are now.
Sound(v) ==
  /\ v.at = "head" =>
       /\ v.case.case \in Case /\ Exists(v.case.case) /\ v.case.revision \in Nat
       /\ v.case.revision <= cases[v.case.case].revision
  /\ v.at = "shown" =>
       /\ v.head \in {0} \cup EventsOf(v.case.case)
       /\ v.whole => v.head # 0 /\ audit[v.head].revision >= v.case.revision
  /\ v.at \in {"archiveCase", "archiveEvents"} =>
       v.of \in Case /\ archives[v.of] # None /\ v.archive = archives[v.of]
  /\ v.at = "archiveEvents" => v.case = cases[v.of]
  /\ v.at \in {"paging", "walked"} =>
       Gathers(v.seen, EventsOf(v.case)) /\ v.owed \subseteq EventsOf(v.case)
  /\ v.at = "paging" => Len(v.seen) > 0 /\ v.after = v.seen[Len(v.seen)] /\ v.after \in Nat
  /\ v.at = "walked" => v.owed \subseteq ToSet(v.seen)
  /\ v.at = "served" =>
       /\ v.verified <=> v.archive.case.case = v.of
       /\ v.verified => v.eventCount = Cardinality(v.archive.events) + 1

Reads ==
  /\ \E R : reading \in [Reader -> R]
  /\ \A x \in Reader : Sound(reading[x])

LEMMA SoundStays ==
  ASSUME Service, [Next]_vars, NEW v, Sound(v)
  PROVE  Sound(v)'
<1>1. CASE v.at = "head"
  BY <1>1, CasesStay DEF Sound
<1>2. CASE v.at = "shown"
  <2>1. v.head \in {0} \cup EventsOf(v.case.case)'
    BY <1>2, EventsStay DEF Sound
  <2>2. ASSUME v.whole PROVE v.head # 0 /\ audit'[v.head].revision >= v.case.revision
    <3>1. v.head # 0 /\ v.head \in DOMAIN audit /\ audit[v.head].revision >= v.case.revision
      BY <1>2, <2>2 DEF Sound, EventsOf
    <3> QED BY <3>1, CasesStay
  <2> QED BY <1>2, <2>1, <2>2 DEF Sound
<1>3. CASE v.at \in {"archiveCase", "archiveEvents"}
  BY <1>3, CasesStay DEF Sound
<1>4. CASE v.at = "served"
  BY <1>4 DEF Sound
<1>5. CASE v.at \in {"paging", "walked"}
  <2>1. Gathers(v.seen, EventsOf(v.case)') /\ v.owed \subseteq EventsOf(v.case)'
    BY <1>5, GathersStay, EventsStay DEF Sound
  <2> QED BY <1>5, <2>1 DEF Sound
<1> QED BY <1>1, <1>2, <1>3, <1>5, <1>4 DEF Sound

\* A reader at a further step, while no table changes.
LEMMA ReaderMoves ==
  ASSUME Service, Reads, NEW x \in Reader, NEW next, Step(x, next), Sound(next)
  PROVE  Reads'
<1>1. PICK R : reading \in [Reader -> R]
  BY DEF Reads
<1>2. reading' \in [Reader -> R \cup {next}] /\ reading'[x] = next
      /\ \A y \in Reader \ {x} : reading'[y] = reading[y]
  BY <1>1 DEF Step
<1>3. [Next]_vars
  BY DEF Step
<1>4. ASSUME NEW y \in Reader PROVE Sound(reading[y])' 
  <2>1. PICK v : v = reading'[y]
    OBVIOUS
  <2>2. Sound(v)
    <3>1. CASE y = x
      BY <1>2, <2>1, <3>1
    <3>2. CASE y # x
      BY <1>2, <2>1, <3>2 DEF Reads
    <3> QED BY <3>1, <3>2
  <2>3. Sound(v)'
    BY <1>3, <2>2, SoundStays
  <2> QED BY <2>1, <2>3
<1> QED BY <1>2, <1>4 DEF Reads

LEMMA CommandKeepsReads == Service /\ Reads /\ Command => Reads'
<1> SUFFICES ASSUME Service, Reads, Command PROVE Reads'
  OBVIOUS
<1>1. PICK R : reading \in [Reader -> R]
  BY DEF Reads
<1>2. /\ reading' \in [Reader -> R \cup {Idle}]
      /\ \A x \in Reader : reading'[x] \in {reading[x], Idle}
  BY <1>1 DEF Command
<1>3. ASSUME NEW x \in Reader PROVE Sound(reading[x])'
  <2>1. PICK v : v = reading'[x]
    OBVIOUS
  <2>2. Sound(Idle)
    BY DEF Sound, Idle
  <2>3. Sound(v)
    BY <1>2, <2>1, <2>2 DEF Reads
  <2>4. Sound(v)'
    BY <2>3, SoundStays DEF Command
  <2> QED BY <2>1, <2>4
<1> QED BY <1>2, <1>3 DEF Reads

LEMMA ReadKeepsReads ==
  ASSUME Service, VerdictKept, Reads, NEW x \in Reader, Read(x)
  PROVE  Reads'
<1> DEFINE v == reading[x]
<1>1. ASSUME NEW c \in Case, GetCase(x, c) PROVE Reads'
  <2>1. /\ cases[c] \in Snapshot /\ cases[c].case = c /\ Exists(c) /\ cases[c].revision \in Nat
    BY <1>1 DEF GetCase, Service, Tables, Exists, Snapshot
  <2>2. CASE cases[c].state = "verification"
    <3>1. Step(x, [at |-> "head", case |-> cases[c]])
      BY <1>1, <2>2 DEF GetCase
    <3>2. Sound([at |-> "head", case |-> cases[c]])
      BY <2>1 DEF Sound
    <3> QED BY <3>1, <3>2, ReaderMoves
  <2>3. CASE cases[c].state # "verification"
    <3>1. Step(x, [at |-> "idle"])
      BY <1>1, <2>3 DEF GetCase
    <3>2. Sound([at |-> "idle"])
      BY DEF Sound
    <3> QED BY <3>1, <3>2, ReaderMoves
  <2> QED BY <2>2, <2>3
<1>2. ASSUME NEW c, NEW seen, NEW after \in Nat, NEW owed, Turn(x, c, seen, after, owed),
             Gathers(seen, EventsOf(c)), owed \subseteq EventsOf(c),
             Len(seen) = 0 => after = 0, Len(seen) > 0 => after = seen[Len(seen)]
      PROVE  Reads'
  <2> DEFINE page == Page(c, after)
  <2>1. PICK at, all, next :
          /\ at = IF next = 0 THEN "walked" ELSE "paging"
          /\ all = seen \o page.items /\ next = page.next
    OBVIOUS
  <2>2. /\ Gathers(all, EventsOf(c))
        /\ next = 0 => EventsOf(c) \subseteq ToSet(all)
        /\ next # 0 => Len(all) > 0 /\ next = all[Len(all)] /\ next \in Nat
    <3>1. \E F : audit \in Seq(F)
      BY DEF Service, Tables
    <3> QED BY <1>2, <2>1, <3>1, PageContinues
  <2>3. Sound([at |-> at, case |-> c, seen |-> all, after |-> next, owed |-> owed])
    BY <1>2, <2>1, <2>2 DEF Sound
  <2>4. Step(x, [at |-> at, case |-> c, seen |-> all, after |-> next, owed |-> owed])
    BY <1>2, <2>1, Zenon DEF Turn
  <2> QED BY <2>3, <2>4, ReaderMoves
<1>3. CASE GetHead(x)
  <2>1. PICK s : s = v.case
    OBVIOUS
  <2>2. /\ s.case \in Case /\ Exists(s.case) /\ s.revision \in Nat
        /\ s.revision <= cases[s.case].revision
    BY <1>3, <2>1 DEF GetHead, Reads, Sound
  <2>3. PICK head : head = ChainHead(s.case)
    OBVIOUS
  <2>4. head \in EventsOf(s.case) /\ audit[head].revision = cases[s.case].revision
    BY <2>2, <2>3, HeadOfChain DEF Service
  <2>5. head # 0 /\ audit[head].revision \in Nat
    BY <2>2, <2>4, EventsAreSequences DEF Service, EventsOf, Tables
  <2>6. Sound([at |-> "shown", case |-> s, head |-> head, whole |-> TRUE])
    BY <2>2, <2>4, <2>5 DEF Sound
  <2>7. Step(x, [at |-> "shown", case |-> s, head |-> head, whole |-> TRUE])
    BY <1>3, <2>1, <2>3 DEF GetHead, Shown
  <2> QED BY <2>6, <2>7, ReaderMoves
<1>4. CASE GetHeadCut(x)
  <2>1. PICK s : s = v.case
    OBVIOUS
  <2>2. PICK head \in {0} \cup EventsOf(s.case) :
          Step(x, [at |-> "shown", case |-> s, head |-> head, whole |-> FALSE])
    BY <1>4, <2>1 DEF GetHeadCut, Shown
  <2>3. Sound([at |-> "shown", case |-> s, head |-> head, whole |-> FALSE])
    BY DEF Sound
  <2> QED BY <2>2, <2>3, ReaderMoves
<1>5. ASSUME NEW c \in Case, ReadArchive(x, c) PROVE Reads'
  <2>1. CASE archives[c] = None
    <3>1. Step(x, [at |-> "idle"])
      BY <1>5, <2>1 DEF ReadArchive
    <3>2. Sound([at |-> "idle"])
      BY DEF Sound
    <3> QED BY <3>1, <3>2, ReaderMoves
  <2>2. CASE archives[c] # None
    <3>1. Step(x, [at |-> "archiveCase", of |-> c, archive |-> archives[c]])
      BY <1>5, <2>2 DEF ReadArchive
    <3>2. Sound([at |-> "archiveCase", of |-> c, archive |-> archives[c]])
      BY <2>2 DEF Sound
    <3> QED BY <3>1, <3>2, ReaderMoves
  <2> QED BY <2>1, <2>2
<1>6. CASE ReadArchiveCase(x)
  <2>1. PICK a, c, s : a = v.archive /\ c = v.of /\ s = cases[c]
    OBVIOUS
  <2>2. c \in Case /\ archives[c] # None /\ a = archives[c]
    BY <1>6, <2>1 DEF ReadArchiveCase, Reads, Sound
  <2>3. Sound([at |-> "archiveEvents", of |-> c, archive |-> a, case |-> s])
    BY <2>1, <2>2 DEF Sound
  <2>4. Step(x, [at |-> "archiveEvents", of |-> c, archive |-> a, case |-> s])
    BY <1>6, <2>1 DEF ReadArchiveCase
  <2> QED BY <2>3, <2>4, ReaderMoves
<1>7. CASE ReadArchiveEvents(x)
  <2>1. PICK a, c : a = v.archive /\ c = v.of
    OBVIOUS
  <2>2. c \in Case /\ archives[c] # None /\ a = archives[c] /\ v.case = cases[c]
    BY <1>7, <2>1 DEF ReadArchiveEvents, Reads, Sound
  <2> DEFINE verified == /\ ValidateChain(a.events) /\ ValidateChain(EventsOf(c))
                         /\ FactsMatch(a, v.case) /\ EventsMatch(a, EventsOf(c))
             count == Cardinality(EventsOf(c))
  <2>3. /\ verified <=> a.case.case = c
        /\ verified => count = Cardinality(a.events) + 1
    BY <2>2, HistoryVerifies, OtherFails
  <2>4. Step(x, [at |-> "served", of |-> c, archive |-> a, eventCount |-> count,
                 verified |-> verified])
    BY <1>7, <2>1 DEF ReadArchiveEvents
  <2> HIDE DEF verified, count
  <2>5. Sound([at |-> "served", of |-> c, archive |-> a, eventCount |-> count,
               verified |-> verified])
    BY <2>3 DEF Sound
  <2> QED BY <2>4, <2>5, ReaderMoves
<1>8. ASSUME NEW c \in Case, Timeline(x, c) PROVE Reads'
  <2>1. Gathers(<< >>, EventsOf(c)) /\ Len(<< >>) = 0
    BY EmptySeq DEF Gathers
  <2> QED BY <1>2, <1>8, <2>1 DEF Timeline
<1>9. CASE TimelineNext(x)
  <2>1. PICK c, seen, after, owed : c = v.case /\ seen = v.seen /\ after = v.after /\ owed = v.owed
    OBVIOUS
  <2>2. /\ Gathers(seen, EventsOf(c)) /\ owed \subseteq EventsOf(c)
        /\ Len(seen) > 0 /\ after = seen[Len(seen)] /\ after \in Nat
    BY <1>9, <2>1 DEF TimelineNext, Reads, Sound
  <2>3. Turn(x, c, seen, after, owed)
    BY <1>9, <2>1 DEF TimelineNext
  <2> QED BY <1>2, <2>2, <2>3
<1> QED BY <1>1, <1>3, <1>4, <1>5, <1>6, <1>7, <1>8, <1>9 DEF Read

LEMMA ReadersInvariant == ReadersSpec => []Reads
<1>1. ReadersInit => Reads
  <2> SUFFICES ASSUME ReadersInit PROVE Reads
    OBVIOUS
  <2>1. reading \in [Reader -> {Idle}] /\ \A x \in Reader : reading[x] = Idle
    BY DEF ReadersInit
  <2>2. Sound(Idle)
    BY DEF Sound, Idle
  <2> QED BY <2>1, <2>2 DEF Reads
<1>2. Service /\ VerdictKept /\ Reads /\ [ReadersNext]_readerVars => Reads'
  <2> SUFFICES ASSUME Service, VerdictKept, Reads, [ReadersNext]_readerVars PROVE Reads'
    OBVIOUS
  <2>1. CASE UNCHANGED readerVars
    <3>1. [Next]_vars /\ reading' = reading
      BY <2>1 DEF readerVars
    <3>2. ASSUME NEW x \in Reader PROVE Sound(reading[x])'
      <4>1. PICK v : v = reading[x]
        OBVIOUS
      <4>2. Sound(v)'
        BY <3>1, <4>1, SoundStays DEF Reads
      <4> QED BY <3>1, <4>1, <4>2
    <3> QED BY <3>1, <3>2 DEF Reads
  <2> QED BY <2>1, CommandKeepsReads, ReadKeepsReads DEF ReadersNext
<1> QED BY <1>1, <1>2, ReadersServe, ServiceWithVerdict, PTL DEF ReadersSpec

-----------------------------------------------------------------------------
(* Theorems.                                                               *)

\* A checklist names no event of another case, and one for which all the events were
\* read names one that is not older than the case beside it.
THEOREM ChecklistsCurrent == ReadersSpec => []ChecklistNotBehind
<1>1. Reads => ChecklistNotBehind
  BY DEF Reads, Sound, ChecklistNotBehind
<1> QED BY <1>1, ReadersInvariant, PTL

\* An archive that is read verifies exactly if it holds the case it is kept for, and
\* then it lacks one event, its own freezing.
THEOREM ArchivesVerify == ReadersSpec => []ArchiveReadVerifies
<1>1. Reads => ArchiveReadVerifies
  BY DEF Reads, Sound, ArchiveReadVerifies
<1> QED BY <1>1, ReadersInvariant, PTL

\* Whatever is committed between its pages, a walk through a timeline gathers the
\* chain from its first event without gap or repetition, and at its end has all
\* the events there were when it began.
THEOREM TimelinesAreWhole == ReadersSpec => []TimelineIsWhole
<1>1. Reads /\ Service => TimelineIsWhole
  <2> SUFFICES ASSUME Reads, Service, NEW x \in Reader, reading[x].at \in {"paging", "walked"}
               PROVE  IsPrefix(reading[x].seen, InOrder(EventsOf(reading[x].case)))
    BY DEF Reads, Sound, TimelineIsWhole
  <2>1. Gathers(reading[x].seen, EventsOf(reading[x].case))
    BY DEF Reads, Sound
  <2>2. \E F : audit \in Seq(F)
    BY DEF Service, Tables
  <2> QED BY <2>1, <2>2, EventsBounded, OneOrder
<1> QED BY <1>1, ReadersInvariant, ReadersServe, ServiceInvariant, PTL
=============================================================================
