-------------------------- MODULE SealService_proofs --------------------------
(***************************************************************************)
(* Theorems about SealService, for every set of cases, handlers, requests  *)
(* and moments that satisfies ServiceAssumption.                           *)
(***************************************************************************)
EXTENDS SealService, FiniteSetTheorems, TLAPS

-----------------------------------------------------------------------------
(* The inductive invariant, in parts.                                      *)

Tables ==
  /\ cases \in [Case -> Snapshot \cup {None}]
  /\ \A c \in Case : Exists(c) => cases[c].case = c
  /\ archives \in [Case -> Archive \cup {None}]
  /\ \E E : audit \in Seq(E)
  /\ \A n \in DOMAIN audit : /\ audit[n].case \in Case /\ audit[n].revision \in Nat
                             /\ audit[n].previous \in 0..(n - 1)
  /\ \E R : idem \in [RequestIds -> R]

\* A snapshot the case has or had.
Held(s) ==
  /\ s \in Snapshot /\ Exists(s.case) /\ s.revision <= cases[s.case].revision
  /\ s.revision = cases[s.case].revision => s = cases[s.case]

\* What is remembered for an id is about the case of the requests with that id, if
\* ids are kept apart; but an archive's id may also be that of some request.
Own(s, id) ==
  IdsKeptApart /\ s.state # "archived" =>
    \A r \in Request : r.id = id /\ r.op # "create" => s.case = r.case

Remembered(id) ==
  Committed(id) => Held(idem[id].response) /\ Own(idem[id].response, id)

Answered(s) == \E id \in RequestIds : Committed(id) /\ idem[id].response = s

\* A chain has an end, because a case that exists has events and only then.
Chained(c) ==
  /\ ~Exists(c) => EventsOf(c) = {}
  /\ Exists(c) => ChainHolds(c) /\ \E m \in EventsOf(c) : \A n \in EventsOf(c) : n <= m

Revisions(c) == 1..(IF Exists(c) THEN cases[c].revision ELSE 0)

Writers(c, n) ==
  {id \in RequestIds : Committed(id) /\ idem[id].response.case = c
                                     /\ idem[id].response.revision = n}

Versions(c, n) == {e \in EventsOf(c) : audit[e].revision = n}

Written(c) ==
  \A n \in Revisions(c) : (\E id : Writers(c, n) = {id}) /\ (\E e : Versions(c, n) = {e})

Frozen(c) == (Exists(c) /\ cases[c].state = "archived") <=> archives[c] # None

\* What a handler read of the case before its transaction is some earlier commit of
\* it, or the last, and the head of the chain is not older than that.
ReadOk(r, seen) ==
  /\ seen = [revision |-> seen.revision, state |-> seen.state, head |-> seen.head]
  /\ \E m \in EventsOf(r.case) : audit[m].revision = seen.revision

HeadOk(r, seen) ==
  seen.head \in EventsOf(r.case) /\ audit[seen.head].revision >= seen.revision

\* The snapshot that the archive of a release is built from.
Taken(r, s) ==
  r.op = "release" /\ Held(s) /\ Answered(s) /\ (IdsKeptApart => s.case = r.case)

\* While it is current and of the case addressed, no event is missing.
AtFreeze(r, s, a) ==
  /\ Taken(r, s) /\ a \in Archive /\ a.case = s /\ s.state = "released"
  /\ s.case = r.case /\ s.revision = cases[s.case].revision => a.events = EventsOf(s.case)

AtApply(r, seen) ==
  /\ r.op \in {"correct", "release", "return"} => ReadOk(r, seen)
  /\ r.op \in {"release", "return"} => HeadOk(r, seen)

RunOk(h) ==
  \/ run[h] = Idle
  \/ \E r \in Request :
       /\ run[h] = [at |-> "prefetch", req |-> r, seen |-> None]
       /\ r.op \in {"correct", "release", "return"}
  \/ \E r \in Request : \E seen :
       /\ run[h] = [at |-> "prefetchEvents", req |-> r, seen |-> seen]
       /\ r.op \in {"release", "return"} /\ ReadOk(r, seen)
  \/ \E r \in Request : \E seen :
       run[h] = [at |-> "apply", req |-> r, seen |-> seen] /\ AtApply(r, seen)
  \/ \E r \in Request : \E c : run[h] = [at |-> "events", req |-> r, case |-> c] /\ Taken(r, c)
  \/ \E r \in Request : \E c, a :
       /\ run[h] = [at |-> "freeze", req |-> r, case |-> c, archive |-> a]
       /\ AtFreeze(r, c, a)
  \/ \E r \in Request : \E c, outcome :
       run[h] = [at |-> "reply", req |-> r, case |-> c, outcome |-> outcome]

Runs ==
  /\ \E R : run \in [Handler -> R]
  /\ \A h \in Handler : RunOk(h)

Switch == /\ up \in BOOLEAN /\ faults \in 0..MaxFaults
          /\ ~up => \A h \in Handler : run[h] = Idle

\* What ArchiveIsHistory says of one case.
HistoryOf(c) ==
  archives[c] # None =>
    /\ archives[c].case.state = "released"
    /\ archives[c].case.revision = cases[c].revision - 1
    /\ Answered(archives[c].case)
    /\ IdsKeptApart => archives[c].case.case = c
    /\ audit[ChainHead(c)].type = "archive"
    /\ archives[c].case.case = c =>
         /\ archives[c].events = EventsOf(c) \ {ChainHead(c)}
         /\ Max(archives[c].events) = audit[ChainHead(c)].previous

Service ==
  /\ Tables /\ Runs /\ Switch
  /\ \A id \in RequestIds : Remembered(id)
  /\ \A c \in Case : Chained(c) /\ Written(c) /\ Frozen(c) /\ HistoryOf(c)
  /\ PrefetchWasBefore

-----------------------------------------------------------------------------
(* Maxima and chain heads.                                                 *)

LEMMA MaxIs ==
  ASSUME NEW S \in SUBSET Int, NEW m \in S, \A n \in S : n <= m
  PROVE  Max(S) = m
<1> DEFINE top == CHOOSE x \in S : \A y \in S : x >= y
<1>1. m \in S /\ \A y \in S : m >= y
  OBVIOUS
<1>2. top \in S /\ \A y \in S : top >= y
  BY <1>1
<1>3. top \in Int /\ m \in Int /\ top >= m /\ m >= top
  <2> HIDE DEF top
  <2> QED BY <1>1, <1>2
<1>4. top = m
  <2> HIDE DEF top
  <2> QED BY <1>3
<1> QED BY <1>4 DEF Max

LEMMA EventsAreSequences ==
  ASSUME Tables, NEW c \in Case
  PROVE  /\ EventsOf(c) \in SUBSET Int
         /\ \A n \in EventsOf(c) : 1 <= n /\ n <= Len(audit)
         /\ Len(audit) \in Nat /\ DOMAIN audit = 1..Len(audit)
<1>1. PICK E : audit \in Seq(E)
  BY DEF Tables
<1>2. Len(audit) \in Nat /\ DOMAIN audit = 1..Len(audit)
  BY <1>1
<1> QED BY <1>2 DEF EventsOf

\* The head of a chain is its last event, or 0 before there is one.
LEMMA HeadOfChain ==
  ASSUME Tables, NEW c \in Case, Chained(c)
  PROVE  /\ ChainHead(c) \in 0..Len(audit)
         /\ ~Exists(c) => ChainHead(c) = 0
         /\ Exists(c) => /\ ChainHead(c) = Max(EventsOf(c)) /\ ChainHead(c) \in EventsOf(c)
                         /\ \A n \in EventsOf(c) : n <= ChainHead(c)
                         /\ audit[ChainHead(c)].revision = cases[c].revision
<1>1. CASE ~Exists(c)
  BY <1>1, EventsAreSequences DEF Chained, ChainHead
<1>2. CASE Exists(c)
  <2>1. PICK m \in EventsOf(c) : \A n \in EventsOf(c) : n <= m
    BY <1>2 DEF Chained
  <2>2. Max(EventsOf(c)) = m
    BY <2>1, EventsAreSequences, MaxIs
  <2> QED BY <1>2, <2>1, <2>2, EventsAreSequences DEF Chained, ChainHead, ChainHolds, ValidateChain
<1> QED BY <1>1, <1>2

LEMMA EventsNotAhead ==
  ASSUME Tables, NEW c \in Case, Chained(c), NEW n \in EventsOf(c)
  PROVE  /\ Exists(c) /\ cases[c].revision \in Nat
         /\ audit[n].revision <= cases[c].revision
<1>1. Exists(c) /\ cases[c].revision \in Nat
  BY DEF Chained, Tables, Exists, Snapshot
<1>2. /\ ChainHead(c) \in EventsOf(c) /\ n <= ChainHead(c)
      /\ audit[ChainHead(c)].revision = cases[c].revision
  BY <1>1, HeadOfChain
<1>3. n \in Int /\ ChainHead(c) \in Int
  BY <1>2, EventsAreSequences
<1>4. CASE n = ChainHead(c)
  BY <1>1, <1>2, <1>4
<1>5. CASE n < ChainHead(c)
  BY <1>1, <1>2, <1>5 DEF Chained, ChainHolds
<1> QED BY <1>1, <1>2, <1>3, <1>4, <1>5

-----------------------------------------------------------------------------
(* What writing a snapshot does to the tables.                             *)

\* A commit of a later revision of its case than the tables have.
Advances(s, type, seen, id, fingerprint) ==
  /\ s \in Snapshot /\ id \in RequestIds /\ ~Committed(id) /\ Own(s, id)
  /\ [fingerprint |-> fingerprint, response |-> s] \in Answer
  /\ s.revision = IF Exists(s.case) THEN cases[s.case].revision + 1 ELSE 1
  /\ Write(s, type, seen, id, fingerprint)

\* What that leaves in each table.
Grown(s, type, seen, id) ==
  /\ s.case \in Case /\ s.revision \in Nat /\ s # None
  /\ cases' \in [Case -> Snapshot \cup {None}]
  /\ cases'[s.case] = s
  /\ \A c \in Case \ {s.case} : cases'[c] = cases[c]
  /\ Len(audit) \in Nat /\ DOMAIN audit = 1..Len(audit)
  /\ Len(audit') = Len(audit) + 1 /\ DOMAIN audit' = 1..(Len(audit) + 1)
  /\ \A n \in 1..Len(audit) : audit'[n] = audit[n]
  /\ audit'[Len(audit) + 1].case = s.case
  /\ audit'[Len(audit) + 1].type = type
  /\ audit'[Len(audit) + 1].seen = seen
  /\ audit'[Len(audit) + 1].revision = s.revision
  /\ audit'[Len(audit) + 1].previous = ChainHead(s.case)
  /\ \E E : audit' \in Seq(E)
  /\ \E R : idem' \in [RequestIds -> R]
  /\ idem'[id] # None /\ idem'[id].response = s
  /\ \A other \in RequestIds \ {id} : idem'[other] = idem[other]

LEMMA WriteGrows ==
  ASSUME Tables, NEW s, NEW type, NEW seen, NEW id, NEW fingerprint,
         Advances(s, type, seen, id, fingerprint)
  PROVE  Grown(s, type, seen, id)
<1> DEFINE e == [case |-> s.case, type |-> type, seen |-> seen,
                 revision |-> s.revision, previous |-> ChainHead(s.case)]
<1>1. s.case \in Case /\ s.revision \in Nat /\ s # None
  BY ServiceAssumption DEF Advances, Snapshot
<1>2. /\ cases' \in [Case -> Snapshot \cup {None}] /\ cases'[s.case] = s
      /\ \A c \in Case \ {s.case} : cases'[c] = cases[c]
  BY <1>1 DEF Advances, Write, Tables
<1>3. PICK E : audit \in Seq(E)
  BY DEF Tables
<1>4. audit' = Append(audit, e)
  BY DEF Advances, Write
<1>5. /\ audit \in Seq(E \cup {e}) /\ e \in E \cup {e}
  BY <1>3
<1>6. /\ audit' \in Seq(E \cup {e}) /\ Len(audit') = Len(audit) + 1
      /\ DOMAIN audit' = 1..(Len(audit) + 1)
      /\ \A n \in 1..Len(audit) : audit'[n] = audit[n]
      /\ audit'[Len(audit) + 1] = e
  <2> HIDE DEF e
  <2> QED BY <1>4, <1>5
<1>7. PICK R : idem \in [RequestIds -> R]
  BY DEF Tables
<1> DEFINE row == [fingerprint |-> fingerprint, response |-> s]
<1>8. idem' = [idem EXCEPT ![id] = row] /\ id \in RequestIds
  BY DEF Advances, Write
<1>9. /\ idem' \in [RequestIds -> R \cup {row}] /\ idem'[id] = row
      /\ \A other \in RequestIds \ {id} : idem'[other] = idem[other]
  <2> HIDE DEF row
  <2> QED BY <1>7, <1>8
<1>10. idem'[id] # None /\ idem'[id].response = s
  BY <1>9, ServiceAssumption DEF Advances
<1>11. (\E F : audit' \in Seq(F)) /\ (\E F : idem' \in [RequestIds -> F])
  BY <1>6, <1>9
<1>12. /\ audit'[Len(audit) + 1].case = s.case
       /\ audit'[Len(audit) + 1].type = type
       /\ audit'[Len(audit) + 1].seen = seen
       /\ audit'[Len(audit) + 1].revision = s.revision
       /\ audit'[Len(audit) + 1].previous = ChainHead(s.case)
  BY <1>6
<1>13. Len(audit) \in Nat /\ DOMAIN audit = 1..Len(audit)
  BY <1>3
<1> QED BY <1>1, <1>2, <1>6, <1>9, <1>10, <1>11, <1>12, <1>13 DEF Grown

\* Only the case that is written gets an event, at the end of the table.
LEMMA WriteAddsEvent ==
  ASSUME Tables, NEW s, NEW type, NEW seen, NEW id, NEW fingerprint,
         Advances(s, type, seen, id, fingerprint), Grown(s, type, seen, id)
  PROVE  /\ EventsOf(s.case)' = EventsOf(s.case) \cup {Len(audit) + 1}
         /\ \A c \in Case \ {s.case} : EventsOf(c)' = EventsOf(c)
<1>1. Len(audit) \in Nat /\ DOMAIN audit = 1..Len(audit)
  BY DEF Grown
<1>2. /\ s.case \in Case /\ DOMAIN audit' = 1..(Len(audit) + 1)
      /\ \A n \in 1..Len(audit) : audit'[n] = audit[n]
      /\ audit'[Len(audit) + 1].case = s.case
  BY DEF Grown
<1> DEFINE last == Len(audit) + 1
<1>3. last \notin 1..Len(audit) /\ DOMAIN audit' = 1..Len(audit) \cup {last}
  BY <1>1, <1>2
<1>4. \A c : {n \in DOMAIN audit' : audit'[n].case = c} =
              {n \in 1..Len(audit) : audit[n].case = c} \cup {n \in {last} : c = s.case}
  <2> SUFFICES ASSUME NEW c, NEW n
               PROVE  n \in DOMAIN audit' /\ audit'[n].case = c
                        <=> (n \in 1..Len(audit) /\ audit[n].case = c) \/ (n = last /\ c = s.case)
    OBVIOUS
  <2>1. audit'[last].case = s.case
    BY <1>2
  <2> HIDE DEF last
  <2>2. CASE n = last
    BY <2>1, <2>2, <1>3
  <2>3. CASE n # last
    BY <2>3, <1>2, <1>3
  <2> QED BY <2>2, <2>3
<1>5. \A c : EventsOf(c)' = EventsOf(c) \cup {n \in {last} : c = s.case}
  BY <1>1, <1>4 DEF EventsOf
<1> QED BY <1>5

LEMMA WriteKeepsTables ==
  ASSUME Tables, NEW s, NEW type, NEW seen, NEW id, NEW fingerprint,
         Advances(s, type, seen, id, fingerprint), Grown(s, type, seen, id),
         \A c \in Case : Chained(c),
         archives' \in [Case -> Archive \cup {None}]
  PROVE  Tables'
<1>1. \A c \in Case : Exists(c)' => cases'[c].case = c
  <2>1. /\ cases'[s.case] = s
        /\ \A c \in Case \ {s.case} : cases'[c] = cases[c]
    BY DEF Grown
  <2> QED BY <2>1 DEF Tables, Exists
<1>2. Len(audit) \in Nat /\ DOMAIN audit = 1..Len(audit)
  BY DEF Grown
<1>3. ChainHead(s.case) \in 0..Len(audit)
  BY HeadOfChain DEF Grown
<1>4. \A n \in DOMAIN audit' : /\ audit'[n].case \in Case /\ audit'[n].revision \in Nat
                               /\ audit'[n].previous \in 0..(n - 1)
  <2> TAKE n \in DOMAIN audit'
  <2>1. CASE n \in 1..Len(audit)
    BY <1>2, <2>1 DEF Grown, Tables
  <2>2. CASE n = Len(audit) + 1
    BY <1>2, <1>3, <2>2 DEF Grown
  <2> QED BY <1>2, <2>1, <2>2 DEF Grown
<1> QED BY <1>1, <1>4 DEF Grown, Tables

\* The chain of the case written grows by one event that follows its head.
LEMMA WriteKeepsChain ==
  ASSUME Tables, NEW s, NEW type, NEW seen, NEW id, NEW fingerprint,
         Advances(s, type, seen, id, fingerprint), Grown(s, type, seen, id), Chained(s.case)
  PROVE  Chained(s.case)'
<1> DEFINE c == s.case
           E == EventsOf(s.case)
           last == Len(audit) + 1
<1>1. /\ c \in Case /\ Exists(c)' /\ E' = E \cup {last}
      /\ cases'[c] = s /\ s.revision \in Nat
  BY WriteAddsEvent DEF Grown, Exists
<1>2. /\ E \in SUBSET Int /\ last \in Int
      /\ \A n \in E : 1 <= n /\ n < last
      /\ E \subseteq 1..Len(audit)
  BY <1>1, EventsAreSequences
<1>3. \A n \in E' : n <= last
  BY <1>1, <1>2
<1>4. Max(E') = last
  BY <1>1, <1>2, <1>3, MaxIs
<1>5. audit'[last].revision = s.revision /\ audit'[last].previous = ChainHead(c)
  BY DEF Grown
<1>6. \A n \in E : audit'[n] = audit[n] /\ audit[n].revision \in Nat
  BY <1>2, EventsAreSequences DEF Grown, Tables
<1>7. \A n \in E : {m \in E' : m < n} = {m \in E : m < n}
  BY <1>1, <1>2
<1>8. {m \in E' : m < last} = E
  BY <1>1, <1>2
<1>9. ChainHead(c) = Max({0} \cup E)
  <2>1. CASE E = {}
    <3>1. {0} \cup E \in SUBSET Int /\ 0 \in {0} \cup E /\ \A n \in {0} \cup E : n <= 0
      BY <2>1
    <3>2. Max({0} \cup E) = 0
      BY <3>1, MaxIs
    <3> QED BY <2>1, <3>2 DEF ChainHead
  <2>2. CASE E # {}
    <3>1. Exists(c)
      BY <2>2 DEF Chained
    <3>2. ChainHead(c) \in E /\ \A n \in E : n <= ChainHead(c)
      BY <1>1, <3>1, HeadOfChain
    <3>3. \A n \in {0} \cup E : n <= ChainHead(c)
      BY <1>2, <3>2
    <3>4. {0} \cup E \in SUBSET Int /\ ChainHead(c) \in {0} \cup E
      BY <1>2, <3>2
    <3>5. Max({0} \cup E) = ChainHead(c)
      <4> DEFINE head == ChainHead(c)
                 U == {0} \cup E
      <4>1. U \in SUBSET Int /\ head \in U /\ \A n \in U : n <= head
        BY <3>3, <3>4
      <4> HIDE DEF head, U
      <4>2. Max(U) = head
        BY <4>1, MaxIs
      <4> QED BY <4>2 DEF head, U
    <3> QED BY <3>5
  <2> QED BY <2>1, <2>2
<1>10. \A n \in E' : audit'[n].previous = Max({0} \cup {m \in E' : m < n})
  <2> TAKE n \in E'
  <2>1. CASE n \in E
    <3>1. Exists(c)
      BY <2>1 DEF Chained
    <3>2. audit[n].previous = Max({0} \cup {m \in E : m < n})
      BY <2>1, <3>1 DEF Chained, ChainHolds, ValidateChain
    <3> QED BY <1>6, <1>7, <2>1, <3>2
  <2>2. CASE n = last
    BY <1>5, <1>8, <1>9, <2>2
  <2> QED BY <1>1, <2>1, <2>2
<1>11. \A n \in E : audit[n].revision <= s.revision
  <2> TAKE n \in E
  <2>1. Exists(c) /\ audit[n].revision <= cases[c].revision /\ cases[c].revision \in Nat
    BY <1>1, EventsNotAhead
  <2>2. s.revision = cases[c].revision + 1
    BY <2>1 DEF Advances
  <2> QED BY <1>6, <2>1, <2>2
<1>12. \A m, n \in E' : m < n => audit'[m].revision <= audit'[n].revision
  <2> SUFFICES ASSUME NEW m \in E', NEW n \in E', m < n
               PROVE  audit'[m].revision <= audit'[n].revision
    OBVIOUS
  <2>1. m \in E
    BY <1>1, <1>2
  <2>2. CASE n \in E
    BY <1>6, <2>1, <2>2 DEF Chained, ChainHolds, ValidateChain
  <2>3. CASE n = last
    BY <1>5, <1>6, <1>11, <2>1, <2>3
  <2> QED BY <1>1, <2>2, <2>3
<1>13. ChainHolds(c)'
  <2>1. audit'[Max(E')].revision = cases'[c].revision /\ E' # {}
    BY <1>1, <1>4, <1>5
  <2> QED BY <1>10, <1>12, <2>1 DEF ChainHolds, ValidateChain
<1> QED BY <1>1, <1>3, <1>13 DEF Chained

LEMMA WriteKeepsOtherChains ==
  ASSUME Tables, NEW s, NEW type, NEW seen, NEW id, NEW fingerprint,
         Advances(s, type, seen, id, fingerprint), Grown(s, type, seen, id),
         NEW c \in Case \ {s.case}, Chained(c)
  PROVE  Chained(c)' /\ ChainHead(c)' = ChainHead(c)
<1>1. EventsOf(c)' = EventsOf(c) /\ cases'[c] = cases[c]
  BY WriteAddsEvent DEF Grown
<1>2. \A n \in EventsOf(c) : audit'[n] = audit[n]
  BY EventsAreSequences DEF Grown
<1>3. Exists(c)' <=> Exists(c)
  BY <1>1 DEF Exists
<1>4. ChainHead(c)' = ChainHead(c)
  BY <1>1 DEF ChainHead
<1>5. Exists(c) => ChainHolds(c)'
  <2> SUFFICES ASSUME Exists(c) PROVE ChainHolds(c)'
    OBVIOUS
  <2>1. Max(EventsOf(c)) \in EventsOf(c)
    BY HeadOfChain
  <2> QED BY <1>1, <1>2, <2>1 DEF Chained, ChainHolds, ValidateChain
<1> QED BY <1>1, <1>3, <1>4, <1>5 DEF Chained

\* Revisions grow by one; the head of a chain moves with the revision only.
LEMMA WriteRaises ==
  ASSUME Tables, NEW s, NEW type, NEW seen, NEW id, NEW fingerprint,
         Advances(s, type, seen, id, fingerprint), Grown(s, type, seen, id),
         \A d \in Case : Chained(d),
         NEW c \in Case, Exists(c)
  PROVE  /\ Exists(c)' /\ cases[c].revision \in Nat /\ cases'[c].revision \in Nat
         /\ cases[c].revision <= cases'[c].revision
         /\ cases'[c].revision = cases[c].revision =>
              /\ cases'[c] = cases[c] /\ ChainHead(c)' = ChainHead(c)
              /\ EventsOf(c)' = EventsOf(c)
<1>1. cases[c].revision \in Nat
  BY DEF Tables, Exists, Snapshot
<1>2. CASE c = s.case
  <2>1. cases'[c] = s /\ s # None /\ s.revision = cases[c].revision + 1
    BY <1>2 DEF Grown, Advances
  <2> QED BY <1>1, <2>1 DEF Exists
<1>3. CASE c # s.case
  <2>1. cases'[c] = cases[c] /\ c \in Case \ {s.case}
    BY <1>3 DEF Grown
  <2>2. ChainHead(c)' = ChainHead(c)
    BY <2>1, WriteKeepsOtherChains
  <2>3. EventsOf(c)' = EventsOf(c)
    BY <2>1, WriteAddsEvent
  <2> QED BY <1>1, <2>1, <2>2, <2>3 DEF Exists
<1> QED BY <1>2, <1>3

LEMMA WriteKeepsHeld ==
  ASSUME Tables, NEW s, NEW type, NEW seen, NEW id, NEW fingerprint,
         Advances(s, type, seen, id, fingerprint), Grown(s, type, seen, id),
         \A c \in Case : Chained(c),
         NEW t, Held(t)
  PROVE  Held(t)'
<1>1. PICK c \in Case : c = t.case
  BY DEF Held, Snapshot
<1>2. /\ Exists(c) /\ t.revision \in Nat /\ t.revision <= cases[c].revision
      /\ t.revision = cases[c].revision => t = cases[c]
  BY <1>1 DEF Held, Snapshot
<1>3. /\ Exists(c)' /\ cases[c].revision \in Nat /\ cases'[c].revision \in Nat
      /\ cases[c].revision <= cases'[c].revision
      /\ cases'[c].revision = cases[c].revision => cases'[c] = cases[c]
  BY <1>2, WriteRaises
<1>4. t.revision <= cases'[c].revision /\ (t.revision = cases'[c].revision => t = cases'[c])
  BY <1>2, <1>3
<1> QED BY <1>1, <1>3, <1>4 DEF Held

LEMMA WriteKeepsAnswered ==
  ASSUME NEW s, NEW type, NEW seen, NEW id, NEW fingerprint,
         Advances(s, type, seen, id, fingerprint), Grown(s, type, seen, id)
  PROVE  /\ Answered(s)'
         /\ \A t : Answered(t) => Answered(t)'
<1>1. id \in RequestIds /\ ~Committed(id) /\ Committed(id)' /\ idem'[id].response = s
  BY DEF Advances, Grown, Committed
<1>2. \A other \in RequestIds : Committed(other) => idem'[other] = idem[other]
  BY <1>1 DEF Grown
<1> QED BY <1>1, <1>2 DEF Answered, Committed

\* Events there were stay what they are.
LEMMA WriteKeepsEvents ==
  ASSUME Tables, NEW s, NEW type, NEW seen, NEW id, NEW fingerprint,
         Advances(s, type, seen, id, fingerprint), Grown(s, type, seen, id),
         NEW c \in Case, NEW n \in EventsOf(c)
  PROVE  n \in EventsOf(c)' /\ audit'[n] = audit[n]
<1>1. n \in EventsOf(c)'
  BY WriteAddsEvent
<1>2. audit'[n] = audit[n]
  BY EventsAreSequences DEF Grown
<1> QED BY <1>1, <1>2

LEMMA WriteKeepsAnswers ==
  ASSUME Tables, NEW s, NEW type, NEW seen, NEW id, NEW fingerprint,
         Advances(s, type, seen, id, fingerprint), Grown(s, type, seen, id),
         \A c \in Case : Chained(c),
         NEW other \in RequestIds, Remembered(other)
  PROVE  Remembered(other)'
<1>1. CASE other = id
  <2>1. idem'[id].response = s /\ cases'[s.case] = s /\ s # None /\ s \in Snapshot
    BY DEF Grown, Advances
  <2>2. Held(s)'
    BY <2>1 DEF Held, Exists, Snapshot
  <2>3. Own(s, other)'
    BY <1>1 DEF Advances, Own, IdsKeptApart
  <2> QED BY <1>1, <2>1, <2>2, <2>3 DEF Remembered
<1>2. CASE other # id
  <2>1. idem'[other] = idem[other]
    BY <1>2 DEF Grown
  <2> SUFFICES ASSUME Committed(other) PROVE Remembered(other)'
    BY <2>1 DEF Remembered, Committed
  <2>2. PICK t \in Snapshot : t = idem[other].response
    BY DEF Remembered, Held
  <2>3. Held(t)'
    BY <2>2, WriteKeepsHeld DEF Remembered
  <2>4. Own(t, other)'
    BY <2>2 DEF Remembered, Own, IdsKeptApart
  <2> QED BY <2>1, <2>2, <2>3, <2>4 DEF Remembered
<1> QED BY <1>1, <1>2

LEMMA WriteAddsWriter ==
  ASSUME Tables, NEW s, NEW type, NEW seen, NEW id, NEW fingerprint,
         Advances(s, type, seen, id, fingerprint), Grown(s, type, seen, id),
         NEW c, NEW n
  PROVE  Writers(c, n)' = Writers(c, n) \cup {w \in {id} : s.case = c /\ s.revision = n}
<1>1. \A other \in RequestIds \ {id} : idem'[other] = idem[other]
  BY DEF Grown
<1>2. id \in RequestIds /\ Committed(id)' /\ idem'[id].response = s /\ ~Committed(id)
  BY DEF Grown, Advances, Committed
<1> QED BY <1>1, <1>2 DEF Writers, Committed

LEMMA WriteKeepsRevisions ==
  ASSUME Tables, NEW s, NEW type, NEW seen, NEW id, NEW fingerprint,
         Advances(s, type, seen, id, fingerprint), Grown(s, type, seen, id),
         \A d \in Case : Chained(d) /\ Written(d),
         \A other \in RequestIds : Remembered(other)
  PROVE  \A c \in Case : Written(c)'
<1> SUFFICES ASSUME NEW c \in Case, NEW n \in Revisions(c)'
             PROVE  (\E w : Writers(c, n)' = {w}) /\ (\E e : Versions(c, n)' = {e})
  BY DEF Written
<1>1. Writers(c, n)' = Writers(c, n) \cup {w \in {id} : s.case = c /\ s.revision = n}
  BY WriteAddsWriter
<1>2. Len(audit) \in Nat /\ EventsOf(c) \subseteq 1..Len(audit)
  BY EventsAreSequences
<1>3. Versions(c, n)' =
        Versions(c, n) \cup {e \in {Len(audit) + 1} : s.case = c /\ s.revision = n}
  <2>1. EventsOf(c)' = EventsOf(c) \cup {e \in {Len(audit) + 1} : s.case = c}
    BY WriteAddsEvent
  <2>2. \A e \in EventsOf(c) : audit'[e] = audit[e]
    BY <1>2 DEF Grown
  <2>3. audit'[Len(audit) + 1].revision = s.revision
    BY DEF Grown
  <2> QED BY <2>1, <2>2, <2>3 DEF Versions
<1>4. ASSUME NEW w \in Writers(c, n) PROVE n \in Revisions(c)
  <2>1. PICK t \in Snapshot : t = idem[w].response
    BY <1>4 DEF Remembered, Held, Writers
  <2> QED BY <1>4, <2>1 DEF Remembered, Held, Writers, Revisions, Snapshot
<1>5. ASSUME NEW e \in Versions(c, n) PROVE n \in Revisions(c)
  <2>1. e \in EventsOf(c) /\ audit[e].revision = n
    BY <1>5 DEF Versions
  <2>2. Exists(c) /\ n <= cases[c].revision
    BY <2>1, EventsNotAhead
  <2> QED BY <2>2 DEF Revisions
<1>6. CASE s.case = c /\ s.revision = n
  <2>1. n \notin Revisions(c)
    BY <1>6 DEF Revisions, Advances, Tables, Exists, Snapshot
  <2>2. Writers(c, n) = {} /\ Versions(c, n) = {}
    BY <1>4, <1>5, <2>1
  <2> QED BY <1>1, <1>3, <1>6, <2>2
<1>7. CASE ~(s.case = c /\ s.revision = n)
  <2>1. Writers(c, n)' = Writers(c, n) /\ Versions(c, n)' = Versions(c, n)
    BY <1>1, <1>3, <1>7
  <2>2. n \in Revisions(c)
    <3>1. CASE c = s.case
      BY <1>7, <3>1 DEF Revisions, Grown, Advances, Exists, Tables, Snapshot
    <3>2. CASE c # s.case
      <4>1. cases'[c] = cases[c]
        BY <3>2 DEF Grown
      <4>2. Revisions(c)' = Revisions(c)
        BY <4>1 DEF Revisions, Exists
      <4> QED BY <4>2
    <3> QED BY <3>1, <3>2
  <2>3. (\E w : Writers(c, n) = {w}) /\ (\E e : Versions(c, n) = {e})
    <3>1. Written(c)
      OBVIOUS
    <3> QED BY <2>2, <3>1 DEF Written
  <2> QED BY <2>1, <2>3, Zenon
<1> QED BY <1>6, <1>7

\* What other handlers have read stays true: it is of the past, or about the case
\* being at a revision that a commit of it leaves behind.
LEMMA WriteKeepsRun ==
  ASSUME Tables, NEW s, NEW type, NEW seen, NEW id, NEW fingerprint,
         Advances(s, type, seen, id, fingerprint), Grown(s, type, seen, id),
         \A c \in Case : Chained(c),
         NEW h \in Handler, run'[h] = run[h], RunOk(h)
  PROVE  RunOk(h)'
<1>1. ASSUME NEW c \in Case, NEW n \in EventsOf(c)
      PROVE  n \in EventsOf(c)' /\ audit'[n] = audit[n]
  BY WriteKeepsEvents
<1>2. ASSUME NEW r \in Request, r.op # "create" PROVE r.case \in Case
  BY <1>2, ServiceAssumption
<1>3. ASSUME NEW r \in Request, NEW read, r.op # "create", ReadOk(r, read)
      PROVE  ReadOk(r, read)'
  BY <1>1, <1>2, <1>3 DEF ReadOk
<1>4. ASSUME NEW r \in Request, NEW x, Taken(r, x) PROVE Taken(r, x)'
  <2>1. Held(x)'
    BY <1>4, WriteKeepsHeld DEF Taken
  <2>2. Answered(x)'
    BY <1>4, WriteKeepsAnswered DEF Taken
  <2> QED BY <1>4, <2>1, <2>2 DEF Taken, IdsKeptApart
<1>5. CASE run[h] = Idle
  BY <1>5 DEF RunOk
<1>6. ASSUME NEW r \in Request,
             run[h] = [at |-> "prefetch", req |-> r, seen |-> None],
             r.op \in {"correct", "release", "return"}
      PROVE  RunOk(h)'
  BY <1>6 DEF RunOk
<1>7. ASSUME NEW r \in Request, NEW read,
             run[h] = [at |-> "prefetchEvents", req |-> r, seen |-> read],
             r.op \in {"release", "return"}, ReadOk(r, read)
      PROVE  RunOk(h)'
  <2>1. ReadOk(r, read)'
    BY <1>3, <1>7
  <2> QED BY <1>7, <2>1 DEF RunOk
<1>8. ASSUME NEW r \in Request, NEW read,
             run[h] = [at |-> "apply", req |-> r, seen |-> read], AtApply(r, read)
      PROVE  RunOk(h)'
  <2>1. r.op \in {"correct", "release", "return"} => ReadOk(r, read)'
    BY <1>3, <1>8 DEF AtApply
  <2>2. r.op \in {"release", "return"} => HeadOk(r, read)'
    BY <1>1, <1>2, <1>8 DEF AtApply, HeadOk
  <2>3. AtApply(r, read)'
    BY <2>1, <2>2 DEF AtApply
  <2> QED BY <1>8, <2>3 DEF RunOk
<1>9. ASSUME NEW r \in Request, NEW c,
             run[h] = [at |-> "events", req |-> r, case |-> c], Taken(r, c)
      PROVE  RunOk(h)'
  <2>1. Taken(r, c)'
    BY <1>4, <1>9
  <2> QED BY <1>9, <2>1 DEF RunOk
<1>10. ASSUME NEW r \in Request, NEW c, NEW a,
              run[h] = [at |-> "freeze", req |-> r, case |-> c, archive |-> a],
              AtFreeze(r, c, a)
       PROVE  RunOk(h)'
  <2>1. AtFreeze(r, c, a)'
    <3>1. c.case \in Case /\ c.revision \in Nat /\ Exists(c.case)
          /\ c.revision <= cases[c.case].revision
      BY <1>10 DEF AtFreeze, Taken, Held, Snapshot
    <3>2. c.revision = cases'[c.case].revision =>
            c.revision = cases[c.case].revision /\ EventsOf(c.case)' = EventsOf(c.case)
      BY <3>1, WriteRaises
    <3>3. Taken(r, c)'
      BY <1>4, <1>10 DEF AtFreeze
    <3> QED BY <1>10, <3>2, <3>3 DEF AtFreeze
  <2> QED BY <1>10, <2>1 DEF RunOk
<1>11. ASSUME NEW r \in Request, NEW c, NEW outcome,
              run[h] = [at |-> "reply", req |-> r, case |-> c, outcome |-> outcome]
       PROVE  RunOk(h)'
  BY <1>11 DEF RunOk
<1> QED BY <1>5, <1>6, <1>7, <1>8, <1>9, <1>10, <1>11 DEF RunOk

LEMMA WriteKeepsOtherArchives ==
  ASSUME Tables, NEW s, NEW type, NEW seen, NEW id, NEW fingerprint,
         Advances(s, type, seen, id, fingerprint), Grown(s, type, seen, id),
         NEW c \in Case \ {s.case}, Chained(c), Frozen(c), HistoryOf(c),
         archives'[c] = archives[c]
  PROVE  Frozen(c)' /\ HistoryOf(c)'
<1>1. /\ cases'[c] = cases[c] /\ EventsOf(c)' = EventsOf(c) /\ ChainHead(c)' = ChainHead(c)
  BY WriteAddsEvent, WriteKeepsOtherChains DEF Grown
<1>2. Frozen(c)'
  BY <1>1 DEF Frozen, Exists
<1>3. ASSUME archives[c] # None PROVE audit'[ChainHead(c)] = audit[ChainHead(c)]
  <2>1. ChainHead(c) \in EventsOf(c)
    BY <1>3, HeadOfChain DEF Frozen
  <2> QED BY <2>1, EventsAreSequences DEF Grown
<1>4. archives[c] # None => Answered(archives[c].case)'
  BY WriteKeepsAnswered DEF HistoryOf
<1>5. HistoryOf(c)'
  BY <1>1, <1>3, <1>4 DEF HistoryOf, IdsKeptApart
<1> QED BY <1>2, <1>5

\* A commit other than the freezing leaves archives and archived cases alone.
LEMMA CommitKeepsArchives ==
  ASSUME Tables, NEW s, NEW type, NEW seen, NEW id, NEW fingerprint,
         Advances(s, type, seen, id, fingerprint), Grown(s, type, seen, id),
         \A c \in Case : Chained(c) /\ Frozen(c) /\ HistoryOf(c),
         archives' = archives, s.state # "archived",
         Exists(s.case) => cases[s.case].state # "archived"
  PROVE  \A c \in Case : Frozen(c)' /\ HistoryOf(c)'
<1> TAKE c \in Case
<1>1. CASE c = s.case
  BY <1>1 DEF Frozen, HistoryOf, Grown, Exists
<1>2. CASE c # s.case
  BY <1>2, WriteKeepsOtherArchives
<1> QED BY <1>1, <1>2

\* The freezing: the archive was built while its snapshot was current.
LEMMA FreezeKeepsArchives ==
  ASSUME Tables, NEW s, NEW seen, NEW id, NEW fingerprint, NEW a,
         Advances(s, "archive", seen, id, fingerprint), Grown(s, "archive", seen, id),
         \A c \in Case : Chained(c) /\ Frozen(c) /\ HistoryOf(c),
         archives' = [archives EXCEPT ![s.case] = a], a # None,
         s.state = "archived", Exists(s.case), cases[s.case].state = "released",
         a.case.state = "released", a.case.revision = cases[s.case].revision,
         Answered(a.case), IdsKeptApart => a.case.case = s.case,
         a.case.case = s.case => a.events = EventsOf(s.case)
  PROVE  \A c \in Case : Frozen(c)' /\ HistoryOf(c)'
<1> TAKE c \in Case
<1>1. CASE c = s.case
  <2>1. archives'[c] = a /\ cases'[c] = s /\ s # None
    BY <1>1 DEF Tables, Grown
  <2>2. Len(audit) \in Nat /\ EventsOf(c) \subseteq 1..Len(audit)
    BY EventsAreSequences
  <2>3. EventsOf(c)' = EventsOf(c) \cup {Len(audit) + 1}
    BY <1>1, WriteAddsEvent
  <2>4. ChainHead(c)' = Len(audit) + 1
    <3> DEFINE E == EventsOf(c) \cup {Len(audit) + 1}
    <3>1. /\ E \in SUBSET Int /\ Len(audit) + 1 \in E
          /\ \A n \in E : n <= Len(audit) + 1
      BY <2>2
    <3>2. Max(E) = Len(audit) + 1
      BY <3>1, MaxIs
    <3> QED BY <2>3, <3>1, <3>2 DEF ChainHead
  <2>5. a.case.case = c => a.events = EventsOf(c)' \ {ChainHead(c)'}
    BY <1>1, <2>2, <2>3, <2>4
  <2>6. a.case.case = c => Max(a.events) = ChainHead(c)
    BY <1>1, HeadOfChain
  <2>7. a.case.revision = s.revision - 1
    BY <1>1 DEF Tables, Advances, Exists, Snapshot
  <2>8. /\ audit'[ChainHead(c)'].type = "archive"
        /\ audit'[ChainHead(c)'].previous = ChainHead(c)
    BY <1>1, <2>4 DEF Grown
  <2>9. Frozen(c)'
    BY <2>1 DEF Frozen, Exists
  <2>10. Answered(a.case)'
    BY WriteKeepsAnswered
  <2>11. HistoryOf(c)'
    <3>1. a.case.state = "released" /\ cases'[c].revision = s.revision
      BY <1>1, <2>1
    <3>2. IdsKeptApart' => a.case.case = c
      BY <1>1 DEF IdsKeptApart
    <3> QED BY <2>1, <2>5, <2>6, <2>7, <2>8, <2>10, <3>1, <3>2 DEF HistoryOf
  <2> QED BY <2>9, <2>11
<1>2. CASE c # s.case
  <2>1. archives'[c] = archives[c]
    BY <1>2 DEF Tables
  <2> QED BY <1>2, <2>1, WriteKeepsOtherArchives
<1> QED BY <1>1, <1>2

-----------------------------------------------------------------------------
(* Every step keeps the invariant.                                         *)

\* What PrefetchWasBefore asks of one event.
WasBefore(n) ==
  LET e == audit[n] IN
  /\ e.type \in {"correct", "release", "return"} =>
       \E m \in EventsOf(e.case) : m <= e.previous /\ audit[m].revision = e.seen.revision
  /\ e.type \in {"release", "return"} =>
       /\ e.seen.head \in EventsOf(e.case) /\ e.seen.head <= e.previous
       /\ audit[e.seen.head].revision >= e.seen.revision

\* The same, before the commit.
ReadWasBefore(s, type, seen) ==
  /\ type \in {"correct", "release", "return"} =>
       \E m \in EventsOf(s.case) : audit[m].revision = seen.revision
  /\ type \in {"release", "return"} =>
       seen.head \in EventsOf(s.case) /\ audit[seen.head].revision >= seen.revision

\* A step that writes: what it writes follows the state before, and no archive
\* there was is touched.
Grows ==
  \E s, type, seen, id, fingerprint :
    /\ Advances(s, type, seen, id, fingerprint)
    /\ ~Exists(s.case) => s.state = "draft"
    /\ Exists(s.case) => <<cases[s.case].state, s.state>> \in Ledger!Moves
    /\ \A c \in Case : archives[c] # None => archives'[c] = archives[c]

LEMMA WriteStep ==
  ASSUME Service, NEW s, NEW type, NEW seen, NEW id, NEW fingerprint,
         Advances(s, type, seen, id, fingerprint), ReadWasBefore(s, type, seen),
         archives' \in [Case -> Archive \cup {None}],
         \A c \in Case : Frozen(c)' /\ HistoryOf(c)',
         NEW h \in Handler, NEW next, Goto(h, next), RunOk(h)',
         up, UNCHANGED <<up, faults>>
  PROVE  Service'
<1>1. Tables /\ \A c \in Case : Chained(c)
  BY DEF Service
<1>2. Grown(s, type, seen, id)
  BY <1>1, WriteGrows
<1>3. Tables'
  BY <1>1, <1>2, WriteKeepsTables
<1>4. \A other \in RequestIds : Remembered(other)'
  BY <1>1, <1>2, WriteKeepsAnswers DEF Service
<1>5. \A c \in Case : Written(c)'
  BY <1>1, <1>2, WriteKeepsRevisions DEF Service
<1>6. \A c \in Case : Chained(c)'
  <2> TAKE c \in Case
  <2>1. CASE c = s.case
    BY <1>1, <1>2, <2>1, WriteKeepsChain
  <2>2. CASE c # s.case
    BY <1>1, <1>2, <2>2, WriteKeepsOtherChains
  <2> QED BY <2>1, <2>2
<1>7. Runs'
  <2>1. PICK R : run \in [Handler -> R]
    BY DEF Service, Runs
  <2>2. /\ run' \in [Handler -> R \cup {next}]
        /\ \A other \in Handler \ {h} : run'[other] = run[other]
    BY <2>1 DEF Goto
  <2>3. \A other \in Handler : RunOk(other)'
    <3> TAKE other \in Handler
    <3>1. CASE other = h
      BY <3>1
    <3>2. CASE other # h
      BY <1>1, <1>2, <2>2, <3>2, WriteKeepsRun DEF Service, Runs
    <3> QED BY <3>1, <3>2
  <2> QED BY <2>2, <2>3 DEF Runs
<1>8. Switch'
  BY DEF Service, Switch
<1>9. PrefetchWasBefore'
  <2>1. Len(audit) \in Nat /\ DOMAIN audit = 1..Len(audit) /\ DOMAIN audit' = 1..(Len(audit) + 1)
    BY <1>2 DEF Grown
  <2>2. ASSUME NEW n \in 1..Len(audit) PROVE WasBefore(n)'
    <3>1. WasBefore(n) /\ audit'[n] = audit[n] /\ audit[n].case \in Case
      BY <1>1, <1>2, <2>1 DEF Service, PrefetchWasBefore, WasBefore, Tables, Grown
    <3>2. \A m \in EventsOf(audit[n].case) :
            m \in EventsOf(audit[n].case)' /\ audit'[m] = audit[m]
      BY <1>1, <1>2, <3>1, WriteKeepsEvents
    <3> QED BY <3>1, <3>2 DEF WasBefore
  <2>3. PICK k : k = Len(audit) + 1
    OBVIOUS
  <2>4. WasBefore(k)'
    <3>1. /\ audit'[k].case = s.case /\ audit'[k].type = type /\ audit'[k].seen = seen
          /\ audit'[k].previous = ChainHead(s.case) /\ s.case \in Case
      BY <1>2, <2>3 DEF Grown
    <3>2. \A m \in EventsOf(s.case) :
            m <= ChainHead(s.case) /\ m \in EventsOf(s.case)' /\ audit'[m] = audit[m]
      <4> TAKE m \in EventsOf(s.case)
      <4>1. Exists(s.case)
        BY <1>1, <3>1 DEF Chained
      <4> QED BY <1>1, <1>2, <3>1, <4>1, HeadOfChain, WriteKeepsEvents
    <3> QED BY <3>1, <3>2 DEF ReadWasBefore, WasBefore
  <2>5. \A n \in 1..(Len(audit) + 1) : WasBefore(n)'
    <3>1. ASSUME NEW n \in 1..(Len(audit) + 1) PROVE n \in 1..Len(audit) \/ n = k
      BY <2>1, <2>3
    <3> QED BY <2>2, <2>4, <3>1
  <2> QED BY <2>1, <2>5 DEF PrefetchWasBefore, WasBefore
<1> QED BY <1>3, <1>4, <1>5, <1>6, <1>7, <1>8, <1>9 DEF Service

\* A step that changes no table: one handler moves on, or all stop.
LEMMA ReadStep ==
  ASSUME Service, UNCHANGED tables, Switch', Runs'
  PROVE  Service'
<1>1. Tables'
  BY DEF Service, Tables, tables, Exists, Committed
<1>2. \A id \in RequestIds : Remembered(id)'
  BY DEF Service, Remembered, Held, Own, IdsKeptApart, tables, Exists, Committed
<1>3. \A c \in Case : /\ Exists(c)' <=> Exists(c)
                     /\ EventsOf(c)' = EventsOf(c) /\ ChainHead(c)' = ChainHead(c)
  BY DEF tables, Exists, EventsOf, ChainHead
<1>4. \A c \in Case : Chained(c)'
  BY <1>3 DEF Service, Chained, ChainHolds, ValidateChain, tables
<1>5. \A c \in Case : Written(c)'
  <2> SUFFICES ASSUME NEW c \in Case PROVE Written(c)'
    OBVIOUS
  <2>1. Revisions(c)' = Revisions(c)
    BY <1>3 DEF Revisions, tables
  <2>2. \A n : Writers(c, n)' = Writers(c, n) /\ Versions(c, n)' = Versions(c, n)
    BY <1>3 DEF Writers, Versions, Committed, tables
  <2>3. Written(c)
    BY DEF Service
  <2> QED BY <2>1, <2>2, <2>3 DEF Written
<1>6. \A c \in Case : Frozen(c)' /\ HistoryOf(c)'
  BY <1>3 DEF Service, Frozen, HistoryOf, Answered, Committed, IdsKeptApart, tables
<1>7. PrefetchWasBefore'
  BY DEF Service, PrefetchWasBefore, EventsOf, tables
<1> QED BY <1>1, <1>2, <1>4, <1>5, <1>6, <1>7 DEF Service

\* Mutators keep the snapshot well formed, and none but the freezing archives.
LEMMA MutatedIs ==
  ASSUME NEW s \in Snapshot, NEW op, NEW to \in Effects(op, s.state)
  PROVE  /\ Mutated(s, op, to) \in Snapshot
         /\ Mutated(s, op, to).case = s.case
         /\ Mutated(s, op, to).revision = s.revision + 1
         /\ Mutated(s, op, to).state # "archived"
         /\ <<s.state, Mutated(s, op, to).state>> \in Ledger!Moves
<1>1. to \in States \ {"archived"} /\ <<s.state, to>> \in Ledger!Moves
  BY DEF Effects, States, Ledger!Moves
<1>2. PICK verdict \in {"none", "failed", "passed"} :
        Mutated(s, op, to) = [s EXCEPT !.state = to, !.revision = @ + 1, !.verdict = verdict]
  BY DEF Mutated, Snapshot
<1>3. s = [case |-> s.case, state |-> s.state, revision |-> s.revision, verdict |-> s.verdict]
  BY DEF Snapshot
<1>4. Mutated(s, op, to) =
        [case |-> s.case, state |-> to, revision |-> s.revision + 1, verdict |-> verdict]
  BY <1>2, <1>3
<1>5. s.case \in Case /\ s.revision + 1 \in Nat \ {0}
  BY DEF Snapshot
<1> QED BY <1>1, <1>4, <1>5 DEF Snapshot

LEMMA ApplyStage ==
  ASSUME Service, NEW h \in Handler, run[h].at = "apply"
  PROVE  \E r \in Request : \E seen : run[h].req = r /\ run[h].seen = seen /\ AtApply(r, seen)
BY DEF Service, Runs, RunOk, Idle

\* A release goes on with the snapshot it was answered, unless it was archived.
LEMMA AfterApplyOk ==
  ASSUME NEW h, NEW r \in Request, NEW outcome, NEW s,
         run'[h] = AfterApply(r, outcome, s), Held(s)', Answered(s)',
         r.op = "release" /\ ~(outcome = "replayed" /\ s.state = "archived") =>
           (IdsKeptApart => s.case = r.case)
  PROVE  RunOk(h)'
<1>1. CASE r.op = "release" /\ ~(outcome = "replayed" /\ s.state = "archived")
  <2>1. Taken(r, s)'
    BY <1>1 DEF Taken, IdsKeptApart
  <2> QED BY <1>1, <2>1 DEF AfterApply, RunOk
<1>2. CASE ~(r.op = "release" /\ ~(outcome = "replayed" /\ s.state = "archived"))
  BY <1>2 DEF AfterApply, RunOk
<1> QED BY <1>1, <1>2

LEMMA CreateStep ==
  ASSUME Service, NEW h \in Handler, ApplyCreate(h), up
  PROVE  Service' /\ Grows
<1>1. PICK r \in Request : run[h].req = r
  BY ApplyStage DEF ApplyCreate
<1>2. PICK c \in Case :
        /\ ~Exists(c)
        /\ Write([case |-> c, state |-> "draft", revision |-> 1, verdict |-> "none"],
                 "create", None, r.id, r.body)
        /\ Goto(h, AfterApply(r, "ok", [case |-> c, state |-> "draft", revision |-> 1,
                                        verdict |-> "none"]))
  BY <1>1 DEF ApplyCreate
<1> DEFINE s == [case |-> c, state |-> "draft", revision |-> 1, verdict |-> "none"]
<1>3. r.op = "create" /\ Lookup(r.id, r.body) = "new" /\ UNCHANGED <<archives, up, faults>>
  BY <1>1 DEF ApplyCreate
<1>4. s \in Snapshot /\ s.case = c /\ s.revision = 1 /\ s.state = "draft"
  BY DEF Snapshot, States
<1>5. r.id \in RequestIds /\ ~Committed(r.id) /\ r.body \in Bodies
  BY <1>3 DEF RequestIds, Lookup, Committed, Bodies
<1>6. Advances(s, "create", None, r.id, r.body)
  <2>1. Own(s, r.id)
    BY <1>3 DEF Own, IdsKeptApart
  <2> QED BY <1>2, <1>4, <1>5, <2>1 DEF Advances, Answer
<1>7. run'[h] = AfterApply(r, "ok", s)
  BY <1>2 DEF Service, Runs, Goto
<1>8. RunOk(h)'
  BY <1>3, <1>7 DEF RunOk, AfterApply
<1>9. \A d \in Case : Frozen(d)' /\ HistoryOf(d)'
  <2> HIDE DEF s
  <2>1. Grown(s, "create", None, r.id)
    BY <1>6, WriteGrows DEF Service
  <2>2. s.state # "archived" /\ ~Exists(s.case) /\ archives' = archives
    BY <1>2, <1>3, <1>4
  <2> QED BY <1>6, <2>1, <2>2, CommitKeepsArchives DEF Service
<1>10. archives' \in [Case -> Archive \cup {None}]
  BY <1>3 DEF Service, Tables
<1>11. ReadWasBefore(s, "create", None) /\ Goto(h, AfterApply(r, "ok", s))
  BY <1>2 DEF ReadWasBefore
<1>12. Grows
  BY <1>2, <1>3, <1>4, <1>6 DEF Grows
<1> HIDE DEF s
<1> QED BY <1>3, <1>6, <1>8, <1>9, <1>10, <1>11, <1>12, WriteStep

LEMMA CommitStep ==
  ASSUME Service, NEW h \in Handler, ApplyCommit(h), up
  PROVE  Service' /\ Grows
<1>1. PICK r \in Request : \E read : run[h].req = r /\ run[h].seen = read /\ AtApply(r, read)
  BY ApplyStage DEF ApplyCommit
<1>2. PICK read : run[h].seen = read /\ AtApply(r, read)
  BY <1>1
<1>3. /\ r.op # "create" /\ Lookup(r.id, r.body) = "new"
      /\ Refusal(r.case, r.expected) = "none" /\ UNCHANGED <<archives, up, faults>>
  BY <1>1 DEF ApplyCommit
<1>4. PICK old \in Snapshot : old = cases[r.case] /\ Exists(r.case) /\ r.case \in Case
  BY <1>3, ServiceAssumption DEF Refusal, Service, Tables, Exists
<1>5. old.case = r.case /\ old.state # "archived" /\ old.revision = r.expected
  BY <1>3, <1>4 DEF Refusal, Service, Tables
<1>6. PICK s : /\ \E to \in Effects(r.op, old.state) : s = Mutated(old, r.op, to)
               /\ Write(s, r.op, read, r.id, r.body)
               /\ Goto(h, AfterApply(r, "ok", s))
  BY <1>1, <1>2, <1>4 DEF ApplyCommit
<1>7. /\ s \in Snapshot /\ s.case = r.case /\ s.revision = old.revision + 1
      /\ s.state # "archived" /\ <<old.state, s.state>> \in Ledger!Moves
  BY <1>5, <1>6, MutatedIs
<1>8. r.id \in RequestIds /\ ~Committed(r.id) /\ r.body \in Bodies
  BY <1>3 DEF RequestIds, Lookup, Committed, Bodies
<1>9. Advances(s, r.op, read, r.id, r.body)
  <2>1. Own(s, r.id)
    BY <1>7 DEF Own, IdsKeptApart
  <2> QED BY <1>4, <1>6, <1>7, <1>8, <2>1 DEF Advances, Answer
<1>10. Grown(s, r.op, read, r.id)
  BY <1>9, WriteGrows DEF Service
<1>11. RunOk(h)'
  <2>1. run'[h] = AfterApply(r, "ok", s)
    BY <1>6 DEF Service, Runs, Goto
  <2>2. Held(s)'
    BY <1>7, <1>10 DEF Held, Grown, Exists
  <2>3. Answered(s)'
    BY <1>9, <1>10, WriteKeepsAnswered
  <2> QED BY <1>7, <2>1, <2>2, <2>3, AfterApplyOk
<1>12. \A c \in Case : Frozen(c)' /\ HistoryOf(c)'
  <2>1. archives' = archives /\ (Exists(s.case) => cases[s.case].state # "archived")
    BY <1>3, <1>4, <1>5, <1>7
  <2> QED BY <1>7, <1>9, <1>10, <2>1, CommitKeepsArchives DEF Service
<1>13. archives' \in [Case -> Archive \cup {None}]
  BY <1>3 DEF Service, Tables
<1>14. ReadWasBefore(s, r.op, read)
  BY <1>2, <1>7 DEF ReadWasBefore, AtApply, ReadOk, HeadOk
<1>15. Grows
  BY <1>3, <1>4, <1>7, <1>9 DEF Grows
<1> QED BY <1>3, <1>6, <1>9, <1>11, <1>12, <1>13, <1>14, <1>15, WriteStep

LEMMA FreezeStage ==
  ASSUME Service, NEW h \in Handler, run[h].at = "freeze"
  PROVE  \E r \in Request : \E c, a :
           run[h].req = r /\ run[h].case = c /\ run[h].archive = a /\ AtFreeze(r, c, a)
BY DEF Service, Runs, RunOk, Idle

LEMMA FreezeStep ==
  ASSUME Service, NEW h \in Handler, Freeze(h), up
  PROVE  Service' /\ Grows
<1>1. PICK r \in Request : \E taken, a :
        run[h].req = r /\ run[h].case = taken /\ run[h].archive = a /\ AtFreeze(r, taken, a)
  BY FreezeStage DEF Freeze
<1>2. PICK taken, a : run[h].case = taken /\ run[h].archive = a /\ AtFreeze(r, taken, a)
  BY <1>1
<1>3. PICK c \in Case : c = r.case
  BY <1>2, ServiceAssumption DEF AtFreeze, Taken
<1>4. /\ Lookup(ArchiveId[r.id], FreezePrint(h)) = "new"
      /\ FreezeRefusal(h) = "none" /\ UNCHANGED <<up, faults>>
      /\ archives' = [archives EXCEPT ![c] = a]
  BY <1>1, <1>2, <1>3 DEF Freeze, FreezeLookup
<1>5. Exists(c) /\ cases[c].revision = taken.revision /\ cases[c].state = "released"
  BY <1>1, <1>2, <1>3, <1>4 DEF FreezeRefusal, Refusal
<1>6. PICK old \in Snapshot : old = cases[c] /\ old.case = c
  BY <1>5 DEF Service, Tables, Exists
<1>7. PICK s : s = [cases[c] EXCEPT !.state = "archived", !.revision = @ + 1]
  OBVIOUS
<1>8. s \in Snapshot /\ s.case = c /\ s.revision = old.revision + 1 /\ s.state = "archived"
  <2>1. old = [case |-> c, state |-> old.state, revision |-> old.revision, verdict |-> old.verdict]
    BY <1>6 DEF Snapshot
  <2>2. s = [old EXCEPT !.state = "archived", !.revision = @ + 1]
    BY <1>6, <1>7
  <2>3. PICK rev \in Nat \ {0}, v \in {"none", "failed", "passed"} :
          rev = old.revision /\ v = old.verdict
    BY DEF Snapshot
  <2>4. PICK mid : mid = [old EXCEPT !.state = "archived"]
    OBVIOUS
  <2>5. mid = [case |-> c, state |-> "archived", revision |-> rev, verdict |-> v]
    BY <2>1, <2>3, <2>4
  <2>6. s = [mid EXCEPT !.revision = rev + 1]
    BY <2>2, <2>3, <2>4
  <2>7. s = [case |-> c, state |-> "archived", revision |-> rev + 1, verdict |-> v]
    BY <2>5, <2>6
  <2> QED BY <1>6, <2>3, <2>7 DEF Snapshot, States
<1>9. /\ Write(s, "archive", None, ArchiveId[r.id], FreezePrint(h))
      /\ Goto(h, [at |-> "reply", req |-> r, case |-> s, outcome |-> "ok"])
  BY <1>1, <1>3, <1>7 DEF Freeze
<1>10. PICK print : print = FreezePrint(h)
  OBVIOUS
<1>11. print \in [command : Bodies, manifest : Archive]
  BY <1>1, <1>2, <1>10 DEF FreezePrint, Bodies, AtFreeze
<1>12. ArchiveId[r.id] \in RequestIds /\ ~Committed(ArchiveId[r.id])
  BY <1>4 DEF RequestIds, Lookup, Committed
<1>13. Advances(s, "archive", None, ArchiveId[r.id], print)
  <2>1. Own(s, ArchiveId[r.id])
    BY <1>8 DEF Own
  <2> QED BY <1>5, <1>6, <1>8, <1>9, <1>10, <1>11, <1>12, <2>1 DEF Advances, Answer
<1>14. Grown(s, "archive", None, ArchiveId[r.id])
  BY <1>13, WriteGrows DEF Service
<1>15. /\ a \in Archive /\ a # None /\ a.case = taken /\ a.case.state = "released"
       /\ Answered(a.case) /\ (IdsKeptApart => a.case.case = c)
       /\ a.case.case = c => a.events = EventsOf(c)
  BY <1>2, <1>3, <1>5, ServiceAssumption DEF AtFreeze, Taken
<1>16. \A d \in Case : Frozen(d)' /\ HistoryOf(d)'
  <2>1. archives' = [archives EXCEPT ![s.case] = a] /\ Exists(s.case)
    BY <1>4, <1>5, <1>8
  <2>2. /\ cases[s.case].state = "released" /\ a.case.revision = cases[s.case].revision
        /\ (IdsKeptApart => a.case.case = s.case)
        /\ a.case.case = s.case => a.events = EventsOf(s.case)
    BY <1>5, <1>8, <1>15
  <2> QED BY <1>8, <1>13, <1>14, <1>15, <2>1, <2>2, FreezeKeepsArchives DEF Service
<1>17. archives' \in [Case -> Archive \cup {None}]
  BY <1>4, <1>15 DEF Service, Tables
<1>18. RunOk(h)'
  <2>1. run'[h] = [at |-> "reply", req |-> r, case |-> s, outcome |-> "ok"]
    BY <1>9 DEF Service, Runs, Goto
  <2> QED BY <2>1 DEF RunOk
<1>19. ReadWasBefore(s, "archive", None)
  BY DEF ReadWasBefore
<1>20. Grows
  <2>1. archives[c] = None
    BY <1>5 DEF Service, Frozen
  <2>2. \A d \in Case : archives[d] # None => archives'[d] = archives[d]
    BY <1>4, <2>1 DEF Service, Tables
  <2>3. <<cases[s.case].state, s.state>> \in Ledger!Moves
    BY <1>5, <1>8 DEF Ledger!Moves
  <2> QED BY <1>5, <1>8, <1>13, <2>2, <2>3 DEF Grows
<1> QED BY <1>4, <1>9, <1>10, <1>13, <1>16, <1>17, <1>18, <1>19, <1>20, WriteStep

\* What a handler read stays as true as it was while no table changes.
LEMMA CaseKept ==
  ASSUME UNCHANGED tables, NEW c
  PROVE  /\ Exists(c)' <=> Exists(c)
         /\ EventsOf(c)' = EventsOf(c) /\ ChainHead(c)' = ChainHead(c)
BY DEF tables, Exists, EventsOf, ChainHead

LEMMA ApplyKept ==
  ASSUME UNCHANGED tables, NEW r, NEW seen
  PROVE  /\ ReadOk(r, seen)' <=> ReadOk(r, seen)
         /\ AtApply(r, seen)' <=> AtApply(r, seen)
BY DEF tables, ReadOk, HeadOk, AtApply, EventsOf

LEMMA HeldKept ==
  ASSUME UNCHANGED tables, NEW s
  PROVE  /\ Held(s)' <=> Held(s)
         /\ Answered(s)' <=> Answered(s)
         /\ \A r \in Request : Taken(r, s)' <=> Taken(r, s)
<1>1. Held(s)' <=> Held(s)
  BY DEF tables, Held, Exists
<1>2. Answered(s)' <=> Answered(s)
  BY DEF tables, Answered, Committed
<1>3. IdsKeptApart' <=> IdsKeptApart
  BY DEF IdsKeptApart
<1> QED BY <1>1, <1>2, <1>3 DEF Taken

LEMMA FreezeKept ==
  ASSUME UNCHANGED tables, NEW r \in Request, NEW s, NEW a
  PROVE  AtFreeze(r, s, a)' <=> AtFreeze(r, s, a)
<1>1. Taken(r, s)' <=> Taken(r, s)
  BY HeldKept
<1> QED BY <1>1 DEF tables, AtFreeze, EventsOf

LEMMA RunKept ==
  ASSUME UNCHANGED tables, NEW h, run'[h] = run[h], RunOk(h)
  PROVE  RunOk(h)'
<1>1. CASE \/ run[h] = Idle
           \/ \E r \in Request :
                /\ run[h] = [at |-> "prefetch", req |-> r, seen |-> None]
                /\ r.op \in {"correct", "release", "return"}
           \/ \E r \in Request : \E c, outcome :
                run[h] = [at |-> "reply", req |-> r, case |-> c, outcome |-> outcome]
  BY <1>1 DEF RunOk
<1>2. ASSUME NEW r \in Request, NEW seen,
             run[h] = [at |-> "prefetchEvents", req |-> r, seen |-> seen],
             r.op \in {"release", "return"}, ReadOk(r, seen)
      PROVE  RunOk(h)'
  <2>1. ReadOk(r, seen)'
    BY <1>2, ApplyKept
  <2> QED BY <1>2, <2>1 DEF RunOk
<1>3. ASSUME NEW r \in Request, NEW seen,
             run[h] = [at |-> "apply", req |-> r, seen |-> seen], AtApply(r, seen)
      PROVE  RunOk(h)'
  <2>1. AtApply(r, seen)'
    BY <1>3, ApplyKept
  <2> QED BY <1>3, <2>1 DEF RunOk
<1>4. ASSUME NEW r \in Request, NEW c,
             run[h] = [at |-> "events", req |-> r, case |-> c], Taken(r, c)
      PROVE  RunOk(h)'
  <2>1. Taken(r, c)'
    BY <1>4, HeldKept
  <2> QED BY <1>4, <2>1 DEF RunOk
<1>5. ASSUME NEW r \in Request, NEW c, NEW a,
             run[h] = [at |-> "freeze", req |-> r, case |-> c, archive |-> a], AtFreeze(r, c, a)
      PROVE  RunOk(h)'
  <2>1. AtFreeze(r, c, a)'
    BY <1>5, FreezeKept
  <2> QED BY <1>5, <2>1 DEF RunOk
<1> QED BY <1>1, <1>2, <1>3, <1>4, <1>5 DEF RunOk

LEMMA Move ==
  ASSUME Service, UNCHANGED tables, Switch',
         NEW h \in Handler, NEW next, Goto(h, next), RunOk(h)'
  PROVE  Service'
<1>1. PICK R : run \in [Handler -> R]
  BY DEF Service, Runs
<1>2. /\ run' \in [Handler -> R \cup {next}]
      /\ \A other \in Handler \ {h} : run'[other] = run[other]
  BY <1>1 DEF Goto
<1>3. \A other \in Handler : RunOk(other)'
  <2> TAKE other \in Handler
  <2>1. CASE other = h
    BY <2>1
  <2>2. CASE other # h
    <3>1. RunOk(other) /\ run'[other] = run[other]
      BY <1>2, <2>2 DEF Service, Runs
    <3> QED BY <3>1, RunKept
  <2> QED BY <2>1, <2>2
<1>4. Runs'
  BY <1>2, <1>3 DEF Runs
<1> QED BY <1>4, ReadStep

LEMMA MovedTo ==
  ASSUME Service, NEW h \in Handler, NEW next, Goto(h, next)
  PROVE  run'[h] = next
BY DEF Service, Runs, Goto

\* While a handler is at work the process is up, and stays so as it goes on.
LEMMA StaysUp ==
  ASSUME Service, NEW h \in Handler, run[h] # Idle
  PROVE  up /\ (UNCHANGED <<up, faults>> => Switch')
BY DEF Service, Switch

LEMMA RefusedOk ==
  ASSUME NEW h, NEW r \in Request, NEW outcome, run'[h] = Refused(r, outcome)
  PROVE  RunOk(h)'
BY DEF RunOk, Refused

LEMMA SendStep ==
  ASSUME Service, NEW h \in Handler, NEW r \in Request, Send(h, r)
  PROVE  Service'
<1>1. up /\ UNCHANGED <<tables, up, faults>>
  BY DEF Send
<1>2. PICK at : at = IF r.op \in {"correct", "release", "return"} THEN "prefetch" ELSE "apply"
  OBVIOUS
<1>3. Goto(h, [at |-> at, req |-> r, seen |-> None])
  BY <1>2 DEF Send, Goto
<1>4. run'[h] = [at |-> at, req |-> r, seen |-> None]
  BY <1>3, MovedTo
<1>5. RunOk(h)'
  BY <1>2, <1>4 DEF RunOk, AtApply
<1>6. Switch'
  BY <1>1 DEF Service, Switch
<1> QED BY <1>1, <1>3, <1>5, <1>6, Move

LEMMA PrefetchStep ==
  ASSUME Service, NEW h \in Handler, Prefetch(h) \/ PrefetchRefuse(h)
  PROVE  Service'
<1>1. run[h].at = "prefetch" /\ UNCHANGED <<tables, up, faults>>
  BY DEF Prefetch, PrefetchRefuse
<1>2. PICK r \in Request : run[h].req = r /\ r.op \in {"correct", "release", "return"}
  BY <1>1 DEF Service, Runs, RunOk, Idle
<1>3. run[h] # Idle /\ r.case \in Case
  BY <1>1, <1>2, ServiceAssumption DEF Idle
<1>4. CASE Prefetch(h)
  <2>1. PICK n, state : n = cases[r.case].revision /\ state = cases[r.case].state
    OBVIOUS
  <2> DEFINE seen == [revision |-> n, state |-> state, head |-> 0]
  <2>2. PICK at : at = IF r.op = "correct" THEN "apply" ELSE "prefetchEvents"
    OBVIOUS
  <2>3. Exists(r.case) /\ Goto(h, [at |-> at, req |-> r, seen |-> seen])
    BY <1>2, <1>4, <2>1, <2>2 DEF Prefetch
  <2>4. run'[h] = [at |-> at, req |-> r, seen |-> seen]
    BY <2>3, MovedTo
  <2>5. ReadOk(r, seen)
    <3>1. /\ ChainHead(r.case) \in EventsOf(r.case)
          /\ audit[ChainHead(r.case)].revision = seen.revision
      BY <1>3, <2>1, <2>3, HeadOfChain DEF Service
    <3> QED BY <3>1 DEF ReadOk
  <2>6. r.op = "correct" => AtApply(r, seen)
    BY <2>5 DEF AtApply
  <2>7. RunOk(h)'
    <3> HIDE DEF seen
    <3>1. ReadOk(r, seen)' /\ (r.op = "correct" => AtApply(r, seen)')
      BY <1>1, <2>5, <2>6, ApplyKept
    <3> QED BY <1>2, <2>2, <2>4, <3>1 DEF RunOk
  <2> QED BY <1>1, <1>3, <2>3, <2>7, Move, StaysUp
<1>5. CASE PrefetchRefuse(h)
  <2>1. PICK outcome : Goto(h, Refused(r, outcome))
    BY <1>2, <1>5 DEF PrefetchRefuse
  <2> QED BY <1>1, <1>3, <2>1, RefusedOk, MovedTo, Move, StaysUp
<1> QED BY <1>4, <1>5

LEMMA PrefetchEventsStep ==
  ASSUME Service, NEW h \in Handler, PrefetchEvents(h)
  PROVE  Service'
<1>1. run[h].at = "prefetchEvents" /\ UNCHANGED <<tables, up, faults>> /\ run[h] # Idle
  BY DEF PrefetchEvents, Idle
<1>2. PICK r \in Request : \E read :
        /\ run[h] = [at |-> "prefetchEvents", req |-> r, seen |-> read]
        /\ r.op \in {"release", "return"} /\ ReadOk(r, read)
  BY <1>1 DEF Service, Runs, RunOk, Idle
<1>3. PICK read : /\ run[h] = [at |-> "prefetchEvents", req |-> r, seen |-> read]
                  /\ ReadOk(r, read)
  BY <1>2
<1>4. PICK head : head = ChainHead(r.case)
  OBVIOUS
<1> DEFINE seen == [revision |-> read.revision, state |-> read.state, head |-> head]
<1>5. Goto(h, [at |-> "apply", req |-> r, seen |-> seen])
  <2>1. [read EXCEPT !.head = head] = seen
    BY <1>3 DEF ReadOk
  <2>2. Goto(h, [at |-> "apply", req |-> r, seen |-> [read EXCEPT !.head = head]])
    BY <1>3, <1>4 DEF PrefetchEvents
  <2> QED BY <2>1, <2>2
<1>6. ReadOk(r, seen)
  BY <1>3 DEF ReadOk
<1>7. AtApply(r, seen)
  <2>1. PICK m \in EventsOf(r.case) : audit[m].revision = read.revision
    BY <1>3 DEF ReadOk
  <2>2. r.case \in Case
    BY <1>2, ServiceAssumption
  <2>3. Exists(r.case) /\ cases[r.case].revision \in Nat /\ read.revision <= cases[r.case].revision
    BY <2>1, <2>2, EventsNotAhead DEF Service
  <2>4. head \in EventsOf(r.case) /\ audit[head].revision = cases[r.case].revision
    BY <1>4, <2>2, <2>3, HeadOfChain DEF Service
  <2>5. read.revision \in Nat
    BY <2>1 DEF Service, Tables, EventsOf
  <2>6. HeadOk(r, seen)
    BY <2>3, <2>4, <2>5 DEF HeadOk
  <2> QED BY <1>6, <2>6 DEF AtApply
<1>8. RunOk(h)'
  <2> HIDE DEF seen
  <2>1. AtApply(r, seen)'
    BY <1>1, <1>7, ApplyKept
  <2>2. run'[h] = [at |-> "apply", req |-> r, seen |-> seen]
    BY <1>5, MovedTo
  <2> QED BY <2>1, <2>2 DEF RunOk
<1> QED BY <1>1, <1>5, <1>8, Move, StaysUp

LEMMA ApplyReadStep ==
  ASSUME Service, NEW h \in Handler, ApplyReplay(h) \/ ApplyRefuse(h)
  PROVE  Service'
<1>1. run[h].at = "apply" /\ UNCHANGED <<tables, up, faults>> /\ run[h] # Idle
  BY DEF ApplyReplay, ApplyRefuse, Idle
<1>2. PICK r \in Request : run[h].req = r
  BY <1>1, ApplyStage
<1>3. CASE ApplyReplay(h)
  <2>1. Lookup(r.id, r.body) = "replayed" /\ r.id \in RequestIds
    BY <1>2, <1>3 DEF ApplyReplay, RequestIds
  <2>2. PICK s : s = idem[r.id].response
    OBVIOUS
  <2>3. Held(s) /\ Answered(s) /\ Own(s, r.id)
    BY <2>1, <2>2 DEF Lookup, Service, Remembered, Answered, Committed
  <2>4. Goto(h, AfterApply(r, "replayed", s))
    BY <1>2, <1>3, <2>2 DEF ApplyReplay
  <2>5. Held(s)' /\ Answered(s)'
    BY <1>1, <2>3, HeldKept
  <2>6. r.op = "release" /\ s.state # "archived" => (IdsKeptApart => s.case = r.case)
    BY <2>3 DEF Own
  <2>7. RunOk(h)'
    BY <2>4, <2>5, <2>6, MovedTo, AfterApplyOk
  <2> QED BY <1>1, <2>4, <2>7, Move, StaysUp
<1>4. CASE ApplyRefuse(h)
  <2>1. PICK outcome : Goto(h, Refused(r, outcome))
    BY <1>2, <1>4 DEF ApplyRefuse
  <2> QED BY <1>1, <2>1, RefusedOk, MovedTo, Move, StaysUp
<1> QED BY <1>3, <1>4

LEMMA BuildStep ==
  ASSUME Service, NEW h \in Handler, BuildArchive(h)
  PROVE  Service'
<1>1. run[h].at = "events" /\ UNCHANGED <<tables, up, faults>> /\ run[h] # Idle
  BY DEF BuildArchive, Idle
<1>2. PICK r \in Request : \E s : run[h].req = r /\ run[h].case = s /\ Taken(r, s)
  BY <1>1 DEF Service, Runs, RunOk, Idle
<1>3. PICK s : run[h].case = s /\ Taken(r, s)
  BY <1>2
<1>4. CASE \E outcome : Goto(h, Refused(r, outcome))
  BY <1>1, <1>4, RefusedOk, MovedTo, Move, StaysUp
<1>5. ASSUME NEW t \in Moment, s.state = "released",
             Goto(h, [at |-> "freeze", req |-> r, case |-> s, archive |-> Payload(r.case, s, t)])
      PROVE  Service'
  <2>1. PICK a : a = Payload(r.case, s, t)
    OBVIOUS
  <2>2. r.case \in Case /\ EventsOf(r.case) \in SUBSET Nat
    BY <1>3, ServiceAssumption, EventsAreSequences DEF Taken, Service
  <2>3. AtFreeze(r, s, a)
    BY <1>3, <1>5, <2>1, <2>2 DEF AtFreeze, Payload, Archive, Taken, Held
  <2>4. AtFreeze(r, s, a)'
    BY <1>1, <2>3, FreezeKept
  <2>5. Goto(h, [at |-> "freeze", req |-> r, case |-> s, archive |-> a])
    BY <1>5, <2>1
  <2>6. run'[h] = [at |-> "freeze", req |-> r, case |-> s, archive |-> a]
    BY <2>5, MovedTo
  <2>7. RunOk(h)'
    BY <2>4, <2>6 DEF RunOk
  <2> QED BY <1>1, <2>5, <2>7, Move, StaysUp
<1> QED BY <1>2, <1>3, <1>4, <1>5 DEF BuildArchive

LEMMA FreezeElseStep ==
  ASSUME Service, NEW h \in Handler, FreezeElse(h)
  PROVE  Service'
<1>1. run[h].at = "freeze" /\ UNCHANGED <<tables, up, faults>> /\ run[h] # Idle
  BY DEF FreezeElse, Idle
<1>2. PICK r \in Request : run[h].req = r
  BY <1>1, FreezeStage
<1>3. PICK c, outcome : Goto(h, [at |-> "reply", req |-> r, outcome |-> outcome, case |-> c])
  BY <1>2 DEF FreezeElse, Refused
<1>4. run'[h] = [at |-> "reply", req |-> r, case |-> c, outcome |-> outcome]
  BY <1>3, MovedTo
<1>5. RunOk(h)'
  BY <1>4 DEF RunOk
<1> QED BY <1>1, <1>3, <1>5, Move, StaysUp

LEMMA IdleStep ==
  ASSUME Service, NEW h \in Handler, Goto(h, Idle), UNCHANGED <<tables, up>>,
         faults' \in 0..MaxFaults, run[h] # Idle
  PROVE  Service'
<1>1. RunOk(h)'
  BY MovedTo DEF RunOk
<1>2. Switch'
  BY StaysUp DEF Switch
<1> QED BY <1>1, <1>2, Move

LEMMA HandleStep ==
  ASSUME Service, NEW h \in Handler, Handle(h)
  PROVE  Service'
<1>1. run[h] # Idle
  <2>1. CASE Prefetch(h) \/ PrefetchRefuse(h) \/ PrefetchEvents(h)
    BY <2>1 DEF Prefetch, PrefetchRefuse, PrefetchEvents, Idle
  <2>2. CASE ApplyCreate(h) \/ ApplyCommit(h)
    BY <2>2 DEF ApplyCreate, ApplyCommit, Idle
  <2>3. CASE ApplyReplay(h) \/ ApplyRefuse(h)
    BY <2>3 DEF ApplyReplay, ApplyRefuse, Idle
  <2>4. CASE BuildArchive(h) \/ Freeze(h)
    BY <2>4 DEF BuildArchive, Freeze, Idle
  <2>5. CASE FreezeElse(h) \/ Reply(h)
    BY <2>5 DEF FreezeElse, Reply, Idle
  <2> QED BY <2>1, <2>2, <2>3, <2>4, <2>5 DEF Handle
<1>2. up
  BY <1>1, StaysUp
<1>3. CASE Reply(h)
  <2>1. Goto(h, Idle) /\ UNCHANGED <<tables, up>> /\ faults' \in 0..MaxFaults
    BY <1>3 DEF Reply, Service, Switch
  <2> QED BY <1>1, <2>1, IdleStep
<1>4. CASE Prefetch(h) \/ PrefetchRefuse(h)
  BY <1>4, PrefetchStep
<1>5. CASE PrefetchEvents(h)
  BY <1>5, PrefetchEventsStep
<1>6. CASE ApplyCreate(h)
  BY <1>2, <1>6, CreateStep
<1>7. CASE ApplyCommit(h)
  BY <1>2, <1>7, CommitStep
<1>8. CASE ApplyReplay(h) \/ ApplyRefuse(h)
  BY <1>8, ApplyReadStep
<1>9. CASE BuildArchive(h)
  BY <1>9, BuildStep
<1>10. CASE Freeze(h)
  BY <1>2, <1>10, FreezeStep
<1>11. CASE FreezeElse(h)
  BY <1>11, FreezeElseStep
<1> QED BY <1>3, <1>4, <1>5, <1>6, <1>7, <1>8, <1>9, <1>10, <1>11 DEF Handle

LEMMA CrashStep ==
  ASSUME Service, Crash \/ Restart
  PROVE  Service'
<1>1. CASE Crash
  <2>1. Switch'
    <3>1. faults' \in 0..MaxFaults
      BY <1>1, ServiceAssumption DEF Crash, Service, Switch
    <3>2. up' = FALSE /\ \A h \in Handler : run'[h] = Idle
      BY <1>1 DEF Crash
    <3> QED BY <3>1, <3>2 DEF Switch
  <2>2. Runs'
    BY <1>1 DEF Crash, Runs, RunOk
  <2> QED BY <1>1, <2>1, <2>2, ReadStep DEF Crash
<1>2. CASE Restart
  <2>1. Switch' /\ run' = run /\ UNCHANGED tables
    BY <1>2 DEF Restart, Service, Switch
  <2>2. \A h \in Handler : RunOk(h)'
    <3> TAKE h \in Handler
    <3> QED BY <2>1, RunKept DEF Service, Runs
  <2>3. Runs'
    BY <2>1, <2>2 DEF Service, Runs
  <2> QED BY <2>1, <2>3, ReadStep
<1> QED BY <1>1, <1>2

LEMMA ServiceInit ==
  ASSUME Init
  PROVE  Service
<1>1. audit = << >> /\ audit \in Seq({}) /\ DOMAIN audit = {}
  BY DEF Init
<1>2. \A c \in Case : ~Exists(c) /\ archives[c] = None /\ EventsOf(c) = {}
  BY <1>1 DEF Init, Exists, EventsOf
<1>3. \A id \in RequestIds : ~Committed(id)
  BY DEF Init, Committed
<1>4. Tables
  <2>1. idem \in [RequestIds -> {None}]
    BY DEF Init
  <2> QED BY <1>1, <1>2, <2>1 DEF Init, Tables
<1>5. Runs
  <2>1. run \in [Handler -> {Idle}]
    BY DEF Init
  <2> QED BY <2>1 DEF Runs, RunOk
<1>6. Switch
  BY ServiceAssumption DEF Init, Switch
<1>7. \A c \in Case : Chained(c) /\ Written(c) /\ Frozen(c) /\ HistoryOf(c)
  BY <1>2 DEF Chained, Written, Revisions, Frozen, HistoryOf
<1>8. \A id \in RequestIds : Remembered(id)
  BY <1>3 DEF Remembered
<1>9. PrefetchWasBefore
  BY <1>1 DEF PrefetchWasBefore
<1> QED BY <1>4, <1>5, <1>6, <1>7, <1>8, <1>9 DEF Service

LEMMA ServiceStep ==
  ASSUME Service, [Next]_vars
  PROVE  Service'
<1>1. ASSUME NEW h \in Handler, NEW r \in Request, Send(h, r) PROVE Service'
  BY <1>1, SendStep
<1>2. ASSUME NEW h \in Handler, Handle(h) PROVE Service'
  BY <1>2, HandleStep
<1>3. ASSUME NEW h \in Handler, CutOff(h) PROVE Service'
  <2>1. /\ Goto(h, Idle) /\ UNCHANGED <<tables, up>> /\ run[h] # Idle
        /\ faults' \in 0..MaxFaults
    BY <1>3, ServiceAssumption DEF CutOff, Service, Switch
  <2> QED BY <2>1, IdleStep
<1>4. CASE Crash \/ Restart
  BY <1>4, CrashStep
<1>5. CASE UNCHANGED vars
  <2>1. UNCHANGED tables /\ UNCHANGED <<up, run, faults>>
    BY <1>5 DEF vars
  <2>2. \A h \in Handler : RunOk(h)'
    <3> TAKE h \in Handler
    <3> QED BY <2>1, RunKept DEF Service, Runs
  <2>3. Runs' /\ Switch'
    BY <2>1, <2>2 DEF Service, Runs, Switch
  <2> QED BY <2>1, <2>3, ReadStep
<1> QED BY <1>1, <1>2, <1>3, <1>4, <1>5 DEF Next

\* A step changes no table, or commits one snapshot.
LEMMA StepKinds ==
  ASSUME Service, [Next]_vars
  PROVE  UNCHANGED tables \/ Grows
<1>1. ASSUME NEW h \in Handler, Handle(h) PROVE UNCHANGED tables \/ Grows
  <2>1. CASE ApplyCreate(h) \/ ApplyCommit(h) \/ Freeze(h)
    <3>1. run[h] # Idle
      BY <2>1 DEF ApplyCreate, ApplyCommit, Freeze, Idle
    <3> QED BY <2>1, <3>1, StaysUp, CreateStep, CommitStep, FreezeStep
  <2>2. CASE ~(ApplyCreate(h) \/ ApplyCommit(h) \/ Freeze(h))
    BY <1>1, <2>2 DEF Handle, Prefetch, PrefetchRefuse, PrefetchEvents, ApplyReplay,
                      ApplyRefuse, BuildArchive, FreezeElse, Reply
  <2> QED BY <2>1, <2>2
<1>2. CASE \E h \in Handler : (\E r \in Request : Send(h, r)) \/ CutOff(h)
  BY <1>2 DEF Send, CutOff
<1>3. CASE Crash \/ Restart \/ UNCHANGED vars
  BY <1>3 DEF Crash, Restart, vars
<1> QED BY <1>1, <1>2, <1>3 DEF Next

LEMMA ServiceInvariant == Spec => []Service
BY ServiceInit, ServiceStep, PTL DEF Spec

-----------------------------------------------------------------------------
(* Theorems.                                                               *)

\* The tables keep their shape, and events link only to earlier ones.
THEOREM TablesTyped == Spec => []TypeOK
<1>1. Service => TypeOK
  <2> SUFFICES ASSUME Service PROVE TypeOK
    OBVIOUS
  <2>1. \A c \in Case : Exists(c) => cases[c] \in Snapshot
    BY DEF Service, Tables, Exists
  <2>2. \A n \in DOMAIN audit : audit[n].case \in Case /\ audit[n].previous \in 0..(n - 1)
    BY DEF Service, Tables
  <2>3. \A id \in RequestIds : Committed(id) => idem[id].response \in Snapshot
    BY DEF Service, Remembered, Held
  <2> QED BY <2>1, <2>2, <2>3 DEF TypeOK, Service, Switch
<1> QED BY <1>1, ServiceInvariant, PTL

\* Store.CheckConsistency accepts the tables in every reachable state.
THEOREM AlwaysReopens == Spec => []ReopensAlways
<1>1. Service => ReopensAlways
  BY DEF Service, ReopensAlways, CheckConsistency, Chained, Frozen, Exists
<1> QED BY <1>1, ServiceInvariant, PTL

\* Every revision of a case has one writer and one event.
THEOREM OneWriter == Spec => []OneWriterPerRevision
<1>1. Service => OneWriterPerRevision
  <2> SUFFICES ASSUME Service, NEW c \in Case, NEW n \in Revisions(c)
               PROVE  Cardinality(Writers(c, n)) = 1 /\ Cardinality(Versions(c, n)) = 1
    BY DEF OneWriterPerRevision, Revisions, Writers, Versions
  <2>1. PICK w, e : Writers(c, n) = {w} /\ Versions(c, n) = {e}
    <3>1. Written(c)
      BY DEF Service
    <3> QED BY <3>1 DEF Written
  <2>2. Cardinality({w}) = 1 /\ Cardinality({e}) = 1
    BY FS_Singleton
  <2> QED BY <2>1, <2>2
<1> QED BY <1>1, ServiceInvariant, PTL

\* What Witness and CorrectCheckpoint read before their transaction was the case at
\* one of its commits up to then, with a head of its chain that is no older.
THEOREM ReadsWereBefore == Spec => []PrefetchWasBefore
<1>1. Service => PrefetchWasBefore
  BY DEF Service
<1> QED BY <1>1, ServiceInvariant, PTL

\* An archive is a released case as it was answered, at the revision archived; the
\* case itself if ids are kept apart, and then with all its history.
THEOREM ArchiveComplete == Spec => []ArchiveIsHistory
<1>1. Service => ArchiveIsHistory
  BY DEF Service, HistoryOf, Answered, ArchiveIsHistory
<1> QED BY <1>1, ServiceInvariant, PTL

\* No event, remembered answer or archive is ever changed or removed.
THEOREM RowsStay == Spec => AppendOnly
<1> DEFINE A == /\ IsPrefix(audit, audit')
                /\ \A id \in RequestIds : Committed(id) => idem'[id] = idem[id]
                /\ \A c \in Case : archives[c] # None => archives'[c] = archives[c]
<1>1. ASSUME Service, [Next]_vars PROVE [A]_vars
  <2>1. CASE UNCHANGED tables
    <3>1. PICK E : audit \in Seq(E)
      BY <1>1 DEF Service, Tables
    <3>2. IsPrefix(audit, audit')
      BY <2>1, <3>1 DEF tables, IsPrefix
    <3> QED BY <2>1, <3>2 DEF tables
  <2>2. CASE Grows
    <3>1. PICK s, type, seen, id, fingerprint :
            /\ Advances(s, type, seen, id, fingerprint)
            /\ \A c \in Case : archives[c] # None => archives'[c] = archives[c]
      BY <2>2 DEF Grows
    <3>2. Grown(s, type, seen, id)
      BY <1>1, <3>1, WriteGrows DEF Service
    <3>3. IsPrefix(audit, audit')
      <4>1. PICK E, F : audit \in Seq(E) /\ audit' \in Seq(F)
        BY <1>1, <3>2 DEF Service, Tables, Grown
      <4>2. /\ Len(audit) \in Nat /\ Len(audit') = Len(audit) + 1
            /\ \A n \in 1..Len(audit) : audit'[n] = audit[n]
        BY <3>2 DEF Grown
      <4>3. SubSeq(audit, 1, Len(audit)) = SubSeq(audit', 1, Len(audit))
        BY <4>1, <4>2
      <4> QED BY <4>2, <4>3 DEF IsPrefix
    <3>4. \A other \in RequestIds : Committed(other) => idem'[other] = idem[other]
      BY <3>1, <3>2 DEF Grown, Advances
    <3> QED BY <3>1, <3>3, <3>4
  <2> QED BY <1>1, <2>1, <2>2, StepKinds
<1> HIDE DEF A
<1>2. Spec => [][A]_vars
  BY <1>1, ServiceInvariant, PTL DEF Spec
<1> QED BY <1>2 DEF AppendOnly, A

-----------------------------------------------------------------------------
(* The refinement of CaseLedger.                                           *)

WriterOf(c, n) == CHOOSE id \in RequestIds : idem[id] # None /\ idem[id].response.case = c
                                              /\ idem[id].response.revision = n

Entry(c, n) == [by |-> WriterOf(c, n), state |-> idem[WriterOf(c, n)].response.state]

LEMMA WriterIs ==
  ASSUME NEW c, NEW n, NEW w, Writers(c, n) = {w}
  PROVE  WriterOf(c, n) = w
BY DEF WriterOf, Writers, Committed

LEMMA LedgerIs ==
  ASSUME Service, NEW c \in Case
  PROVE  /\ Entered[c] = [n \in Revisions(c) |-> Entry(c, n)]
         /\ Entered[c] \in Seq(UNION {{Entry(c, n)} : n \in Revisions(c)})
         /\ Len(Entered[c]) = IF Exists(c) THEN cases[c].revision ELSE 0
         /\ \A n \in Revisions(c) : WriterOf(c, n) \in Writers(c, n)
<1>1. Entered[c] = [n \in Revisions(c) |-> Entry(c, n)]
  BY DEF Entered, Revisions, Entry, WriterOf, Exists
<1>2. PICK last \in Nat : last = IF Exists(c) THEN cases[c].revision ELSE 0
  BY DEF Service, Tables, Exists, Snapshot
<1>3. Revisions(c) = 1..last
  BY <1>2 DEF Revisions
<1>4. /\ Entered[c] \in Seq(UNION {{Entry(c, n)} : n \in Revisions(c)})
      /\ Len(Entered[c]) = last
  BY <1>1, <1>3
<1>5. \A n \in Revisions(c) : WriterOf(c, n) \in Writers(c, n)
  <2> SUFFICES ASSUME NEW n \in Revisions(c) PROVE WriterOf(c, n) \in Writers(c, n)
    OBVIOUS
  <2>1. PICK w : Writers(c, n) = {w}
    <3>1. Written(c)
      BY DEF Service
    <3> QED BY <3>1 DEF Written
  <2> QED BY <2>1, WriterIs
<1> QED BY <1>1, <1>2, <1>4, <1>5

\* The last entry of a case is the state it is in.
LEMMA LastEntry ==
  ASSUME Service, NEW c \in Case, Exists(c)
  PROVE  Entered[c] # << >> /\ Entered[c][Len(Entered[c])].state = cases[c].state
<1>1. PICK last \in Nat \ {0} : last = cases[c].revision
  BY DEF Service, Tables, Exists, Snapshot
<1>2. last \in Revisions(c) /\ Len(Entered[c]) = last
  <2>1. last \in Revisions(c)
    BY <1>1 DEF Revisions
  <2>2. Len(Entered[c]) = IF Exists(c) THEN cases[c].revision ELSE 0
    BY LedgerIs
  <2> QED BY <1>1, <2>1, <2>2
<1>3. PICK w \in RequestIds : /\ w = WriterOf(c, last) /\ Committed(w)
                             /\ idem[w].response.case = c /\ idem[w].response.revision = last
  <2>1. \A n \in Revisions(c) : WriterOf(c, n) \in Writers(c, n)
    BY LedgerIs
  <2>2. WriterOf(c, last) \in Writers(c, last)
    BY <1>2, <2>1
  <2> QED BY <2>2 DEF Writers
<1>4. idem[w].response = cases[c]
  BY <1>1, <1>3 DEF Service, Remembered, Held
<1>5. Entered[c][last] = Entry(c, last)
  BY <1>2, LedgerIs
<1>6. Entry(c, last).state = cases[c].state
  BY <1>3, <1>4 DEF Entry
<1> QED BY <1>1, <1>2, <1>5, <1>6

LEMMA EntriesStay ==
  ASSUME Service, Service', NEW s, NEW type, NEW seen, NEW id, NEW fingerprint,
         Advances(s, type, seen, id, fingerprint), Grown(s, type, seen, id),
         NEW c \in Case, NEW n \in Revisions(c)
  PROVE  n \in Revisions(c)' /\ Entry(c, n)' = Entry(c, n)
<1>1. ~(s.case = c /\ s.revision = n)
  BY DEF Revisions, Advances, Service, Tables, Exists, Snapshot
<1>2. Writers(c, n)' = Writers(c, n)
  <2>1. Writers(c, n)' = Writers(c, n) \cup {w \in {id} : s.case = c /\ s.revision = n}
    BY WriteAddsWriter DEF Service
  <2> QED BY <1>1, <2>1
<1>3. PICK w : Writers(c, n) = {w}
  <2>1. Written(c)
    BY DEF Service
  <2> QED BY <2>1 DEF Written
<1>4. WriterOf(c, n) = w /\ WriterOf(c, n)' = w
  BY <1>2, <1>3, WriterIs DEF WriterOf, Writers, Committed
<1>5. idem'[w] = idem[w]
  BY <1>3 DEF Writers, Grown, Advances
<1>6. n \in Revisions(c)'
  <2>1. Exists(c)
    BY DEF Revisions
  <2>2. Exists(c)' /\ cases[c].revision \in Nat /\ cases'[c].revision \in Nat
        /\ cases[c].revision <= cases'[c].revision
    BY <2>1, WriteRaises DEF Service
  <2> QED BY <2>1, <2>2 DEF Revisions
<1> QED BY <1>4, <1>5, <1>6 DEF Entry

\* The state function that Ledger refines with.
LEMMA OneEntry ==
  ASSUME Service, Service', Grows
  PROVE  Ledger!Next
<1>1. PICK s, type, seen, id, fingerprint :
        /\ Advances(s, type, seen, id, fingerprint)
        /\ ~Exists(s.case) => s.state = "draft"
        /\ Exists(s.case) => <<cases[s.case].state, s.state>> \in Ledger!Moves
  BY DEF Grows
<1>2. Grown(s, type, seen, id)
  BY <1>1, WriteGrows DEF Service
<1>3. PICK c \in Case : c = s.case
  BY <1>2 DEF Grown
<1>4. PICK last \in Nat : last = IF Exists(c) THEN cases[c].revision ELSE 0
  BY DEF Service, Tables, Exists, Snapshot
<1>5. s.revision = last + 1 /\ cases'[c] = s /\ Exists(c)'
  BY <1>1, <1>2, <1>3, <1>4 DEF Advances, Grown, Exists
<1>6. Revisions(c) = 1..last /\ Revisions(c)' = 1..(last + 1)
  BY <1>4, <1>5 DEF Revisions
<1>7. Entry(c, last + 1)' = [by |-> id, state |-> s.state]
  <2>1. Writers(c, last + 1) = {}
    <3>1. ASSUME NEW w \in Writers(c, last + 1) PROVE FALSE
      <4>1. Held(idem[w].response) /\ idem[w].response.case = c /\ idem[w].response.revision = last + 1
        BY <3>1 DEF Writers, Service, Remembered
      <4> QED BY <1>4, <4>1 DEF Held
    <3> QED BY <3>1
  <2>2. Writers(c, last + 1)' = {id}
    BY <1>1, <1>2, <1>3, <1>5, <2>1, WriteAddsWriter DEF Service
  <2>3. WriterOf(c, last + 1)' = id
    BY <2>2 DEF WriterOf, Writers, Committed
  <2> QED BY <1>2, <2>3 DEF Entry, Grown
<1> DEFINE entry == [by |-> id, state |-> s.state]
<1>8. Entered[c] = [n \in 1..last |-> Entry(c, n)] /\ Len(Entered[c]) = last
  <2>1. Len(Entered[c]) = IF Exists(c) THEN cases[c].revision ELSE 0
    BY LedgerIs
  <2> QED BY <1>4, <1>6, <2>1, LedgerIs
<1>9. /\ Entered'[c] = [n \in 1..(last + 1) |-> Entry(c, n)']
      /\ Len(Entered'[c]) = last + 1
  <2>1. Entered'[c] = [n \in 1..(last + 1) |-> Entry(c, n)']
    BY <1>6, <1>5 DEF Entered, Revisions, Entry, WriterOf, Exists
  <2> QED BY <2>1
<1>10. Entered'[c] = Append(Entered[c], entry) /\ Entered'[c][last + 1] = entry
  <2>1. \A n \in 1..last : Entry(c, n)' = Entry(c, n)
    BY <1>1, <1>2, <1>6, EntriesStay
  <2>2. Entered[c] \in Seq(UNION {{Entry(c, n)} : n \in Revisions(c)})
    BY LedgerIs
  <2> QED BY <1>7, <1>8, <1>9, <2>1, <2>2
<1>11. Entered' = [Entered EXCEPT ![c] = Append(@, entry)]
  <2>1. ASSUME NEW d \in Case \ {c} PROVE Entered'[d] = Entered[d]
    <3>1. Revisions(d)' = Revisions(d)
      BY <1>2, <1>3, <2>1 DEF Revisions, Grown, Exists
    <3>2. \A n \in Revisions(d) : Entry(d, n)' = Entry(d, n)
      BY <1>1, <1>2, <2>1, EntriesStay
    <3>3. Entered'[d] = [n \in Revisions(d)' |-> Entry(d, n)']
      BY <2>1 DEF Entered, Revisions, Entry, WriterOf, Exists
    <3>4. Entered[d] = [n \in Revisions(d) |-> Entry(d, n)]
      BY <2>1, LedgerIs
    <3> QED BY <3>1, <3>2, <3>3, <3>4
  <2>2. Entered = [d \in Case |-> Entered[d]] /\ Entered' = [d \in Case |-> Entered'[d]]
    BY DEF Entered
  <2> HIDE DEF entry
  <2> QED BY <1>10, <2>1, <2>2
<1>12. entry.by \in RequestIds \ Ledger!Used
  <2>1. ASSUME NEW d \in Case, NEW n \in DOMAIN Entered[d] PROVE Entered[d][n].by # id
    <3>1. n \in Revisions(d) /\ Entered[d][n] = Entry(d, n)
      BY <2>1, LedgerIs
    <3>2. WriterOf(d, n) \in Writers(d, n)
      BY <3>1, LedgerIs
    <3> QED BY <1>1, <3>1, <3>2 DEF Entry, Writers, Advances
  <2> QED BY <1>1, <2>1 DEF Ledger!Used, Ledger!Entries, Advances
<1>13. Ledger!Follows(c, entry.state)
  <2>1. CASE ~Exists(c)
    <3>1. last = 0 /\ Entered[c] = << >>
      BY <1>4, <1>8, <2>1
    <3> QED BY <1>1, <1>3, <2>1, <3>1 DEF Ledger!Follows
  <2>2. CASE Exists(c)
    BY <1>1, <1>3, <2>2, LastEntry DEF Ledger!Follows
  <2> QED BY <2>1, <2>2
<1>14. Ledger!Enter(c, entry)
  BY <1>11, <1>12, <1>13 DEF Ledger!Enter
<1> QED BY <1>8, <1>9, <1>10, <1>14 DEF Ledger!Next

\* SealService implements CaseLedger: whoever races, retries or crashes, a case is
\* one growing ledger of legal moves, each by a request id used for nothing else.
THEOREM KeepsLedger == Spec => LedgerKept
<1>1. Init => Ledger!Init
  <2> SUFFICES ASSUME Init PROVE Entered = [c \in Case |-> << >>]
    BY DEF Ledger!Init
  <2>1. \A c \in Case : cases[c] = None
    BY DEF Init
  <2>2. \A c \in Case : Entered[c] = << >>
    <3> TAKE c \in Case
    <3>1. Entered[c] = [n \in 1..0 |-> Entry(c, n)]
      BY <2>1 DEF Entered, Entry, WriterOf
    <3> QED BY <3>1
  <2> QED BY <2>2 DEF Entered
<1>2. ASSUME Service, Service', [Next]_vars PROVE [Ledger!Next]_Entered
  <2>1. CASE UNCHANGED tables
    BY <2>1 DEF Entered, tables
  <2>2. CASE Grows
    BY <1>2, <2>2, OneEntry
  <2> QED BY <1>2, <2>1, <2>2, StepKinds
<1> QED BY <1>1, <1>2, ServiceInvariant, PTL DEF Spec, LedgerKept, Ledger!Spec
=============================================================================
