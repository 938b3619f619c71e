-------------------------- MODULE CaseQueries_proofs --------------------------
(***************************************************************************)
(* The listing and the snapshot for every set of cases, readers and        *)
(* filters.  Who holds the one connection shuts out every commit, so the   *)
(* two queries of a snapshot see the same cases; the three of a listing do *)
(* not, but the cases only become more and keep the moment they were       *)
(* created at, which is all that the order of a walk depends on.           *)
(***************************************************************************)
EXTENDS CaseQueries, Counting

\* The greatest revision among rows that were read.
Greatest(rows) == Max({0} \cup {rows[c].revision : c \in DOMAIN rows})

\* A handler at one of its stages; between open rows and inside the transaction
\* it holds the connection, and what the transaction has read is still so.
Stage(r) ==
  \/ "at" \in DOMAIN reading[r] /\ reading[r].at \notin {"counting", "rows", "upper", "summary"}
  \/ "at" \in DOMAIN reading[r] /\ reading[r].at = "counting" /\ conn = r
  \/ \E f : reading[r] = [at |-> "rows", filter |-> f] /\ conn = r
  \/ \E f : reading[r] = [at |-> "upper", filter |-> f, rows |-> RowsOf(f)] /\ conn = r
  \/ \E f, rows :
       reading[r] = [at |-> "summary", filter |-> f, rows |-> rows, upper |-> Greatest(rows)]

Connected ==
  /\ \E R : reading \in [Reader -> R]
  /\ \A r \in Reader : Stage(r)

\* While nobody else's stage changes and the cases stay, the others are as before.
LEMMA OthersStay ==
  ASSUME Connected, NEW r \in Reader, NEW next, Goto(r, next), Stage(r)',
         UNCHANGED cases,
         \A q \in Reader \ {r} : conn = q => conn' = q
  PROVE  Connected'
<1>1. PICK R : reading \in [Reader -> R]
  BY DEF Connected
<1>2. /\ reading' \in [Reader -> R \cup {next}]
      /\ \A q \in Reader \ {r} : reading'[q] = reading[q]
  BY <1>1 DEF Goto
<1>3. ASSUME NEW q \in Reader, q # r PROVE Stage(q)'
  <2>1. Stage(q) /\ reading'[q] = reading[q] /\ (conn = q => conn' = q)
    BY <1>2, <1>3 DEF Connected
  <2>2. \A f : RowsOf(f)' = RowsOf(f)
    BY DEF RowsOf, Matching, Existing
  <2> QED BY <2>1, <2>2 DEF Stage
<1> QED BY <1>2, <1>3 DEF Connected

\* A command needs the connection, so nobody is between two queries of a snapshot.
LEMMA WritesWait ==
  ASSUME Connected, conn = None, UNCHANGED <<conn, reading>>
  PROVE  Connected'
<1>1. ASSUME NEW r \in Reader PROVE Stage(r)'
  <2>1. Stage(r) /\ conn # r
    BY QueryAssumption DEF Connected
  <2> QED BY <2>1 DEF Stage
<1> QED BY <1>1 DEF Connected

\* The handler goes on to a stage where it holds nothing.
LEMMA MovesFree ==
  ASSUME Connected, NEW r \in Reader, NEW next, Goto(r, next), UNCHANGED cases,
         "at" \in DOMAIN next, next.at \notin {"counting", "rows", "upper", "summary"},
         conn' = conn \/ conn = r
  PROVE  Connected'
<1>1. Stage(r)'
  BY DEF Connected, Goto, Stage
<1> QED BY <1>1, OthersStay

LEMMA ServeStep ==
  ASSUME Connected, NEW r \in Reader, Serve(r)
  PROVE  Connected'
<1>1. CASE CountStates(r)
  <2>1. PICK next : Goto(r, next) /\ "at" \in DOMAIN next /\ next.at = "counting"
    BY <1>1 DEF CountStates
  <2>2. reading'[r] = next /\ conn' = r
    BY <1>1, <2>1 DEF CountStates, Connected, Goto
  <2>3. Stage(r)'
    BY <2>1, <2>2 DEF Stage
  <2> QED BY <1>1, <2>1, <2>3, OthersStay, QueryAssumption DEF CountStates
<1>2. CASE CloseCounts(r)
  <2>1. conn = r /\ "at" \in DOMAIN reading[r]
    BY <1>2 DEF CloseCounts, Connected, Stage
  <2>2. PICK next : Goto(r, next) /\ next = [reading[r] EXCEPT !.at = "total"]
    BY <1>2 DEF CloseCounts
  <2>3. "at" \in DOMAIN next /\ next.at = "total"
    BY <2>1, <2>2
  <2> QED BY <1>2, <2>1, <2>2, <2>3, MovesFree DEF CloseCounts
<1>3. CASE CountTotal(r) \/ ReadPage(r)
  <2>1. PICK next : Goto(r, next) /\ "at" \in DOMAIN next /\ next.at \in {"page", "answer"}
    BY <1>3 DEF CountTotal, ReadPage
  <2> QED BY <1>3, <2>1, MovesFree DEF CountTotal, ReadPage
<1>4. CASE Answer(r) \/ ReplySummary(r)
  <2>1. Goto(r, Idle) /\ UNCHANGED <<cases, conn>>
    BY <1>4 DEF Answer, ReplySummary
  <2>2. "at" \in DOMAIN Idle /\ Idle.at = "idle"
    BY DEF Idle
  <2> QED BY <2>1, <2>2, MovesFree
<1>5. CASE SnapshotRows(r)
  <2>1. PICK f : reading[r] = [at |-> "rows", filter |-> f] /\ conn = r
    BY <1>5 DEF SnapshotRows, Connected, Stage
  <2>2. Goto(r, [at |-> "upper", filter |-> f, rows |-> RowsOf(f)]) /\ UNCHANGED <<cases, conn>>
    BY <1>5, <2>1 DEF SnapshotRows
  <2>3. RowsOf(f)' = RowsOf(f)
    BY <2>2 DEF RowsOf, Matching, Existing
  <2>4. Stage(r)'
    BY <2>1, <2>2, <2>3 DEF Stage, Connected, Goto
  <2> QED BY <2>2, <2>4, OthersStay
<1>6. CASE SnapshotUpper(r)
  <2>1. PICK f : reading[r] = [at |-> "upper", filter |-> f, rows |-> RowsOf(f)] /\ conn = r
    BY <1>6 DEF SnapshotUpper, Connected, Stage
  <2>2. PICK rows : rows = RowsOf(f)
    OBVIOUS
  <2>3. /\ Goto(r, [at |-> "summary", filter |-> f, rows |-> rows, upper |-> UpperOf(f)])
        /\ UNCHANGED cases
    BY <1>6, <2>1, <2>2 DEF SnapshotUpper
  <2>4. UpperOf(f) = Greatest(rows)
    <3>1. {cases[c].revision : c \in Matching(f)} = {rows[c].revision : c \in DOMAIN rows}
      BY <2>2 DEF RowsOf
    <3> QED BY <3>1 DEF UpperOf, Greatest
  <2>5. reading'[r] = [at |-> "summary", filter |-> f, rows |-> rows, upper |-> Greatest(rows)]
    BY <2>3, <2>4 DEF Connected, Goto
  <2>6. Stage(r)'
    <3>1. Greatest(rows)' = Greatest(rows)
      BY DEF Greatest
    <3> QED BY <2>5, <3>1 DEF Stage
  <2> QED BY <2>1, <2>3, <2>6, OthersStay
<1> QED BY <1>1, <1>2, <1>3, <1>4, <1>5, <1>6 DEF Serve

LEMMA ConnectedStep == Connected /\ [Next]_vars => Connected'
<1> SUFFICES ASSUME Connected, [Next]_vars PROVE Connected'
  OBVIOUS
<1>1. CASE Write
  BY <1>1, WritesWait DEF Write, Create, ReviseBaseline, Commit, Put
<1>2. ASSUME NEW r \in Reader, NEW f, NEW cursor, NEW limit, Ask(r, f, cursor, limit),
             UNCHANGED <<cases, conn>>
      PROVE  Connected'
  <2>1. PICK next : /\ Goto(r, next)
                    /\ next = [at |-> "counts", filter |-> f, cursor |-> cursor, limit |-> limit]
    BY <1>2 DEF Ask, Goto
  <2> QED BY <1>2, <2>1, MovesFree
<1>3. ASSUME NEW r \in Reader, NEW f \in FilterInput, BeginSnapshot(r, f) PROVE Connected'
  <2>1. PICK next : Goto(r, next) /\ next = [at |-> "rows", filter |-> f]
    BY <1>3 DEF BeginSnapshot
  <2>2. Stage(r)'
    BY <1>3, <2>1 DEF BeginSnapshot, Connected, Goto, Stage
  <2> QED BY <1>3, <2>1, <2>2, OthersStay, QueryAssumption DEF BeginSnapshot
<1>4. CASE UNCHANGED vars
  <2>1. ASSUME NEW r \in Reader PROVE Stage(r)'
    <3>1. \A f : RowsOf(f)' = RowsOf(f)
      BY <1>4 DEF vars, RowsOf, Matching, Existing
    <3> QED BY <1>4, <3>1 DEF vars, Connected, Stage
  <2> QED BY <1>4, <2>1 DEF vars, Connected
<1>5. ASSUME NEW r \in Reader, NEW f \in FilterInput, NEW limit \in Limit,
             StartWalk(r, f, limit) \/ NextPage(r, f, limit)
      PROVE  Connected'
  BY <1>2, <1>5 DEF StartWalk, NextPage
<1> QED BY <1>1, <1>3, <1>4, <1>5, ServeStep DEF Next, GoOn

LEMMA ConnectionInvariant == Spec => []Connected
<1>1. Init => Connected
  <2> SUFFICES ASSUME Init PROVE Connected
    OBVIOUS
  <2>1. reading \in [Reader -> {Idle}] /\ \A r \in Reader : reading[r] = Idle
    BY DEF Init
  <2>2. "at" \in DOMAIN Idle /\ Idle.at = "idle"
    BY DEF Idle
  <2> QED BY <2>1, <2>2 DEF Connected, Stage
<1> QED BY <1>1, ConnectedStep, PTL DEF Spec

\* The cases of a quality summary and the upper bound of their revisions are of
\* one moment, whatever is committed between the two queries by others.
THEOREM SnapshotsAreOfOneMoment == Spec => []SnapshotOfOneMoment
<1>1. Connected => SnapshotOfOneMoment
  <2> SUFFICES ASSUME Connected, NEW r \in Reader, reading[r].at = "summary"
               PROVE  reading[r].upper =
                        Max({0} \cup {reading[r].rows[c].revision : c \in DOMAIN reading[r].rows})
    BY DEF SnapshotOfOneMoment
  <2>1. PICK f, rows :
          reading[r] = [at |-> "summary", filter |-> f, rows |-> rows, upper |-> Greatest(rows)]
    BY DEF Connected, Stage
  <2> QED BY <2>1 DEF Greatest
<1> QED BY <1>1, ConnectionInvariant, PTL

-----------------------------------------------------------------------------
(* The table of cases: it grows, and a case keeps its creation.            *)

Table ==
  /\ \E R : cases \in [Case -> R]
  /\ IsFiniteSet(Existing)
  /\ \A c \in Existing :
       cases[c] \in [created : Instant[c], site : Site, state : State, revision : 1..MaxRevision]

LEMMA TableInit == Init => Table
<1> SUFFICES ASSUME Init PROVE Table
  OBVIOUS
<1>1. cases \in [Case -> {None}] /\ Existing = {}
  BY DEF Init, Existing
<1> QED BY <1>1, FS_EmptySet DEF Table

\* A row put into the table is that of a new case, or keeps when it was created.
LEMMA RowPut ==
  ASSUME Table, NEW c \in Case, NEW row, Put(c, row),
         row \in [created : Instant[c], site : Site, state : State, revision : 1..MaxRevision],
         cases[c] # None => row.created = cases[c].created
  PROVE  /\ Table' /\ Existing' = Existing \cup {c}
         /\ \A d \in Existing : cases'[d].created = cases[d].created
         /\ \A d \in Case \ {c} : cases'[d] = cases[d]
         /\ cases'[c] = row
<1>1. PICK R : cases \in [Case -> R]
  BY DEF Table
<1>2. cases' = [cases EXCEPT ![c] = row]
  BY DEF Put
<1>3. cases' \in [Case -> R \cup {row}] /\ cases'[c] = row /\ \A d \in Case \ {c} : cases'[d] = cases[d]
  BY <1>1, <1>2
<1>4. row # None
  BY QueryAssumption
<1>5. Existing' = Existing \cup {c}
  BY <1>3, <1>4 DEF Existing
<1>6. IsFiniteSet(Existing')
  BY <1>5, FS_AddElement DEF Table
<1>7. \A d \in Existing' :
        cases'[d] \in [created : Instant[d], site : Site, state : State, revision : 1..MaxRevision]
  BY <1>3, <1>5 DEF Table, Existing
<1>8. \A d \in Existing : cases'[d].created = cases[d].created
  BY <1>3 DEF Existing
<1> QED BY <1>3, <1>5, <1>6, <1>7, <1>8 DEF Table

\* What a command does: it puts one such row.
LEMMA WritePuts ==
  ASSUME Table, Write
  PROVE  \E c \in Case : \E row :
           /\ Put(c, row)
           /\ row \in [created : Instant[c], site : Site, state : State, revision : 1..MaxRevision]
           /\ cases[c] # None => row.created = cases[c].created
<1>1. ASSUME NEW c \in Case, NEW t \in Instant[c], NEW site \in Site, Create(c, t, site)
      PROVE  \E row :
               /\ Put(c, row)
               /\ row \in [created : Instant[c], site : Site, state : State, revision : 1..MaxRevision]
               /\ cases[c] # None => row.created = cases[c].created
  BY <1>1, QueryAssumption DEF Create
<1>2. ASSUME NEW c \in Case, NEW site \in Site, ReviseBaseline(c, site)
      PROVE  \E row :
               /\ Put(c, row)
               /\ row \in [created : Instant[c], site : Site, state : State, revision : 1..MaxRevision]
               /\ cases[c] # None => row.created = cases[c].created
  <2>1. PICK old, mid, row : old = cases[c] /\ mid = [old EXCEPT !.site = site]
                             /\ row = [mid EXCEPT !.revision = old.revision + 1]
    OBVIOUS
  <2>2. Put(c, row) /\ old.revision < MaxRevision
    BY <1>2, <2>1, Zenon DEF ReviseBaseline
  <2>3. old \in [created : Instant[c], site : Site, state : State, revision : 1..MaxRevision]
    BY <1>2, <2>1 DEF ReviseBaseline, Table, Existing
  <2>4. /\ mid \in [created : Instant[c], site : Site, state : State, revision : 1..MaxRevision]
        /\ mid.created = old.created /\ mid.revision = old.revision
    BY <2>1, <2>3
  <2>5. old.revision + 1 \in 1..MaxRevision
    BY <2>2, <2>3, QueryAssumption
  <2>6. /\ row \in [created : Instant[c], site : Site, state : State, revision : 1..MaxRevision]
        /\ row.created = mid.created
    BY <2>1, <2>4, <2>5
  <2> QED BY <2>1, <2>2, <2>4, <2>6
<1>3. ASSUME NEW c \in Case, NEW s \in State, Commit(c, s)
      PROVE  \E row :
               /\ Put(c, row)
               /\ row \in [created : Instant[c], site : Site, state : State, revision : 1..MaxRevision]
               /\ cases[c] # None => row.created = cases[c].created
  <2>1. PICK old, mid, row : old = cases[c] /\ mid = [old EXCEPT !.state = s]
                             /\ row = [mid EXCEPT !.revision = old.revision + 1]
    OBVIOUS
  <2>2. Put(c, row) /\ old.revision < MaxRevision
    BY <1>3, <2>1, Zenon DEF Commit
  <2>3. old \in [created : Instant[c], site : Site, state : State, revision : 1..MaxRevision]
    BY <1>3, <2>1 DEF Commit, Table, Existing
  <2>4. /\ mid \in [created : Instant[c], site : Site, state : State, revision : 1..MaxRevision]
        /\ mid.created = old.created /\ mid.revision = old.revision
    BY <2>1, <2>3
  <2>5. old.revision + 1 \in 1..MaxRevision
    BY <2>2, <2>3, QueryAssumption
  <2>6. /\ row \in [created : Instant[c], site : Site, state : State, revision : 1..MaxRevision]
        /\ row.created = mid.created
    BY <2>1, <2>4, <2>5
  <2> QED BY <2>1, <2>2, <2>4, <2>6
<1> QED BY <1>1, <1>2, <1>3 DEF Write

\* Every step that is not a command leaves the table alone.
LEMMA OthersOnlyRead == [Next]_vars => Write \/ UNCHANGED cases
BY DEF Next, vars, Serve, GoOn, StartWalk, NextPage, BeginSnapshot, CountStates, CloseCounts,
       CountTotal, ReadPage, Answer, SnapshotRows, SnapshotUpper, ReplySummary

LEMMA TableStep == Table /\ [Next]_vars => Table'
<1> SUFFICES ASSUME Table, [Next]_vars PROVE Table'
  OBVIOUS
<1>1. CASE Write
  BY <1>1, WritePuts, RowPut
<1>2. CASE UNCHANGED cases
  BY <1>2 DEF Table, Existing
<1> QED BY <1>1, <1>2, OthersOnlyRead

-----------------------------------------------------------------------------
(* Rows in their order.                                                    *)

\* Different moments have different texts.
LEMMA TextTellsApart ==
  ASSUME NEW s \in Nat, NEW t \in Nat
  PROVE  /\ Text(s) \in Nat
         /\ Text(s) = Text(t) => s = t
         /\ Text(s) <= Text(t) => Second(s) <= Second(t)
<1>1. \A n \in Nat : Second(n) \in Nat /\ n % 4 \in 0..3 /\ n = 4 * Second(n) + (n % 4)
  BY DEF Second
<1>2. \A n \in Nat : \/ n % 4 = 0 /\ Text(n) = 4 * Second(n) + 3
                     \/ n % 4 = 1 /\ Text(n) = 4 * Second(n)
                     \/ n % 4 = 2 /\ Text(n) = 4 * Second(n) + 2
                     \/ n % 4 = 3 /\ Text(n) = 4 * Second(n) + 1
  BY <1>1 DEF Text
<1>3. PICK a \in 0..3 : a = s % 4 /\ s = 4 * Second(s) + a
  BY <1>1
<1>4. PICK b \in 0..3 : b = t % 4 /\ t = 4 * Second(t) + b
  BY <1>1
<1>5. PICK m \in Nat, n \in Nat : m = Second(s) /\ n = Second(t)
  BY <1>1
<1>6. /\ Text(s) = 4 * m + (IF a = 0 THEN 3 ELSE IF a = 1 THEN 0 ELSE IF a = 2 THEN 2 ELSE 1)
      /\ Text(t) = 4 * n + (IF b = 0 THEN 3 ELSE IF b = 1 THEN 0 ELSE IF b = 2 THEN 2 ELSE 1)
  BY <1>2, <1>3, <1>4, <1>5
<1> QED BY <1>3, <1>4, <1>5, <1>6

\* The order of a listing is strict, and orders all there are.
LEMMA PrecedesOrders ==
  ASSUME Table
  PROVE  /\ \A c \in Existing : ~Precedes(c, c)
         /\ \A c, d \in Existing : c # d => Precedes(c, d) \/ Precedes(d, c)
         /\ \A c, d, e \in Existing : Precedes(c, d) /\ Precedes(d, e) => Precedes(c, e)
<1>1. \A c \in Existing : cases[c].created \in Nat /\ c \in Nat
  BY QueryAssumption DEF Table, Existing
<1>2. \A c \in Existing : Text(cases[c].created) \in Nat
  BY <1>1, TextTellsApart
<1>3. \A c, d \in Existing : cases[c].created = cases[d].created <=> Text(cases[c].created) = Text(cases[d].created)
  BY <1>1, TextTellsApart
<1> QED BY <1>1, <1>2, <1>3 DEF Precedes

\* The rows after a cursor are those found, each once, in the order of the listing.
Found(f, cursor) == {c \in Matching(f) : Beyond(cursor, c)}

LEMMA RowsSorted ==
  ASSUME Table, NEW f, NEW cursor
  PROVE  LET rows  == Rows(f, cursor)
             found == Found(f, cursor)
             n     == Cardinality(found)
         IN  /\ n \in Nat /\ rows \in [1..n -> found]
             /\ \A c \in found : \E k \in 1..n : rows[k] = c
             /\ \A i, j \in 1..n : i < j => Precedes(rows[i], rows[j])
<1> DEFINE found == Found(f, cursor)
           n == Cardinality(found)
           rows == Rows(f, cursor)
           before == [c \in found |-> {d \in found : Precedes(d, c)}]
<1>1. found \subseteq Existing /\ IsFiniteSet(found) /\ n \in Nat
  BY FS_Subset, FS_CardinalityType DEF Table, Found, Matching
<1>2. rows = [k \in 1..n |-> CHOOSE c \in found : Cardinality({d \in found : Precedes(d, c)}) = k - 1]
  BY Zenon DEF Rows, Found
<1>3. StrictOrder(found, before)
  <2> HIDE DEF found
  <2> QED BY <1>1, PrecedesOrders DEF StrictOrder
<1>4. \A c \in found : before[c] = {d \in found : Precedes(d, c)}
  OBVIOUS
<1> HIDE DEF found, rows, before
<1>5. ASSUME NEW k \in 1..n PROVE rows[k] \in found /\ Cardinality(before[rows[k]]) = k - 1
  <2>1. PICK c \in found : Place(found, before, k) = {c}
    BY <1>1, <1>3, EveryPlace
  <2>2. c \in found /\ Cardinality({d \in found : Precedes(d, c)}) = k - 1
    BY <1>4, <2>1 DEF Place
  <2>3. rows[k] = CHOOSE x \in found : Cardinality({d \in found : Precedes(d, x)}) = k - 1
    BY <1>2, Zenon
  <2>4. rows[k] \in found /\ Cardinality({d \in found : Precedes(d, rows[k])}) = k - 1
    BY <2>2, <2>3, Zenon
  <2> QED BY <1>4, <2>4
<1>6. rows \in [1..n -> found]
  BY <1>2, <1>5
<1>7. ASSUME NEW c \in found PROVE \E k \in 1..n : rows[k] = c
  <2>1. PICK k \in 1..n : Cardinality(before[c]) = k - 1
    <3>1. Cardinality(before[c]) \in 0..(n - 1)
      BY <1>1, <1>3, FewerBefore
    <3> QED BY <1>1, <3>1
  <2>2. rows[k] \in found /\ Cardinality(before[rows[k]]) = k - 1
    BY <1>5
  <2>3. PICK x \in found : Place(found, before, k) = {x}
    BY <1>1, <1>3, EveryPlace
  <2> QED BY <2>1, <2>2, <2>3 DEF Place
<1>8. ASSUME NEW i \in 1..n, NEW j \in 1..n, i < j PROVE Precedes(rows[i], rows[j])
  <2>1. rows[i] \in before[rows[j]]
    BY <1>1, <1>3, <1>5, <1>8, FewerBefore
  <2> QED BY <1>4, <1>5, <2>1
<1> QED BY <1>1, <1>6, <1>7, <1>8 DEF found, rows

LEMMA LesserOfTwo ==
  ASSUME NEW a \in Nat, NEW b \in Nat
  PROVE  Min({a, b}) = IF a <= b THEN a ELSE b
BY LeastNat

\* A page is a beginning of the rows found, and all of them unless there are more.
Begins(items, more, found) ==
  /\ items \in Seq(found)
  /\ \A i, j \in 1..Len(items) : i < j => Precedes(items[i], items[j])
  /\ more => Len(items) > 0
  /\ more => \A c \in found : \/ \E i \in 1..Len(items) : items[i] = c
                             \/ Precedes(items[Len(items)], c)
  /\ ~more => Len(items) = Cardinality(found)
  /\ ~more => \A c \in found : \E i \in 1..Len(items) : items[i] = c

LEMMA PageBegins ==
  ASSUME Table, NEW r, NEW f, NEW cursor, reading[r].limit \in Nat \ {0}
  PROVE  Begins(Page(r, Rows(f, cursor)).items, Page(r, Rows(f, cursor)).more, Found(f, cursor))
<1>1. PICK found, n, rows : found = Found(f, cursor) /\ n = Cardinality(found) /\ rows = Rows(f, cursor)
  OBVIOUS
<1>2. /\ n \in Nat /\ rows \in [1..n -> found]
      /\ \A c \in found : \E k \in 1..n : rows[k] = c
      /\ \A i, j \in 1..n : i < j => Precedes(rows[i], rows[j])
  BY <1>1, RowsSorted
<1>3. PICK limit \in Nat \ {0} : limit = reading[r].limit
  OBVIOUS
<1>4. PICK items, more : items = Page(r, rows).items /\ more = Page(r, rows).more
  OBVIOUS
<1>5. rows \in Seq(found) /\ Len(rows) = n
  BY <1>2, LenProperties
<1>6. PICK len \in Nat : len = Min({limit, n}) /\ len <= n /\ len <= limit /\ (limit <= n => len = limit)
                          /\ (n <= limit => len = n)
  <2>1. Min({limit, n}) = IF limit <= n THEN limit ELSE n
    BY <1>2, LesserOfTwo
  <2> QED BY <1>2, <2>1
<1>7. len \in Nat /\ len <= n /\ len <= limit /\ (limit <= n => len = limit) /\ (n <= limit => len = n)
  BY <1>6
<1>8. items = SubSeq(rows, 1, len) /\ more = (n > limit)
  BY <1>3, <1>4, <1>5, <1>6, Zenon DEF Page
<1>9. /\ items \in Seq(found) /\ Len(items) = len /\ \A i \in 1..len : items[i] = rows[i]
      /\ (more <=> n > limit)
  <2>1. items \in Seq(found) /\ Len(items) = len /\ \A i \in 1..len : items[i] = rows[i]
    BY <1>2, <1>5, <1>7, <1>8, SubSeqProperties
  <2>2. more <=> n > limit
    BY <1>8
  <2> QED BY <2>1, <2>2
<1>10. \A i, j \in 1..Len(items) : i < j => Precedes(items[i], items[j])
  BY <1>2, <1>7, <1>9
<1>11. ASSUME more, NEW c \in found
       PROVE  (\E i \in 1..Len(items) : items[i] = c) \/ Precedes(items[Len(items)], c)
  <2>1. len = limit /\ limit < n
    BY <1>2, <1>7, <1>9, <1>11
  <2>2. PICK k \in 1..n : rows[k] = c
    BY <1>2
  <2>3. CASE k <= len
    BY <1>2, <1>7, <1>9, <2>2, <2>3
  <2>4. CASE len < k
    <3>1. len \in 1..n /\ items[len] = rows[len]
      BY <1>2, <1>9, <2>1
    <3> QED BY <1>2, <1>9, <2>2, <2>4, <3>1
  <2> QED BY <1>2, <1>7, <2>3, <2>4
<1>12. more => Len(items) > 0
  BY <1>2, <1>7, <1>9
<1>13. ~more => Len(items) = n /\ \A c \in found : \E i \in 1..Len(items) : items[i] = c
  <2> SUFFICES ASSUME ~more PROVE Len(items) = n /\ \A c \in found : \E i \in 1..Len(items) : items[i] = c
    OBVIOUS
  <2>1. len = n
    BY <1>2, <1>7, <1>9
  <2> QED BY <1>2, <1>7, <1>9, <2>1
<1>14. Begins(items, more, found)
  BY <1>1, <1>9, <1>10, <1>11, <1>12, <1>13 DEF Begins
<1> QED BY <1>1, <1>4, <1>14
-----------------------------------------------------------------------------
(* Walks, and the handlers that serve them.                                *)

WalkType == [filter : Filter, seen : SUBSET Case, repeated : BOOLEAN, over : BOOLEAN,
             cursor : [created : Nat, case : Case, filter : Filter] \cup {None},
             steady : SUBSET Case]

\* A case created in the seconds of a filter's range.
Within(f, c) ==
  /\ f.from = None \/ Second(f.from) <= Second(cases[c].created)
  /\ f.to = None \/ Second(cases[c].created) <= Second(f.to)

\* Nothing shown so far lies beyond the cursor, and what the client still
\* expects lies there.
Walked(w) ==
  /\ w.seen \subseteq Existing /\ w.steady \subseteq Existing
  /\ ~w.repeated
  /\ \A c \in w.steady : Matches(w.filter, cases[c])
  /\ \A c \in w.seen : Within(w.filter, c)
  /\ w.cursor = None => w.over \/ w.seen = {}
  /\ w.cursor # None =>
       /\ ~w.over
       /\ w.cursor.case \in Existing /\ w.cursor.created = cases[w.cursor.case].created
       /\ w.cursor.filter = w.filter
       /\ \A c \in w.seen : ~Beyond(w.cursor, c)
  /\ \A c \in w.steady : c \in w.seen \/ (~w.over /\ Beyond(w.cursor, c))

\* The states add up to no more than there are cases.
Counted(counts) ==
  counts \in [State -> Nat] /\ SumFunction(counts) <= Cardinality(Existing)

\* Without a filter, the total is between the two.
Totalled(f, counts, total) ==
  /\ total \in Nat
  /\ f = NoWalk.filter => SumFunction(counts) <= total /\ total <= Cardinality(Existing)

\* What a page shows lies beyond the cursor, in order, and leaves out of what is
\* expected there only what comes after it.
Shown(w, items, more) ==
  /\ items \in Seq(Existing)
  /\ \A i \in 1..Len(items) : Beyond(w.cursor, items[i]) /\ Within(w.filter, items[i])
  /\ \A i, j \in 1..Len(items) : i < j => Precedes(items[i], items[j])
  /\ more => Len(items) > 0
  /\ \A c \in w.steady :
       Beyond(w.cursor, c) => \/ \E i \in 1..Len(items) : items[i] = c
                              \/ more /\ Precedes(items[Len(items)], c)

\* A first and only page shows all there are.
OnlyPage(w, total, items, more) ==
  w.filter = NoWalk.filter /\ w.cursor = None /\ ~more => total <= Len(items)

\* The stages of a listing.
AtCounts(v, w) ==
  \E l \in Limit : v = [at |-> "counts", filter |-> w.filter, cursor |-> w.cursor, limit |-> l]

AtCounting(v, w) ==
  \E l \in Limit : \E counts :
    /\ Counted(counts)
    /\ v = [at |-> "counting", filter |-> w.filter, cursor |-> w.cursor, limit |-> l, counts |-> counts]

AtTotal(v, w) ==
  \E l \in Limit : \E counts :
    /\ Counted(counts)
    /\ v = [at |-> "total", filter |-> w.filter, cursor |-> w.cursor, limit |-> l, counts |-> counts]

AtPage(v, w) ==
  \E l \in Limit : \E counts, total :
    /\ Totalled(w.filter, counts, total)
    /\ v = [at |-> "page", filter |-> w.filter, cursor |-> w.cursor, limit |-> l,
            counts |-> counts, total |-> total]

AtAnswer(v, w) ==
  \E l \in Limit : \E counts, total, items, more :
    /\ Totalled(w.filter, counts, total)
    /\ Shown(w, items, more) /\ OnlyPage(w, total, items, more)
    /\ v = [at |-> "answer", filter |-> w.filter, cursor |-> w.cursor, limit |-> l,
            counts |-> counts, total |-> total, items |-> items, more |-> more]

Listing(v, w) ==
  AtCounts(v, w) \/ AtCounting(v, w) \/ AtTotal(v, w) \/ AtPage(v, w) \/ AtAnswer(v, w)

LEMMA StageNames ==
  ASSUME NEW v, NEW w
  PROVE  /\ AtCounts(v, w) => v.at = "counts"
         /\ AtCounting(v, w) => v.at = "counting"
         /\ AtTotal(v, w) => v.at = "total"
         /\ AtPage(v, w) => v.at = "page"
         /\ AtAnswer(v, w) => v.at = "answer"
BY DEF AtCounts, AtCounting, AtTotal, AtPage, AtAnswer

\* Idle, or between two queries of a snapshot.
Elsewhere(v) == "at" \in DOMAIN v /\ v.at \in {"idle", "rows", "upper", "summary"}

Handling(v, w) == Elsewhere(v) \/ (~w.over /\ Listing(v, w))

Served ==
  /\ Table
  /\ \E R : reading \in [Reader -> R]
  /\ walks \in [Reader -> WalkType]
  /\ \A r \in Reader : Walked(walks[r]) /\ Handling(reading[r], walks[r])

\* What a commit keeps of the cases there were.
Kept ==
  /\ Table /\ Table' /\ Existing \subseteq Existing'
  /\ \A c \in Existing : cases'[c].created = cases[c].created

LEMMA OrderKept ==
  ASSUME Kept
  PROVE  /\ \A c, d \in Existing : Precedes(c, d)' <=> Precedes(c, d)
         /\ \A cursor : \A c \in Existing : Beyond(cursor, c)' <=> Beyond(cursor, c)
         /\ \A f : \A c \in Existing : Within(f, c)' <=> Within(f, c)
         /\ Cardinality(Existing) \in Nat /\ Cardinality(Existing') \in Nat
         /\ Cardinality(Existing) <= Cardinality(Existing')
<1>1. /\ Cardinality(Existing) \in Nat /\ Cardinality(Existing') \in Nat
      /\ Cardinality(Existing) <= Cardinality(Existing')
  BY FS_CardinalityType, FS_Subset DEF Kept, Table
<1>2. \A c, d \in Existing : Precedes(c, d)' <=> Precedes(c, d)
  BY DEF Kept, Precedes
<1>3. \A cursor : \A c \in Existing : Beyond(cursor, c)' <=> Beyond(cursor, c)
  BY DEF Kept, Beyond
<1>4. \A f : \A c \in Existing : Within(f, c)' <=> Within(f, c)
  BY DEF Kept, Within
<1> QED BY <1>1, <1>2, <1>3, <1>4

\* A walk whose client expects less stands as well after a commit.
LEMMA WalkKept ==
  ASSUME Kept, NEW w \in WalkType, Walked(w), NEW steady \in SUBSET w.steady,
         \A c \in steady : Matches(w.filter, cases'[c])
  PROVE  Walked([w EXCEPT !.steady = steady])'
<1> DEFINE w2 == [w EXCEPT !.steady = steady]
<1>1. /\ w2.filter = w.filter /\ w2.seen = w.seen /\ w2.repeated = w.repeated /\ w2.over = w.over
      /\ w2.cursor = w.cursor /\ w2.steady = steady
  BY DEF WalkType
<1> HIDE DEF w2
<1>2. /\ w2.seen \subseteq Existing' /\ w2.steady \subseteq Existing'
      /\ ~w2.repeated
      /\ w2.cursor = None => w2.over \/ w2.seen = {}
  BY <1>1 DEF Walked, Kept
<1>3. \A c \in w2.steady : Matches(w2.filter, cases'[c])
  BY <1>1
<1>4. \A c \in w2.seen : Within(w2.filter, c)'
  BY <1>1, OrderKept DEF Walked
<1>5. w2.cursor # None =>
       /\ ~w2.over
       /\ w2.cursor.case \in Existing' /\ w2.cursor.created = cases'[w2.cursor.case].created
       /\ w2.cursor.filter = w2.filter
       /\ \A c \in w2.seen : ~Beyond(w2.cursor, c)'
  BY <1>1, OrderKept DEF Walked, Kept
<1>6. \A c \in w2.steady : c \in w2.seen \/ (~w2.over /\ Beyond(w2.cursor, c)')
  BY <1>1, OrderKept DEF Walked
<1>7. Walked(w2)'
  BY <1>2, <1>3, <1>4, <1>5, <1>6 DEF Walked
<1> QED BY <1>7 DEF w2

LEMMA HandlingKept ==
  ASSUME Kept, NEW w \in WalkType, Walked(w), NEW v, Handling(v, w), NEW steady \in SUBSET w.steady
  PROVE  Handling(v, [w EXCEPT !.steady = steady])'
<1> DEFINE w2 == [w EXCEPT !.steady = steady]
<1>1. /\ w2.filter = w.filter /\ w2.seen = w.seen /\ w2.repeated = w.repeated /\ w2.over = w.over
      /\ w2.cursor = w.cursor /\ w2.steady = steady
  BY DEF WalkType
<1> HIDE DEF w2
<1>2. \A counts : Counted(counts) => Counted(counts)'
  <2> SUFFICES ASSUME NEW counts, Counted(counts) PROVE Counted(counts)'
    OBVIOUS
  <2>1. counts \in [State -> Nat] /\ SumFunction(counts) <= Cardinality(Existing)
    BY DEF Counted
  <2>2. SumFunction(counts) \in Nat
    <3>1. SumFunctionOnSet(counts, State) \in Nat
      BY <2>1, SumOfNaturals, QueryAssumption
    <3> QED BY <2>1, <3>1, Zenon DEF SumFunction, SumFunctionOnSet, FoldFunction
  <2> QED BY <2>1, <2>2, OrderKept DEF Counted
<1>3. \A counts, total : Totalled(w.filter, counts, total) => Totalled(w2.filter, counts, total)'
  BY <1>1, OrderKept DEF Totalled
<1>4. \A items, more : Shown(w, items, more) => Shown(w2, items, more)'
  <2> SUFFICES ASSUME NEW items, NEW more, Shown(w, items, more) PROVE Shown(w2, items, more)'
    OBVIOUS
  <2>1. items \in Seq(Existing) /\ (more => Len(items) > 0) /\ Len(items) \in Nat
    BY LenProperties DEF Shown
  <2>2. items \in Seq(Existing') /\ \A i \in 1..Len(items) : items[i] \in Existing
    BY <2>1, SeqMonotonic, ElementOfSeq DEF Kept
  <2>3. \A i \in 1..Len(items) : Beyond(w2.cursor, items[i])' /\ Within(w2.filter, items[i])'
    BY <1>1, <2>2, OrderKept DEF Shown
  <2>4. \A i, j \in 1..Len(items) : i < j => Precedes(items[i], items[j])'
    BY <2>2, OrderKept DEF Shown
  <2>5. \A c \in w2.steady :
          Beyond(w2.cursor, c)' => \/ \E i \in 1..Len(items) : items[i] = c
                                   \/ more /\ Precedes(items[Len(items)], c)'
    <3>1. more => items[Len(items)] \in Existing
      BY <2>1, <2>2
    <3> QED BY <1>1, <2>2, <3>1, OrderKept DEF Shown, Walked
  <2> QED BY <2>1, <2>2, <2>3, <2>4, <2>5 DEF Shown
<1>5. \A total, items, more : OnlyPage(w, total, items, more) => OnlyPage(w2, total, items, more)'
  BY <1>1 DEF OnlyPage
<1>6. Listing(v, w) => Listing(v, w2)'
  <2>1. AtCounts(v, w) => AtCounts(v, w2)'
    BY <1>1 DEF AtCounts
  <2>2. AtCounting(v, w) => AtCounting(v, w2)'
    BY <1>1, <1>2 DEF AtCounting
  <2>3. AtTotal(v, w) => AtTotal(v, w2)'
    BY <1>1, <1>2 DEF AtTotal
  <2>4. AtPage(v, w) => AtPage(v, w2)'
    BY <1>1, <1>3 DEF AtPage
  <2>5. AtAnswer(v, w) => AtAnswer(v, w2)'
    BY <1>1, <1>3, <1>4, <1>5 DEF AtAnswer
  <2> QED BY <2>1, <2>2, <2>3, <2>4, <2>5 DEF Listing
<1>7. Handling(v, w2)'
  BY <1>1, <1>6 DEF Handling, Elsewhere
<1> QED BY <1>7 DEF w2

LEMMA WriteServed ==
  ASSUME Served, Write
  PROVE  Served'
<1>1. PICK c, row :
        /\ c \in Case /\ Put(c, row)
        /\ row \in [created : Instant[c], site : Site, state : State, revision : 1..MaxRevision]
        /\ cases[c] # None => row.created = cases[c].created
  BY WritePuts DEF Served
<1>2. /\ Kept /\ Table' /\ cases'[c] = row
      /\ \A d \in Case \ {c} : cases'[d] = cases[d]
  BY <1>1, RowPut DEF Served, Kept
<1>3. reading' = reading /\ Steady(c, row)
  BY <1>1 DEF Put
<1>4. ASSUME NEW r \in Reader
      PROVE  /\ walks'[r] \in WalkType /\ (Walked(walks[r]) /\ Handling(reading[r], walks[r]))'
  <2>1. PICK w \in WalkType : w = walks[r] /\ Walked(w) /\ Handling(reading[r], w)
    BY DEF Served
  <2>2. PICK steady : steady = IF Matches(w.filter, row) THEN w.steady ELSE w.steady \ {c}
    OBVIOUS
  <2>3. walks'[r] = [w EXCEPT !.steady = steady]
    BY <1>3, <2>1, <2>2 DEF Steady
  <2>4. steady \in SUBSET w.steady
    BY <2>2
  <2>5. \A d \in steady : Matches(w.filter, cases'[d])
    <3> TAKE d \in steady
    <3>1. d \in Case /\ Matches(w.filter, cases[d])
      BY <2>1, <2>4 DEF Walked, WalkType
    <3> QED BY <1>2, <2>2, <3>1
  <2>6. [w EXCEPT !.steady = steady] \in WalkType
    BY <2>4 DEF WalkType
  <2> QED BY <1>2, <1>3, <2>1, <2>3, <2>4, <2>5, <2>6, WalkKept, HandlingKept
<1>5. walks' \in [Reader -> WalkType]
  BY <1>3, <1>4 DEF Steady
<1> QED BY <1>2, <1>3, <1>4, <1>5 DEF Served

\* One handler goes on, with its client's walk, and the cases stay.
LEMMA ReaderMoves ==
  ASSUME Served, UNCHANGED cases, NEW r \in Reader, NEW v, NEW w \in WalkType,
         Goto(r, v), walks' = [walks EXCEPT ![r] = w], Walked(w), Handling(v, w)
  PROVE  Served'
<1>1. PICK R : reading \in [Reader -> R]
  BY DEF Served
<1>2. /\ reading' \in [Reader -> R \cup {v}] /\ reading'[r] = v
      /\ \A q \in Reader \ {r} : reading'[q] = reading[q]
  BY <1>1 DEF Goto
<1>3. /\ walks' \in [Reader -> WalkType] /\ walks'[r] = w
      /\ \A q \in Reader \ {r} : walks'[q] = walks[q]
  BY DEF Served
<1>4. Table'
  BY DEF Served, Table, Existing
<1>5. \A x : Walked(x)' <=> Walked(x)
  BY DEF Walked, Existing, Matches, Within, Beyond
<1>6. \A x, y : Handling(x, y) => Handling(x, y)'
  <2>1. \A counts : Counted(counts) => Counted(counts)'
    BY DEF Counted, Existing
  <2>2. \A f, counts, total : Totalled(f, counts, total) => Totalled(f, counts, total)'
    BY DEF Totalled, Existing
  <2>3. \A x, items, more : Shown(x, items, more) => Shown(x, items, more)'
    BY DEF Shown, Existing, Beyond, Within, Precedes
  <2>4. \A x, total, items, more : OnlyPage(x, total, items, more) => OnlyPage(x, total, items, more)'
    BY DEF OnlyPage
  <2>5. \A x, y : Listing(x, y) => Listing(x, y)'
    BY <2>1, <2>2, <2>3, <2>4 DEF Listing, AtCounts, AtCounting, AtTotal, AtPage, AtAnswer
  <2> QED BY <2>5 DEF Handling, Elsewhere
<1>7. ASSUME NEW q \in Reader PROVE (Walked(walks[q]) /\ Handling(reading[q], walks[q]))'
  <2>1. PICK x, y : x = reading'[q] /\ y = walks'[q]
    OBVIOUS
  <2>2. Walked(y) /\ Handling(x, y)
    BY <1>2, <1>3, <2>1 DEF Served
  <2>3. Walked(y)' /\ Handling(x, y)'
    BY <1>5, <1>6, <2>2
  <2> QED BY <2>1, <2>3
<1> QED BY <1>2, <1>3, <1>4, <1>7 DEF Served

\* A handler that goes on with something else than a listing, or stops.
LEMMA SnapshotServed ==
  ASSUME Served, UNCHANGED <<cases, walks>>, NEW r \in Reader, NEW v, Goto(r, v), Elsewhere(v)
  PROVE  Served'
<1>1. walks[r] \in WalkType /\ Walked(walks[r]) /\ walks' = [walks EXCEPT ![r] = walks[r]]
  BY DEF Served
<1> QED BY <1>1, ReaderMoves DEF Handling

\* A listing goes on from one of its queries to the next.
LEMMA ListingServed ==
  ASSUME Served, UNCHANGED <<cases, walks>>, NEW r \in Reader, NEW v, Goto(r, v),
         ~walks[r].over, Listing(v, walks[r])
  PROVE  Served'
<1>1. walks[r] \in WalkType /\ Walked(walks[r]) /\ walks' = [walks EXCEPT ![r] = walks[r]]
  BY DEF Served
<1> QED BY <1>1, ReaderMoves DEF Handling

\* The handler of a listing at one of its stages.
LEMMA AtListing ==
  ASSUME Served, NEW r \in Reader, reading[r].at \in {"counts", "counting", "total", "page", "answer"}
  PROVE  /\ walks[r] \in WalkType /\ Walked(walks[r]) /\ ~walks[r].over
         /\ Listing(reading[r], walks[r])
BY DEF Served, Handling, Elsewhere

LEMMA StartWalkServed ==
  ASSUME Served, NEW r \in Reader, NEW f \in FilterInput, NEW limit \in Limit, StartWalk(r, f, limit)
  PROVE  Served'
<1>1. PICK w : w = [filter |-> f, seen |-> {}, repeated |-> FALSE, over |-> FALSE,
                    cursor |-> None, steady |-> Matching(f)]
  OBVIOUS
<1>2. PICK v : v = [at |-> "counts", filter |-> f, cursor |-> None, limit |-> limit]
  OBVIOUS
<1>3. Matching(f) \subseteq Existing /\ \A c \in Matching(f) : Matches(f, cases[c])
  BY DEF Matching
<1>4. w \in WalkType
  BY <1>1, <1>3, QueryAssumption DEF WalkType, Existing
<1>5. Walked(w)
  BY <1>1, <1>3 DEF Walked, Beyond
<1>6. Listing(v, w)
  BY <1>1, <1>2 DEF Listing, AtCounts
<1>7. Goto(r, v) /\ walks' = [walks EXCEPT ![r] = w] /\ UNCHANGED cases
  BY <1>1, <1>2, Zenon DEF StartWalk, Ask, Goto
<1> QED BY <1>1, <1>4, <1>5, <1>6, <1>7, ReaderMoves DEF Handling

LEMMA NextPageServed ==
  ASSUME Served, NEW r \in Reader, NEW f \in FilterInput, NEW limit \in Limit, NextPage(r, f, limit)
  PROVE  Served'
<1>1. walks[r].cursor # None /\ walks[r].cursor.filter = f
  BY DEF NextPage, ListFilterDigest
<1>2. Walked(walks[r])
  BY DEF Served
<1>3. ~walks[r].over /\ f = walks[r].filter
  BY <1>1, <1>2 DEF Walked
<1>4. PICK v : v = [at |-> "counts", filter |-> walks[r].filter, cursor |-> walks[r].cursor, limit |-> limit]
  OBVIOUS
<1>5. Goto(r, v) /\ UNCHANGED <<cases, walks>>
  BY <1>3, <1>4, Zenon DEF NextPage, Ask, Goto
<1>6. Listing(v, walks[r])
  BY <1>4 DEF Listing, AtCounts
<1> QED BY <1>3, <1>5, <1>6, ListingServed

\* The cases in one state, over all states, are no more than the cases.
LEMMA StatesAddUp ==
  ASSUME Table
  PROVE  Counted([s \in State |-> Cardinality({c \in Existing : cases[c].state = s})])
<1> DEFINE of(s) == {c \in Existing : cases[c].state = s}
           counts == [s \in State |-> Cardinality(of(s))]
           among(T) == {c \in Existing : cases[c].state \in T}
<1>1. \A s \in State : IsFiniteSet(of(s)) /\ counts[s] \in Nat
  BY FS_Subset, FS_CardinalityType DEF Table
<1>2. \A T \in SUBSET State : /\ IsFiniteSet(among(T)) /\ Cardinality(among(T)) \in Nat
                              /\ IsFiniteSet(T)
  BY FS_Subset, FS_CardinalityType, QueryAssumption DEF Table
<1> HIDE DEF counts
<1>3. ASSUME NEW T \in SUBSET State, SumFunctionOnSet(counts, T) # Cardinality(among(T)) PROVE FALSE
  <2> DEFINE wrong == {U \in SUBSET State : SumFunctionOnSet(counts, U) # Cardinality(among(U))}
  <2>1. PICK U \in wrong : \A V \in wrong : <<V, U>> \notin StrictSubsetOrdering(State)
    <3>1. IsWellFoundedOn(StrictSubsetOrdering(State), SUBSET State)
      BY FS_StrictSubsetOrderingWellFounded, FS_FiniteSubsetsOfFinite, QueryAssumption
    <3>2. wrong \subseteq SUBSET State /\ T \in wrong
      BY <1>3
    <3> HIDE DEF wrong
    <3> QED BY <3>1, <3>2, WFMin, Zenon
  <2>2. /\ SumFunctionOnSet(counts, U) \in Nat /\ SumFunctionOnSet(counts, {}) = 0
        /\ \A s \in U : SumFunctionOnSet(counts, U) = counts[s] + SumFunctionOnSet(counts, U \ {s})
    <3>1. IsFiniteSet(U) /\ \A s \in U : counts[s] \in Nat
      BY <1>1, <1>2
    <3> QED BY <3>1, SumOfNaturals
  <2>3. CASE U = {}
    BY <2>1, <2>2, <2>3, FS_EmptySet
  <2>4. CASE U # {}
    <3>1. PICK s \in U : s \in State
      BY <2>4
    <3>2. <<U \ {s}, U>> \in StrictSubsetOrdering(State)
      BY <3>1 DEF StrictSubsetOrdering
    <3>3. SumFunctionOnSet(counts, U \ {s}) = Cardinality(among(U \ {s}))
      BY <2>1, <3>2
    <3>4. among(U) = of(s) \cup among(U \ {s}) /\ of(s) \cap among(U \ {s}) = {}
      BY <3>1
    <3>5. Cardinality(among(U)) = Cardinality(of(s)) + Cardinality(among(U \ {s})) - Cardinality({})
      BY <1>1, <1>2, <3>1, <3>4, FS_Union, Zenon
    <3>6. counts[s] = Cardinality(of(s))
      BY <3>1 DEF counts
    <3>7. SumFunctionOnSet(counts, U) = counts[s] + SumFunctionOnSet(counts, U \ {s})
      BY <2>2, <3>1
    <3>8. SumFunctionOnSet(counts, U) # Cardinality(among(U))
      BY <2>1
    <3>9. /\ Cardinality(of(s)) \in Nat /\ Cardinality(among(U \ {s})) \in Nat
          /\ Cardinality({}) = 0
      BY <1>1, <1>2, <2>1, <3>1, <3>6, FS_EmptySet
    <3> HIDE DEF of, among, wrong
    <3> QED BY <3>3, <3>5, <3>6, <3>7, <3>8, <3>9
  <2> QED BY <2>3, <2>4
<1>4. among(State) = Existing
  BY DEF Table, Existing
<1>5. SumFunction(counts) = Cardinality(Existing)
  <2>1. DOMAIN counts = State
    BY DEF counts
  <2>2. SumFunction(counts) = SumFunctionOnSet(counts, State)
    BY <2>1, Zenon DEF SumFunction, SumFunctionOnSet, FoldFunction
  <2> QED BY <1>3, <1>4, <2>2
<1>6. counts \in [State -> Nat]
  BY <1>1 DEF counts
<1>7. Counted(counts)
  BY <1>2, <1>4, <1>5, <1>6 DEF Counted
<1> QED BY <1>7, Zenon DEF counts

\* The counts of the states, and the total after them.
LEMMA CountsServed ==
  ASSUME Served, NEW r \in Reader, CountStates(r) \/ CloseCounts(r) \/ CountTotal(r)
  PROVE  Served'
<1> DEFINE w == walks[r]
<1>1. /\ reading[r].at \in {"counts", "counting", "total"}
      /\ UNCHANGED <<cases, walks>>
  BY DEF CountStates, CloseCounts, CountTotal
<1>2. w \in WalkType /\ Walked(w) /\ ~w.over /\ Listing(reading[r], w)
  BY <1>1, AtListing
<1>3. Table
  BY DEF Served
<1> HIDE DEF w
<1>4. CASE CountStates(r)
  <2>1. PICK l \in Limit : reading[r] = [at |-> "counts", filter |-> w.filter, cursor |-> w.cursor, limit |-> l]
    <3>1. AtCounts(reading[r], w)
      BY <1>2, <1>4, StageNames DEF CountStates, Listing
    <3> QED BY <3>1 DEF AtCounts
  <2>2. PICK counts : counts = [s \in State |-> Cardinality({c \in Existing : cases[c].state = s})]
    OBVIOUS
  <2>3. PICK v : v = [at |-> "counting", filter |-> w.filter, cursor |-> w.cursor, limit |-> l, counts |-> counts]
    OBVIOUS
  <2>4. Goto(r, v)
    <3>1. Goto(r, [at |-> "counting", filter |-> reading[r].filter, cursor |-> reading[r].cursor,
                   limit |-> reading[r].limit, counts |-> counts])
      BY <1>4, <2>2, Zenon DEF CountStates
    <3> QED BY <2>1, <2>3, <3>1
  <2>5. Counted(counts)
    BY <1>3, <2>2, StatesAddUp
  <2>6. Listing(v, w)
    BY <2>3, <2>5 DEF Listing, AtCounting
  <2> QED BY <1>1, <1>2, <2>4, <2>6, ListingServed DEF w
<1>5. CASE CloseCounts(r)
  <2>1. PICK l \in Limit : \E counts :
          /\ Counted(counts)
          /\ reading[r] = [at |-> "counting", filter |-> w.filter, cursor |-> w.cursor, limit |-> l, counts |-> counts]
    <3>1. AtCounting(reading[r], w)
      BY <1>2, <1>5, StageNames DEF CloseCounts, Listing
    <3> QED BY <3>1 DEF AtCounting
  <2>2. PICK counts :
          /\ Counted(counts)
          /\ reading[r] = [at |-> "counting", filter |-> w.filter, cursor |-> w.cursor, limit |-> l, counts |-> counts]
    BY <2>1
  <2>3. PICK v : v = [at |-> "total", filter |-> w.filter, cursor |-> w.cursor, limit |-> l, counts |-> counts]
    OBVIOUS
  <2>4. Goto(r, v)
    BY <1>5, <2>2, <2>3 DEF CloseCounts
  <2>5. Listing(v, w)
    BY <2>2, <2>3 DEF Listing, AtTotal
  <2> QED BY <1>1, <1>2, <2>4, <2>5, ListingServed DEF w
<1>6. CASE CountTotal(r)
  <2>1. PICK l \in Limit : \E counts :
          /\ Counted(counts)
          /\ reading[r] = [at |-> "total", filter |-> w.filter, cursor |-> w.cursor, limit |-> l, counts |-> counts]
    <3>1. AtTotal(reading[r], w)
      BY <1>2, <1>6, StageNames DEF CountTotal, Listing
    <3> QED BY <3>1 DEF AtTotal
  <2>2. PICK counts :
          /\ Counted(counts)
          /\ reading[r] = [at |-> "total", filter |-> w.filter, cursor |-> w.cursor, limit |-> l, counts |-> counts]
    BY <2>1
  <2>3. PICK total : total = Cardinality(Matching(w.filter))
    OBVIOUS
  <2>4. PICK v : v = [at |-> "page", filter |-> w.filter, cursor |-> w.cursor, limit |-> l,
                      counts |-> counts, total |-> total]
    OBVIOUS
  <2>5. Goto(r, v)
    BY <1>6, <2>2, <2>3, <2>4 DEF CountTotal
  <2>6. Totalled(w.filter, counts, total)
    <3>1. total \in Nat
      BY <1>3, <2>3, FS_Subset, FS_CardinalityType DEF Table, Matching
    <3>2. w.filter = NoWalk.filter => total = Cardinality(Existing)
      <4>1. Matching(NoWalk.filter) = Existing
        BY DEF Matching, Matches, NoWalk
      <4> QED BY <2>3, <4>1
    <3> QED BY <2>2, <3>1, <3>2 DEF Totalled, Counted
  <2>7. Listing(v, w)
    BY <2>4, <2>6 DEF Listing, AtPage
  <2> QED BY <1>1, <1>2, <2>5, <2>7, ListingServed DEF w
<1> QED BY <1>4, <1>5, <1>6

\* What a page leaves out comes after its last case.
LEMMA PageServed ==
  ASSUME Served, NEW r \in Reader, ReadPage(r)
  PROVE  Served'
<1> DEFINE w == walks[r]
<1>1. reading[r].at = "page" /\ UNCHANGED <<cases, walks>>
  BY DEF ReadPage
<1>2. w \in WalkType /\ Walked(w) /\ ~w.over /\ Listing(reading[r], w)
  BY <1>1, AtListing
<1>3. Table
  BY DEF Served
<1> HIDE DEF w
<1>4. PICK l \in Limit : \E counts, total :
        /\ Totalled(w.filter, counts, total)
        /\ reading[r] = [at |-> "page", filter |-> w.filter, cursor |-> w.cursor, limit |-> l,
                         counts |-> counts, total |-> total]
  <2>1. AtPage(reading[r], w)
    BY <1>1, <1>2, StageNames DEF Listing
  <2> QED BY <2>1 DEF AtPage
<1>5. PICK counts, total :
        /\ Totalled(w.filter, counts, total)
        /\ reading[r] = [at |-> "page", filter |-> w.filter, cursor |-> w.cursor, limit |-> l,
                         counts |-> counts, total |-> total]
  BY <1>4
<1>6. PICK items, more : /\ items = Page(r, Rows(w.filter, w.cursor)).items
                         /\ more = Page(r, Rows(w.filter, w.cursor)).more
  OBVIOUS
<1>7. PICK v : v = [at |-> "answer", filter |-> w.filter, cursor |-> w.cursor, limit |-> l,
                    counts |-> counts, total |-> total, items |-> items, more |-> more]
  OBVIOUS
<1>8. Goto(r, v)
  <2>1. Goto(r, [at |-> "answer", filter |-> reading[r].filter, cursor |-> reading[r].cursor,
                 limit |-> reading[r].limit, counts |-> reading[r].counts, total |-> reading[r].total,
                 items |-> Page(r, Rows(reading[r].filter, reading[r].cursor)).items,
                 more |-> Page(r, Rows(reading[r].filter, reading[r].cursor)).more])
    BY Zenon DEF ReadPage
  <2> QED BY <1>5, <1>6, <1>7, <2>1
<1>9. PICK found : found = Found(w.filter, w.cursor)
  OBVIOUS
<1>10. /\ items \in Seq(found) /\ Len(items) \in Nat
       /\ \A i, j \in 1..Len(items) : i < j => Precedes(items[i], items[j])
       /\ more => Len(items) > 0 /\
            \A c \in found : \/ \E i \in 1..Len(items) : items[i] = c
                             \/ Precedes(items[Len(items)], c)
       /\ ~more => /\ Len(items) = Cardinality(found)
                   /\ \A c \in found : \E i \in 1..Len(items) : items[i] = c
  <2>1. reading[r].limit \in Nat \ {0}
    BY <1>5, QueryAssumption
  <2>2. Begins(items, more, found)
    BY <1>3, <1>6, <1>9, <2>1, PageBegins
  <2> QED BY <2>2, LenProperties DEF Begins
<1>11. \A i \in 1..Len(items) : items[i] \in found
  BY <1>10, ElementOfSeq
<1>12. found \subseteq Existing /\ \A c \in found : Matches(w.filter, cases[c]) /\ Beyond(w.cursor, c)
  BY <1>9 DEF Found, Matching
<1>13. Shown(w, items, more)
  <2>1. \A c \in found : Within(w.filter, c)
    <3> TAKE c \in found
    <3>1. cases[c].created \in Nat
      BY <1>3, <1>12, QueryAssumption DEF Table, Existing
    <3>2. w.filter \in Filter
      BY <1>2 DEF WalkType
    <3>3. w.filter.from \in Nat \cup {None} /\ w.filter.to \in Nat \cup {None}
      BY <3>2 DEF Filter
    <3> QED BY <1>12, <3>1, <3>3, TextTellsApart DEF Within, Matches
  <2>2. items \in Seq(Existing)
    BY <1>10, <1>12, SeqMonotonic
  <2>3. \A c \in w.steady : Beyond(w.cursor, c) => c \in found
    BY <1>2, <1>9 DEF Walked, Found, Matching
  <2> QED BY <1>10, <1>11, <1>12, <2>1, <2>2, <2>3 DEF Shown
<1>14. OnlyPage(w, total, items, more)
  <2> SUFFICES ASSUME w.filter = NoWalk.filter, w.cursor = None, ~more PROVE total <= Len(items)
    BY DEF OnlyPage
  <2>1. Existing = found
    BY <1>9 DEF Found, Matching, Matches, Beyond, NoWalk
  <2> QED BY <1>5, <1>10, <2>1 DEF Totalled
<1>15. Listing(v, w)
  BY <1>5, <1>7, <1>13, <1>14 DEF Listing, AtAnswer
<1> QED BY <1>1, <1>2, <1>8, <1>15, ListingServed DEF w

\* Beyond the cursor of a case are the cases it precedes.
LEMMA BeyondFollows ==
  ASSUME Table, NEW cursor, cursor # None, cursor.case \in Existing,
         cursor.created = cases[cursor.case].created, NEW c \in Existing
  PROVE  Beyond(cursor, c) <=> Precedes(cursor.case, c)
<1>1. cases[c].created \in Nat /\ cases[cursor.case].created \in Nat
  BY QueryAssumption DEF Table, Existing
<1>2. Text(cases[c].created) \in Nat /\ Text(cases[cursor.case].created) \in Nat
  BY <1>1, TextTellsApart
<1>3. c \in Nat /\ cursor.case \in Nat
  BY QueryAssumption DEF Existing
<1> QED BY <1>1, <1>2, <1>3 DEF Beyond, Precedes

\* The walk after an answer: nothing was shown before, and what is left comes
\* after the new cursor.
LEMMA WalkGoesOn ==
  ASSUME Table, NEW w \in WalkType, Walked(w), ~w.over, NEW items, NEW more, Shown(w, items, more),
         NEW w2,
         w2.filter = w.filter, w2.steady = w.steady,
         w2.seen = w.seen \cup ToSet(items),
         w2.repeated <=> w.repeated \/ ToSet(items) \cap w.seen # {},
         w2.over <=> ~more,
         ~more => w2.cursor = None,
         more => /\ w2.cursor # None
                 /\ w2.cursor.case = items[Len(items)]
                 /\ w2.cursor.created = cases[items[Len(items)]].created
                 /\ w2.cursor.filter = w.filter
  PROVE  Walked(w2)
<1>1. /\ Len(items) \in Nat /\ items \in [1..Len(items) -> Existing] /\ DOMAIN items = 1..Len(items)
  BY LenProperties DEF Shown
<1>2. PICK n, shown : n \in Nat /\ n = Len(items) /\ shown = ToSet(items)
  BY <1>1
<1>3. shown = {items[i] : i \in 1..n} /\ shown \subseteq Existing
  BY <1>1, <1>2 DEF ToSet
<1>4. \A c \in shown : Beyond(w.cursor, c) /\ Within(w.filter, c)
  BY <1>2, <1>3 DEF Shown
<1>5. \A c \in w.seen : w.cursor # None /\ ~Beyond(w.cursor, c)
  BY DEF Walked
<1>6. ~w2.repeated
  BY <1>2, <1>4, <1>5 DEF Walked
<1>7. w2.seen \subseteq Existing /\ w2.steady \subseteq Existing
  BY <1>2, <1>3 DEF Walked
<1>8. \A c \in w2.steady : Matches(w2.filter, cases[c])
  BY DEF Walked
<1>9. \A c \in w2.seen : Within(w2.filter, c)
  BY <1>2, <1>4 DEF Walked
<1>10. ASSUME more
       PROVE  /\ items[n] \in Existing
              /\ \A c \in Existing : Beyond(w2.cursor, c) <=> Precedes(items[n], c)
  <2>1. n > 0 /\ n \in 1..n
    BY <1>2, <1>10 DEF Shown
  <2>2. items[n] \in Existing
    BY <1>1, <1>2, <2>1
  <2> QED BY <1>2, <1>10, <2>2, BeyondFollows
<1>11. ASSUME more, NEW c \in w2.seen
       PROVE  ~Beyond(w2.cursor, c)
  <2>1. c \in Existing
    BY <1>7
  <2>2. CASE c \in shown
    <3>1. PICK i \in 1..n : items[i] = c
      BY <1>3, <2>2
    <3>2. c = items[n] \/ Precedes(c, items[n])
      <4>1. i = n \/ (i < n /\ n \in 1..n)
        BY <1>2
      <4>2. i < n /\ n \in 1..n => Precedes(items[i], items[n])
        BY <1>2 DEF Shown
      <4> QED BY <3>1, <4>1, <4>2
    <3> QED BY <1>10, <1>11, <2>1, <3>2, PrecedesOrders
  <2>3. CASE c \in w.seen
    <3>1. PICK d : d = w.cursor.case
      OBVIOUS
    <3>2. w.cursor # None /\ d \in Existing /\ w.cursor.created = cases[d].created
      BY <1>5, <2>3, <3>1 DEF Walked
    <3>3. \A e \in Existing : Beyond(w.cursor, e) <=> Precedes(d, e)
      BY <3>1, <3>2, BeyondFollows
    <3>4. items[n] \in shown
      BY <1>2, <1>3, <1>11 DEF Shown
    <3>5. Precedes(d, items[n])
      BY <1>3, <1>4, <3>3, <3>4
    <3>6. c = d \/ Precedes(c, d)
      BY <1>5, <2>1, <2>3, <3>2, <3>3, PrecedesOrders
    <3>7. Precedes(c, items[n])
      BY <1>10, <1>11, <2>1, <3>2, <3>5, <3>6, PrecedesOrders
    <3> QED BY <1>10, <1>11, <2>1, <3>7, PrecedesOrders
  <2> QED BY <1>2, <2>2, <2>3
<1>12. ASSUME NEW c \in w2.steady
       PROVE  c \in w2.seen \/ (~w2.over /\ Beyond(w2.cursor, c))
  <2>1. c \in Existing /\ (c \in w.seen \/ Beyond(w.cursor, c))
    BY <1>7 DEF Walked
  <2>2. c \in w.seen \/ c \in shown \/ (more /\ Precedes(items[n], c))
    BY <1>2, <1>3, <2>1 DEF Shown
  <2> QED BY <1>2, <1>10, <2>1, <2>2
<1> QED BY <1>2, <1>6, <1>7, <1>8, <1>9, <1>10, <1>11, <1>12 DEF Walked

LEMMA AnswerServed ==
  ASSUME Served, NEW r \in Reader, Answer(r)
  PROVE  Served'
<1> DEFINE w == walks[r]
<1>1. reading[r].at = "answer" /\ UNCHANGED cases
  BY DEF Answer
<1>2. w \in WalkType /\ Walked(w) /\ ~w.over /\ Listing(reading[r], w)
  BY <1>1, AtListing
<1>3. Table
  BY DEF Served
<1> HIDE DEF w
<1>4. AtAnswer(reading[r], w)
  BY <1>1, <1>2, StageNames DEF Listing
<1>5. PICK l, counts, total, items, more :
        /\ Shown(w, items, more)
        /\ reading[r] = [at |-> "answer", filter |-> w.filter, cursor |-> w.cursor, limit |-> l,
                         counts |-> counts, total |-> total, items |-> items, more |-> more]
  BY <1>4 DEF AtAnswer
<1>6. PICK cursor : cursor = IF more THEN Cursor(r) ELSE None
  OBVIOUS
<1>7. PICK w2 : w2 = [filter |-> w.filter, seen |-> w.seen \cup ToSet(items),
                      repeated |-> (w.repeated \/ ToSet(items) \cap w.seen # {}), over |-> ~more,
                      cursor |-> cursor, steady |-> w.steady]
  OBVIOUS
<1>8. /\ w2.filter = w.filter /\ w2.steady = w.steady /\ w2.seen = w.seen \cup ToSet(items)
      /\ (w2.repeated <=> w.repeated \/ ToSet(items) \cap w.seen # {})
      /\ (w2.over <=> ~more) /\ w2.cursor = cursor
  BY <1>7
<1>9. walks' = [walks EXCEPT ![r] = w2] /\ Goto(r, Idle)
  BY <1>5, <1>6, <1>7 DEF Answer, w
<1>10. ToSet(items) \subseteq Existing /\ (more => items[Len(items)] \in Existing /\ Last(items) = items[Len(items)])
  <2>1. /\ Len(items) \in Nat /\ items \in [1..Len(items) -> Existing] /\ DOMAIN items = 1..Len(items)
    BY <1>5, LenProperties DEF Shown
  <2>2. ToSet(items) \subseteq Existing
    BY <2>1 DEF ToSet
  <2>3. more => items[Len(items)] \in Existing
    BY <1>5, <2>1 DEF Shown
  <2> QED BY <2>2, <2>3 DEF Last
<1>11. more => /\ cursor \in [created : Nat, case : Case, filter : Filter] /\ cursor # None
               /\ cursor.case = items[Len(items)]
               /\ cursor.created = cases[items[Len(items)]].created
               /\ cursor.filter = w.filter
  <2> SUFFICES ASSUME more
               PROVE  /\ cursor \in [created : Nat, case : Case, filter : Filter] /\ cursor # None
                      /\ cursor.case = items[Len(items)]
                      /\ cursor.created = cases[items[Len(items)]].created
                      /\ cursor.filter = w.filter
    OBVIOUS
  <2>1. PICK last \in Existing : last = items[Len(items)]
    BY <1>10
  <2>2. cursor = [created |-> cases[last].created, case |-> last, filter |-> w.filter]
    BY <1>5, <1>6, <1>10, <2>1 DEF Cursor, ListFilterDigest
  <2>3. last \in Case /\ cases[last].created \in Nat /\ w.filter \in Filter
    BY <1>2, <1>3, QueryAssumption DEF Table, Existing, WalkType
  <2>4. cursor \in [created : Nat, case : Case, filter : Filter]
    BY <2>2, <2>3
  <2> QED BY <2>1, <2>2, <2>4, QueryAssumption
<1>12. w2 \in WalkType
  <2>1. cursor \in [created : Nat, case : Case, filter : Filter] \cup {None}
    BY <1>6, <1>11
  <2>2. w.seen \cup ToSet(items) \in SUBSET Case /\ w.filter \in Filter /\ w.steady \in SUBSET Case
    BY <1>2, <1>10 DEF WalkType, Existing
  <2> QED BY <1>7, <2>1, <2>2 DEF WalkType
<1>13. Walked(w2)
  BY <1>2, <1>3, <1>5, <1>6, <1>8, <1>11, WalkGoesOn
<1>14. Handling(Idle, w2)
  BY DEF Handling, Elsewhere, Idle
<1> QED BY <1>1, <1>9, <1>12, <1>13, <1>14, ReaderMoves

LEMMA ServedStep == Served /\ [Next]_vars => Served'
<1> SUFFICES ASSUME Served, [Next]_vars PROVE Served'
  OBVIOUS
<1>1. CASE UNCHANGED vars
  <2>1. CASE Reader = {}
    BY <1>1, <2>1 DEF Served, vars, Table, Existing
  <2>2. ASSUME NEW r \in Reader PROVE Served'
    <3>1. /\ Goto(r, reading[r]) /\ walks' = [walks EXCEPT ![r] = walks[r]] /\ UNCHANGED cases
          /\ walks[r] \in WalkType /\ Walked(walks[r]) /\ Handling(reading[r], walks[r])
      BY <1>1 DEF Served, vars, Goto
    <3> QED BY <3>1, ReaderMoves
  <2> QED BY <2>1, <2>2
<1>2. ASSUME NEW r \in Reader, NEW f, BeginSnapshot(r, f) PROVE Served'
  <2>1. PICK v : v = [at |-> "rows", filter |-> f]
    OBVIOUS
  <2>2. Goto(r, v) /\ UNCHANGED <<cases, walks>>
    BY <1>2, <2>1 DEF BeginSnapshot
  <2>3. Elsewhere(v)
    BY <2>1 DEF Elsewhere
  <2> QED BY <2>2, <2>3, SnapshotServed
<1>3. ASSUME NEW r \in Reader, SnapshotRows(r) \/ SnapshotUpper(r) \/ ReplySummary(r) PROVE Served'
  <2>1. PICK v : Goto(r, v) /\ UNCHANGED <<cases, walks>> /\ Elsewhere(v)
    BY <1>3 DEF SnapshotRows, SnapshotUpper, ReplySummary, Elsewhere, Idle
  <2> QED BY <2>1, SnapshotServed
<1> QED BY <1>1, <1>2, <1>3, WriteServed, StartWalkServed, NextPageServed, CountsServed, PageServed,
           AnswerServed DEF Next, GoOn, Serve

LEMMA ServedInit == Init => Served
<1> SUFFICES ASSUME Init PROVE Served
  OBVIOUS
<1>1. reading \in [Reader -> {Idle}] /\ \A r \in Reader : reading[r] = Idle /\ walks[r] = NoWalk
  BY DEF Init
<1>2. NoWalk \in WalkType
  BY DEF NoWalk, WalkType, Filter
<1>3. walks \in [Reader -> WalkType]
  BY <1>2 DEF Init
<1>4. Walked(NoWalk) /\ Elsewhere(Idle)
  BY DEF Walked, NoWalk, Elsewhere, Idle
<1> QED BY <1>1, <1>3, <1>4, TableInit DEF Served, Handling

-----------------------------------------------------------------------------
(* The connection, and the properties.                                     *)

Holds(v) == v.at \in {"counting", "rows", "upper"}

Holding ==
  /\ \E R : reading \in [Reader -> R]
  /\ \A r \in Reader : conn = r <=> Holds(reading[r])

\* A handler that goes on leaves the others where they are.
LEMMA HandlerMoves ==
  ASSUME Holding, NEW r \in Reader, NEW v, Goto(r, v),
         conn' = r <=> Holds(v), \A q \in Reader \ {r} : conn' = q <=> conn = q
  PROVE  Holding'
<1>1. PICK R : reading \in [Reader -> R]
  BY DEF Holding
<1>2. /\ reading' \in [Reader -> R \cup {v}] /\ reading'[r] = v
      /\ \A q \in Reader \ {r} : reading'[q] = reading[q]
  BY <1>1 DEF Goto
<1>3. ASSUME NEW q \in Reader PROVE conn' = q <=> Holds(reading'[q])
  BY <1>2 DEF Holding
<1> QED BY <1>2, <1>3 DEF Holding

LEMMA HoldingStep == Connected /\ Holding /\ [Next]_vars => Holding'
<1> SUFFICES ASSUME Connected, Holding, [Next]_vars PROVE Holding'
  OBVIOUS
<1>1. CASE UNCHANGED <<conn, reading>>
  BY <1>1 DEF Holding
<1>2. ASSUME NEW r \in Reader, NEW f, NEW cursor, NEW limit, Ask(r, f, cursor, limit),
             reading[r] = Idle, conn' = conn
      PROVE  Holding'
  <2>1. PICK v : v = [at |-> "counts", filter |-> f, cursor |-> cursor, limit |-> limit] /\ Goto(r, v)
    BY <1>2 DEF Ask, Goto
  <2>2. ~Holds(v) /\ ~Holds(reading[r])
    BY <1>2, <2>1 DEF Holds, Idle
  <2> QED BY <1>2, <2>1, <2>2, HandlerMoves DEF Holding
<1>3. ASSUME NEW r \in Reader, NEW f, BeginSnapshot(r, f) PROVE Holding'
  <2>1. PICK v : v = [at |-> "rows", filter |-> f] /\ Goto(r, v)
    BY <1>3 DEF BeginSnapshot
  <2>2. Holds(v)
    BY <2>1 DEF Holds
  <2> QED BY <1>3, <2>1, <2>2, HandlerMoves, QueryAssumption DEF BeginSnapshot
<1>4. ASSUME NEW r \in Reader, CountStates(r) PROVE Holding'
  <2>1. PICK v : v.at = "counting" /\ Goto(r, v)
    BY <1>4 DEF CountStates
  <2> QED BY <1>4, <2>1, HandlerMoves, QueryAssumption DEF CountStates, Holds
<1>5. ASSUME NEW r \in Reader, CloseCounts(r) PROVE Holding'
  <2>1. PICK v : v = [reading[r] EXCEPT !.at = "total"] /\ Goto(r, v)
    BY <1>5 DEF CloseCounts
  <2>2. conn = r /\ "at" \in DOMAIN reading[r]
    BY <1>5 DEF CloseCounts, Connected, Stage, Holding, Holds
  <2>3. ~Holds(v)
    BY <2>1, <2>2 DEF Holds
  <2> QED BY <1>5, <2>1, <2>2, <2>3, HandlerMoves, QueryAssumption DEF CloseCounts
<1>6. ASSUME NEW r \in Reader, SnapshotUpper(r) PROVE Holding'
  <2>1. PICK v : v.at = "summary" /\ Goto(r, v)
    BY <1>6 DEF SnapshotUpper
  <2>2. conn = r /\ conn' = None /\ ~Holds(v)
    BY <1>6, <2>1 DEF SnapshotUpper, Holding, Holds
  <2> QED BY <2>1, <2>2, HandlerMoves, QueryAssumption
<1>7. ASSUME NEW r \in Reader, SnapshotRows(r) PROVE Holding'
  <2>1. PICK v : v.at = "upper" /\ Goto(r, v)
    BY <1>7 DEF SnapshotRows
  <2>2. conn = r /\ conn' = conn /\ Holds(v)
    BY <1>7, <2>1 DEF SnapshotRows, Holding, Holds
  <2> QED BY <2>1, <2>2, HandlerMoves
<1>8. ASSUME NEW r \in Reader, CountTotal(r) \/ ReadPage(r) \/ Answer(r) \/ ReplySummary(r) PROVE Holding'
  <2>1. PICK v : v.at \in {"page", "answer", "idle"} /\ Goto(r, v)
    BY <1>8 DEF CountTotal, ReadPage, Answer, ReplySummary, Idle
  <2>2. conn # r /\ conn' = conn /\ ~Holds(v)
    BY <1>8, <2>1 DEF CountTotal, ReadPage, Answer, ReplySummary, Holding, Holds
  <2> QED BY <2>1, <2>2, HandlerMoves
<1>9. Write \/ UNCHANGED vars => UNCHANGED <<conn, reading>>
  BY DEF Write, Create, ReviseBaseline, Commit, Put, vars
<1> QED BY <1>1, <1>2, <1>3, <1>4, <1>5, <1>6, <1>7, <1>8, <1>9
        DEF Next, GoOn, Serve, StartWalk, NextPage

LEMMA QueryInvariant == Spec => [](Served /\ Holding)
<1>1. Init => Holding
  <2> SUFFICES ASSUME Init PROVE Holding
    OBVIOUS
  <2>1. reading \in [Reader -> {Idle}] /\ ~Holds(Idle)
    BY DEF Init, Holds, Idle
  <2>2. \A r \in Reader : reading[r] = Idle /\ conn # r
    BY QueryAssumption DEF Init
  <2> QED BY <2>1, <2>2 DEF Holding
<1> QED BY <1>1, ServedInit, ServedStep, HoldingStep, ConnectionInvariant, PTL DEF Spec

\* Tables, handlers and walks keep their shape, and the connection is held by
\* the one handler that is between its queries.
THEOREM QueriesTyped == Spec => []TypeOK
<1>1. Served /\ Holding => TypeOK
  <2> SUFFICES ASSUME Served, Holding PROVE TypeOK
    OBVIOUS
  <2>1. \A c \in Existing :
          cases[c] \in [created : Instant[c], site : Site, state : State, revision : 1..MaxRevision]
    BY DEF Served, Table
  <2>2. ASSUME NEW r \in Reader
        PROVE  /\ reading[r].at \in {"idle", "counts", "counting", "total", "page", "answer",
                                     "rows", "upper", "summary"}
               /\ conn = r <=> reading[r].at \in {"counting", "rows", "upper"}
               /\ walks[r].seen \subseteq Existing /\ walks[r].steady \subseteq Existing
    <3>1. Walked(walks[r]) /\ Handling(reading[r], walks[r])
      BY DEF Served
    <3>2. conn = r <=> reading[r].at \in {"counting", "rows", "upper"}
      BY DEF Holding, Holds
    <3>3. reading[r].at \in {"idle", "counts", "counting", "total", "page", "answer",
                             "rows", "upper", "summary"}
      BY <3>1, StageNames DEF Handling, Elsewhere, Listing
    <3> QED BY <3>1, <3>2, <3>3 DEF Walked
  <2> QED BY <2>1, <2>2 DEF TypeOK
<1> QED BY <1>1, QueryInvariant, PTL

\* A walk by cursor shows no case twice, whatever is created and committed
\* between its pages, whatever page sizes the client asks for.
THEOREM WalksNeverRepeat == Spec => []WalkNeverRepeats
<1>1. Served => WalkNeverRepeats
  BY DEF Served, Walked, WalkNeverRepeats
<1> QED BY <1>1, QueryInvariant, PTL

\* A walk that came to its end has shown every case that matched its filter from
\* its beginning on.
THEOREM WalksMissNone == Spec => []WalkMissesNone
<1>1. Served => WalkMissesNone
  BY DEF Served, Walked, WalkMissesNone
<1> QED BY <1>1, QueryInvariant, PTL

\* A walk shows no case created in a second outside the range it asked for.
THEOREM RangesAreRightToTheSecond == Spec => []RangeRightToTheSecond
<1>1. Served => RangeRightToTheSecond
  BY DEF Served, Walked, Within, RangeRightToTheSecond
<1> QED BY <1>1, QueryInvariant, PTL

\* The counts by state, the total and the first page are read one after the
\* other, and the cases only become more: no figure exceeds a later one.
THEOREM FiguresOnlyGrow == Spec => []FiguresGrow
<1>1. Served => FiguresGrow
  <2> SUFFICES ASSUME Served, NEW r \in Reader, reading[r].at = "answer",
                      reading[r].filter = NoWalk.filter, reading[r].cursor = None
               PROVE  /\ SumFunction(reading[r].counts) <= reading[r].total
                      /\ ~reading[r].more => reading[r].total <= Len(reading[r].items)
    BY Zenon DEF FiguresGrow
  <2>1. AtAnswer(reading[r], walks[r])
    BY AtListing, StageNames DEF Listing
  <2>2. PICK l, counts, total, items, more :
          /\ Totalled(walks[r].filter, counts, total)
          /\ OnlyPage(walks[r], total, items, more)
          /\ reading[r] = [at |-> "answer", filter |-> walks[r].filter, cursor |-> walks[r].cursor, limit |-> l,
                           counts |-> counts, total |-> total, items |-> items, more |-> more]
    BY <2>1 DEF AtAnswer
  <2> QED BY <2>2 DEF Totalled, OnlyPage
<1> QED BY <1>1, QueryInvariant, PTL
=============================================================================
