----------------------------- MODULE CaseQueries -----------------------------
(***************************************************************************)
(* The reading side of the service over many cases: the listing with its   *)
(* cursor, three queries that no transaction holds together, and the       *)
(* quality snapshot, one read-only transaction.  All share the store's     *)
(* only connection (SetMaxOpenConns(1)) with the commands that write.      *)
(* Cases are created and committed to between any two queries; a client    *)
(* walks through the pages at its own pace.                                *)
(***************************************************************************)
EXTENDS Integers, FiniteSets, Sequences, SequencesExt, FiniteSetsExt

CONSTANTS
  Case,         \* case ids, numbered in the order of their text
  Instant,      \* Instant[c]: moments c may be created at, in quarters of a second
  State,        \* the states commits may take a case to
  Site,         \* spellings of the well code, site or owner that a filter looks for
  Reader,       \* clients that read
  FilterInput,  \* filters a client may ask for: [keyword, state, from, to]
  Limit,        \* page sizes a client may ask for
  MaxRevision,  \* bound: the last revision of a case
  MaxAsked,     \* bound: walks and summaries each client begins
  None

Filter == [keyword : Site \cup {None}, state : State \cup {None},
           from : Nat \cup {None}, to : Nat \cup {None}]

ASSUME QueryAssumption ==
  /\ Case \subseteq Nat /\ Instant \in [Case -> SUBSET Nat] /\ Limit \subseteq Nat \ {0}
  /\ None \notin Reader
  /\ "draft" \in State /\ IsFiniteSet(State)
  /\ MaxRevision \in Nat \ {0} /\ MaxAsked \in Nat
  /\ None \notin [created : Nat, site : Site, state : State, revision : Nat]
  /\ FilterInput \subseteq Filter
  /\ None \notin [created : Nat, case : Case, filter : Filter]

VARIABLES
  cases,     \* table cases: [created, site, state, revision] of each, or None
  conn,      \* the reader whose open rows or transaction hold the connection, or None
  reading,   \* what the handler of each reader is doing
  walks,     \* each client's walk through the pages of a listing
  asked      \* how often each client has begun

vars == <<cases, conn, reading, walks, asked>>

Idle == [at |-> "idle"]

Existing == {c \in Case : cases[c] # None}

-----------------------------------------------------------------------------
(* created_at is the text of time.RFC3339Nano, compared as text.           *)

Second(t) == t \div 4

\* The fraction of a second loses its trailing zeros, and with them the point;
\* the Z that follows sorts after the point and after every digit.  With the
\* digits 0 and 1 for a fraction of two places: .01Z < .11Z < .1Z < Z.
Text(t) ==
  4 * Second(t) + CASE t % 4 = 0 -> 3 [] t % 4 = 1 -> 0 [] t % 4 = 2 -> 2 [] t % 4 = 3 -> 1

\* Fault variant: the upper end of the range is forgotten.
MatchesFrom(f, row) ==
  /\ f.keyword = None \/ row.site = f.keyword
  /\ f.state = None \/ row.state = f.state
  /\ f.from = None \/ Text(row.created) >= Text(f.from)

\* The conditions of a listing and of a snapshot.
Matches(f, row) ==
  /\ f.keyword = None \/ row.site = f.keyword
  /\ f.state = None \/ row.state = f.state
  /\ f.from = None \/ Text(row.created) >= Text(f.from)
  /\ f.to = None \/ Text(row.created) <= Text(f.to)

ValidateTimeRange(f) == f.from # None /\ f.to # None => f.from <= f.to

Matching(f) == {c \in Existing : Matches(f, cases[c])}

\* ORDER BY created_at DESC, case_id DESC.
Precedes(c, d) ==
  \/ Text(cases[c].created) > Text(cases[d].created)
  \/ cases[c].created = cases[d].created /\ c > d

\* Fault variant: the case at the cursor is shown again.
BeyondOrAt(cursor, c) ==
  \/ cursor = None \/ Text(cases[c].created) < Text(cursor.created)
  \/ cases[c].created = cursor.created /\ c <= cursor.case

\* The rows after the one the cursor names.
Beyond(cursor, c) ==
  \/ cursor = None \/ Text(cases[c].created) < Text(cursor.created)
  \/ cases[c].created = cursor.created /\ c < cursor.case

\* The k-th of them is the one that k - 1 of them precede.
Rows(f, cursor) ==
  LET found == {c \in Matching(f) : Beyond(cursor, c)}
  IN  [k \in 1..Cardinality(found) |->
         CHOOSE c \in found : Cardinality({d \in found : Precedes(d, c)}) = k - 1]

\* Fault variant: the state asked for is not part of the digest.
ListFilterDigestStateless(f) == [f EXCEPT !.state = None]

\* A digest is the contents it covers.
ListFilterDigest(f) == f

-----------------------------------------------------------------------------
(* Commands, each a transaction that needs the connection.                 *)

\* What a client still expects to be shown: the cases there when it began that
\* matched its filter ever since.
Steady(c, row) ==
  walks' = [r \in Reader |->
    [walks[r] EXCEPT !.steady = IF Matches(walks[r].filter, row) THEN @ ELSE @ \ {c}]]

Put(c, row) ==
  /\ conn = None
  /\ cases' = [cases EXCEPT ![c] = row]
  /\ Steady(c, row)
  /\ UNCHANGED <<conn, reading, asked>>

Create(c, t, site) ==
  /\ cases[c] = None
  /\ Put(c, [created |-> t, site |-> site, state |-> "draft", revision |-> 1])

ReviseBaseline(c, site) ==
  /\ cases[c] # None /\ cases[c].revision < MaxRevision
  /\ cases[c].state = "draft"
  /\ Put(c, [cases[c] EXCEPT !.site = site, !.revision = @ + 1])

\* Any other command; CaseWorkflow says which state follows which.
Commit(c, state) ==
  /\ cases[c] # None /\ cases[c].revision < MaxRevision
  /\ state # "draft"
  /\ Put(c, [cases[c] EXCEPT !.state = state, !.revision = @ + 1])

-----------------------------------------------------------------------------
(* The client: a walk asks for pages until an answer has no cursor.        *)

Ask(r, f, cursor, limit) ==
  reading' = [reading EXCEPT ![r] = [at |-> "counts", filter |-> f, cursor |-> cursor, limit |-> limit]]

StartWalk(r, f, limit) ==
  /\ reading[r] = Idle /\ walks[r].cursor = None
  /\ asked[r] < MaxAsked
  /\ ValidateTimeRange(f)
  /\ asked' = [asked EXCEPT ![r] = @ + 1]
  /\ walks' = [walks EXCEPT ![r] =
       [filter |-> f, seen |-> {}, repeated |-> FALSE, over |-> FALSE,
        cursor |-> None, steady |-> Matching(f)]]
  /\ Ask(r, f, None, limit)
  /\ UNCHANGED <<cases, conn>>

\* A cursor sent with another filter than it was made for is refused, and the
\* answer changes nothing.
NextPage(r, f, limit) ==
  /\ reading[r] = Idle /\ walks[r].cursor # None
  /\ ValidateTimeRange(f)
  /\ ListFilterDigest(f) = walks[r].cursor.filter
  /\ Ask(r, f, walks[r].cursor, limit)
  /\ UNCHANGED <<cases, conn, walks, asked>>

-----------------------------------------------------------------------------
(* Store.ListFiltered and Service.List.                                    *)

Goto(r, next) == reading' = [reading EXCEPT ![r] = next]

\* The counts of all states, whatever the filter; the open rows keep the connection.
CountStates(r) ==
  LET a == reading[r] IN
  /\ a.at = "counts" /\ conn = None
  /\ conn' = r
  /\ Goto(r, [at |-> "counting", filter |-> a.filter, cursor |-> a.cursor, limit |-> a.limit,
              counts |-> [s \in State |-> Cardinality({c \in Existing : cases[c].state = s})]])
  /\ UNCHANGED <<cases, walks, asked>>

\* Fault variant: the next query is made while the rows are still open.
CloseCountsLater(r) ==
  /\ reading[r].at = "counting"
  /\ Goto(r, [reading[r] EXCEPT !.at = "total"])
  /\ UNCHANGED <<cases, conn, walks, asked>>

\* The rows are closed before the next query, which needs the connection too.
CloseCounts(r) ==
  /\ reading[r].at = "counting"
  /\ conn' = None
  /\ Goto(r, [reading[r] EXCEPT !.at = "total"])
  /\ UNCHANGED <<cases, walks, asked>>

\* The total is of all pages: the cursor is not among the conditions yet.
CountTotal(r) ==
  LET a == reading[r] IN
  /\ a.at = "total" /\ conn = None
  /\ Goto(r, [at |-> "page", filter |-> a.filter, cursor |-> a.cursor, limit |-> a.limit,
              counts |-> a.counts, total |-> Cardinality(Matching(a.filter))])
  /\ UNCHANGED <<cases, conn, walks, asked>>

\* Fault variant: a page that is just full is taken for the last.
PageWithoutSpare(r, rows) ==
  LET limit == reading[r].limit
  IN  [items |-> SubSeq(rows, 1, Min({limit, Len(rows)})), more |-> Len(rows) > limit + 1]

\* One row more than the limit is read, to see whether there are more.
Page(r, rows) ==
  LET limit == reading[r].limit
  IN  [items |-> SubSeq(rows, 1, Min({limit, Len(rows)})), more |-> Len(rows) > limit]

ReadPage(r) ==
  LET a == reading[r] IN
  /\ a.at = "page" /\ conn = None
  /\ \E page \in {Page(r, Rows(a.filter, a.cursor))} :
       Goto(r, [at |-> "answer", filter |-> a.filter, cursor |-> a.cursor, limit |-> a.limit,
                counts |-> a.counts, total |-> a.total, items |-> page.items, more |-> page.more])
  /\ UNCHANGED <<cases, conn, walks, asked>>

\* The cursor names the last case shown, and the filter.
Cursor(r) ==
  LET last == Last(reading[r].items)
  IN  [created |-> cases[last].created, case |-> last, filter |-> ListFilterDigest(reading[r].filter)]

Answer(r) ==
  LET shown == ToSet(reading[r].items)
      w     == walks[r] IN
  /\ reading[r].at = "answer"
  /\ walks' = [walks EXCEPT ![r] =
       [filter |-> w.filter, seen |-> w.seen \cup shown, repeated |-> w.repeated \/ shown \cap w.seen # {},
        over |-> ~reading[r].more, cursor |-> IF reading[r].more THEN Cursor(r) ELSE None,
        steady |-> w.steady]]
  /\ Goto(r, Idle)
  /\ UNCHANGED <<cases, conn, asked>>

-----------------------------------------------------------------------------
(* Store.QualitySnapshot: two queries in one read-only transaction.        *)

BeginSnapshot(r, f) ==
  /\ reading[r] = Idle /\ asked[r] < MaxAsked
  /\ asked' = [asked EXCEPT ![r] = @ + 1]
  /\ ValidateTimeRange(f)
  /\ conn = None /\ conn' = r
  /\ Goto(r, [at |-> "rows", filter |-> f])
  /\ UNCHANGED <<cases, walks>>

RowsOf(f) == [c \in Matching(f) |-> cases[c]]

\* MAX(revision), or 0 if nothing matches.
UpperOf(f) == Max({0} \cup {cases[c].revision : c \in Matching(f)})

\* Fault variant: the rows are queried outside the transaction.
SnapshotRowsApart(r) ==
  /\ reading[r].at = "rows"
  /\ conn' = None
  /\ Goto(r, [at |-> "upper", filter |-> reading[r].filter, rows |-> RowsOf(reading[r].filter)])
  /\ UNCHANGED <<cases, walks, asked>>

SnapshotRows(r) ==
  /\ reading[r].at = "rows"
  /\ Goto(r, [at |-> "upper", filter |-> reading[r].filter, rows |-> RowsOf(reading[r].filter)])
  /\ UNCHANGED <<cases, conn, walks, asked>>

\* With the second query the transaction ends.
SnapshotUpper(r) ==
  LET a == reading[r] IN
  /\ a.at = "upper"
  /\ Goto(r, [at |-> "summary", filter |-> a.filter, rows |-> a.rows, upper |-> UpperOf(a.filter)])
  /\ conn' = None
  /\ UNCHANGED <<cases, walks, asked>>

ReplySummary(r) ==
  /\ reading[r].at = "summary"
  /\ Goto(r, Idle)
  /\ UNCHANGED <<cases, conn, walks, asked>>

-----------------------------------------------------------------------------
NoWalk == [filter |-> [keyword |-> None, state |-> None, from |-> None, to |-> None],
           seen |-> {}, repeated |-> FALSE, over |-> TRUE, cursor |-> None, steady |-> {}]

Init ==
  /\ cases = [c \in Case |-> None]
  /\ conn = None
  /\ reading = [r \in Reader |-> Idle]
  /\ walks = [r \in Reader |-> NoWalk]
  /\ asked = [r \in Reader |-> 0]

Write ==
  \E c \in Case :
    \/ \E t \in Instant[c], site \in Site : Create(c, t, site)
    \/ \E site \in Site : ReviseBaseline(c, site)
    \/ \E state \in State : Commit(c, state)

Serve(r) ==
  \/ CountStates(r) \/ CloseCounts(r) \/ CountTotal(r) \/ ReadPage(r) \/ Answer(r)
  \/ SnapshotRows(r) \/ SnapshotUpper(r) \/ ReplySummary(r)

GoOn(r) == \E f \in FilterInput, limit \in Limit : NextPage(r, f, limit)

Next ==
  \/ Write
  \/ \E r \in Reader :
       \/ \E f \in FilterInput, limit \in Limit : StartWalk(r, f, limit)
       \/ GoOn(r)
       \/ \E f \in FilterInput : BeginSnapshot(r, f)
       \/ Serve(r)

Spec == Init /\ [][Next]_vars

\* database/sql hands the connection to whoever waits for it, so a handler that
\* can go on again and again does; the client asks for page after page.
Fairness == \A r \in Reader : SF_vars(Serve(r)) /\ WF_vars(GoOn(r))

FairSpec == Spec /\ Fairness

-----------------------------------------------------------------------------
(* Properties.                                                             *)

\* Tables, handlers and walks keep their shape; only a handler between its open
\* rows, or inside its transaction, holds the connection.
TypeOK ==
  /\ \A c \in Existing :
       cases[c] \in [created : Instant[c], site : Site, state : State, revision : 1..MaxRevision]
  /\ \A r \in Reader :
       /\ reading[r].at \in {"idle", "counts", "counting", "total", "page", "answer",
                             "rows", "upper", "summary"}
       /\ conn = r <=> reading[r].at \in {"counting", "rows", "upper"}
       /\ walks[r].seen \subseteq Existing /\ walks[r].steady \subseteq Existing

\* README.md:11, features_test.go:41: a walk by cursor shows no case twice,
\* although cases are created and change between its pages.
WalkNeverRepeats == \A r \in Reader : ~walks[r].repeated

\* A walk that came to its end has shown every case that was there when it
\* began and matched its filter ever since.
WalkMissesNone == \A r \in Reader : walks[r].over => walks[r].steady \subseteq walks[r].seen

\* The three figures of one answer are of three moments, and only grow: without
\* a filter, the states add up to no more than the total, and the total is no
\* more than what a first and only page shows.
FiguresGrow ==
  \A r \in Reader :
    LET a == reading[r]
        unfiltered == a.filter = NoWalk.filter
    IN  a.at = "answer" /\ unfiltered /\ a.cursor = None =>
          /\ SumFunction(a.counts) <= a.total
          /\ ~a.more => a.total <= Len(a.items)

\* A creation range, compared as text, is right to the second: a walk shows no
\* case created in a second outside those of its two ends.
RangeRightToTheSecond ==
  \A r \in Reader :
    LET f == walks[r].filter
        within(c) == /\ f.from = None \/ Second(f.from) <= Second(cases[c].created)
                     /\ f.to = None \/ Second(cases[c].created) <= Second(f.to)
    IN  \A c \in walks[r].seen : within(c)

\* store.go:274: the cases of a quality summary and the upper bound of their
\* revisions are of one moment.
SnapshotOfOneMoment ==
  \A r \in Reader : reading[r].at = "summary" =>
    reading[r].upper = Max({0} \cup {reading[r].rows[c].revision : c \in DOMAIN reading[r].rows})

\* No handler waits for ever for the one connection: every question is answered.
EveryQuestionAnswered == \A r \in Reader : reading[r] # Idle ~> reading[r] = Idle

\* Every walk comes to its last page, whatever is created meanwhile.
EveryWalkEnds == \A r \in Reader : ~walks[r].over ~> walks[r].over

\* README.md:11: cases are searched by the time of their creation, so what a
\* search shows was created within the range asked for.
ShownWasCreatedInRange ==
  \A r \in Reader : \A c \in walks[r].seen :
    /\ walks[r].filter.from = None \/ walks[r].filter.from <= cases[c].created
    /\ walks[r].filter.to = None \/ cases[c].created <= walks[r].filter.to
=============================================================================
