----------------------------- MODULE CaseReaders -----------------------------
(***************************************************************************)
(* Clients that read one case while others command it: the detail page     *)
(* with its witness checklist, the timeline page by page, and the archive, *)
(* verified anew each time it is read.  None of these reads is a           *)
(* transaction: each query sees the tables of its own moment, and commits, *)
(* crashes and restarts of SealService fall between them.                  *)
(***************************************************************************)
EXTENDS SealService

CONSTANTS
  Reader,         \* clients that read
  TimelineLimit   \* events on a page of the timeline

ASSUME ReaderAssumption == TimelineLimit \in Nat \ {0}

VARIABLE
  reading   \* what each reader is doing, or the answer it has: one thing at a time

readerVars == <<vars, reading>>

Answering(x) == reading[x].at \in {"idle", "shown", "walked", "served"}

Step(x, next) == up /\ reading' = [reading EXCEPT ![x] = next] /\ UNCHANGED vars

-----------------------------------------------------------------------------
(* Service.Get: the case, then in verification the events for the head of  *)
(* the chain that the checklist names.                                     *)

GetCase(x, c) ==
  /\ Answering(x) /\ Exists(c)
  /\ Step(x, IF cases[c].state = "verification"
             THEN [at |-> "head", case |-> cases[c]] ELSE [at |-> "idle"])

\* What the client sees, and whether all the events were read for it.
Shown(x, head, whole) ==
  Step(x, [at |-> "shown", case |-> reading[x].case, head |-> head, whole |-> whole])

\* Fault variant: the events come from before the last commit.
GetHeadOneBehind(x) ==
  /\ reading[x].at = "head"
  /\ Shown(x, Max({0} \cup (EventsOf(reading[x].case.case) \ {Len(audit)})), TRUE)

GetHead(x) ==
  /\ reading[x].at = "head"
  /\ Shown(x, ChainHead(reading[x].case.case), TRUE)

\* The error of that query is dropped: it may have returned no event, or those up
\* to any one of them, and the page is answered all the same.
GetHeadCut(x) ==
  /\ reading[x].at = "head"
  /\ \E head \in {0} \cup EventsOf(reading[x].case.case) : Shown(x, head, FALSE)

-----------------------------------------------------------------------------
(* Store.Timeline: one page after a sequence number.                       *)

\* The k-th of the events is the one that k - 1 of them come before.
InOrder(events) ==
  [k \in 1..Cardinality(events) |-> CHOOSE n \in events : Cardinality({m \in events : m < n}) = k - 1]

\* Fault variant: the cursor is the first event that did not fit.
PageSkipping(c, after) ==
  LET rows == InOrder({n \in EventsOf(c) : n > after})
      full == Len(rows) > TimelineLimit
  IN  [items |-> IF full THEN SubSeq(rows, 1, TimelineLimit) ELSE rows,
       next  |-> IF full THEN rows[TimelineLimit + 1] ELSE 0]

\* One row more than a page is read; the cursor, 0 for none, is the last shown.
Page(c, after) ==
  LET rows == InOrder({n \in EventsOf(c) : n > after})
      full == Len(rows) > TimelineLimit
  IN  [items |-> IF full THEN SubSeq(rows, 1, TimelineLimit) ELSE rows,
       next  |-> IF full THEN rows[TimelineLimit] ELSE 0]

\* A client asks for page after page, until one has no cursor.
Turn(x, c, seen, after, owed) ==
  LET page == Page(c, after)
  IN  Step(x, [at |-> IF page.next = 0 THEN "walked" ELSE "paging", case |-> c,
               seen |-> seen \o page.items, after |-> page.next, owed |-> owed])

\* A new walk, also of a case that has no events or does not exist.
Timeline(x, c) == Answering(x) /\ Turn(x, c, << >>, 0, EventsOf(c))

TimelineNext(x) ==
  /\ reading[x].at = "paging"
  /\ Turn(x, reading[x].case, reading[x].seen, reading[x].after, reading[x].owed)

-----------------------------------------------------------------------------
(* Service.Archive: the archive, the case and the events, in three reads.  *)

ReadArchive(x, c) ==
  /\ Answering(x)
  /\ Step(x, IF archives[c] = None THEN [at |-> "idle"]
             ELSE [at |-> "archiveCase", of |-> c, archive |-> archives[c]])

ReadArchiveCase(x) ==
  /\ reading[x].at = "archiveCase"
  /\ Step(x, [at |-> "archiveEvents", of |-> reading[x].of, archive |-> reading[x].archive,
              case |-> cases[reading[x].of]])

\* Fault variant: the frozen events are held against all there are.
EventsMatchWhole(a, events) == a.events = events

\* The freezing itself is one more event.
EventsMatch(a, events) == a.events = {n \in events : n <= Max(a.events)}

\* Plan, checkpoints and decision of two cases differ.  Of one case CaseWorkflow's
\* ArchiveServes has the checks of the facts one by one.
FactsMatch(a, snapshot) == a.case.case = snapshot.case /\ a.case.verdict = snapshot.verdict

ReadArchiveEvents(x) ==
  LET a      == reading[x].archive
      c      == reading[x].of
      events == EventsOf(c)
  IN  /\ reading[x].at = "archiveEvents"
      /\ Step(x, [at |-> "served", of |-> c, archive |-> a, eventCount |-> Cardinality(events),
                  verified |-> /\ ValidateChain(a.events) /\ ValidateChain(events)
                               /\ FactsMatch(a, reading[x].case) /\ EventsMatch(a, events)])

-----------------------------------------------------------------------------
ReadersInit == Init /\ reading = [x \in Reader |-> Idle]

\* A crash ends the reads under way; the answers and pages a client has are its own.
Command ==
  /\ Next
  /\ reading' = [x \in Reader |->
       IF up' \/ Answering(x) \/ reading[x].at = "paging" THEN reading[x] ELSE Idle]

Read(x) ==
  \/ \E c \in Case : GetCase(x, c) \/ Timeline(x, c) \/ ReadArchive(x, c)
  \/ GetHead(x) \/ GetHeadCut(x) \/ TimelineNext(x) \/ ReadArchiveCase(x) \/ ReadArchiveEvents(x)

ReadersNext == Command \/ \E x \in Reader : Read(x)

ReadersSpec == ReadersInit /\ [][ReadersNext]_readerVars

-----------------------------------------------------------------------------
(* Properties.                                                             *)

\* The checklist shown may name a head newer than the case beside it, when a
\* commit falls between the two reads, but never an older one, unless the events
\* could not all be read: then it names none, or some event of the case's own.
ChecklistNotBehind ==
  \A x \in Reader : reading[x].at = "shown" =>
    /\ reading[x].head \in {0} \cup EventsOf(reading[x].case.case)
    /\ reading[x].whole =>
         reading[x].head # 0 /\ audit[reading[x].head].revision >= reading[x].case.revision

\* Whatever is committed between its pages, a walk gathers the chain from its
\* first event without gap or repetition; walked to its end it has all the
\* events there were when it began.
TimelineIsWhole ==
  \A x \in Reader :
    /\ reading[x].at \in {"paging", "walked"} =>
         IsPrefix(reading[x].seen, InOrder(EventsOf(reading[x].case)))
    /\ reading[x].at = "walked" => reading[x].owed \subseteq ToSet(reading[x].seen)

\* README.md:55: reading an archive checks it anew.  Of archives that hold the
\* case they are kept for, none fails on account of the other tables having been
\* read later, and one event has been added: the freezing.  Any other fails.
ArchiveReadVerifies ==
  \A x \in Reader : reading[x].at = "served" =>
    /\ reading[x].verified <=> reading[x].archive.case.case = reading[x].of
    /\ reading[x].verified =>
         reading[x].eventCount = Cardinality(reading[x].archive.events) + 1
=============================================================================
