----------------------------- MODULE SealService -----------------------------
(***************************************************************************)
(* The service over its SQLite store: HTTP handlers that read, commit and  *)
(* read again in separate database calls, idempotent request ids, the      *)
(* optimistic revision, the audit chain, and the two transactions that     *)
(* releasing a case takes.  The store has one connection, so a transaction *)
(* is one step; handlers interleave between their calls, may be cut off by *)
(* the request timeout or a disconnect at any point, and all stop in a     *)
(* crash, after which the store opens only if it finds itself consistent.  *)
(*                                                                         *)
(* A case is reduced to what the store tells apart: its state, revision    *)
(* and last verdict.  What a mutator decides from the rest of the case     *)
(* (CaseWorkflow) is a choice here.  Digests are the contents they cover.  *)
(***************************************************************************)
EXTENDS Integers, Sequences, FiniteSets, SequencesExt

CONSTANTS
  Case,         \* case ids newID may draw
  Handler,      \* handlers that may run at the same time
  Request,      \* the requests clients send: [id, op, case, expected, body]
  ArchiveId,    \* ArchiveId[id]: the request id with ":archive" appended
  Moment,       \* readings of the clock stamped on an archive
  MaxFaults,    \* bound: timeouts, disconnects and crashes in a behaviour
  None

Ops == {"create", "revise", "lock", "plan", "start", "checkpoint", "correct",
        "resolve", "verify", "release", "return"}

RequestIds == {r.id : r \in Request} \cup {ArchiveId[r.id] : r \in Request}

States == {"draft", "baseline_locked", "sealing", "held", "verification", "released", "archived"}

\* What the tables hold of a case, of an archive, and of a request id.
Snapshot ==
  [case : Case, state : States, revision : Nat \ {0}, verdict : {"none", "failed", "passed"}]

Archive == [case : Snapshot, events : SUBSET Nat, generated : Moment]

Bodies == {r.body : r \in Request}

Answer ==
  [fingerprint : Bodies \cup [command : Bodies, manifest : Archive], response : Snapshot]

ASSUME ServiceAssumption ==
  /\ None \notin Snapshot /\ None \notin Archive /\ None \notin Answer
  /\ \A r \in Request : r.op \in Ops /\ (r.op # "create" => r.case \in Case /\ r.expected \in Nat)
  /\ \A r, s \in Request : ArchiveId[r.id] = ArchiveId[s.id] => r.id = s.id
  /\ Moment # {} /\ MaxFaults \in Nat

VARIABLES
  cases,      \* table cases: the snapshot [case, state, revision, verdict] of each, or None
  audit,      \* table audit_events, in order of sequence
  idem,       \* table idempotency: [fingerprint, response] of each request id, or None
  archives,   \* table archives: the frozen archive of each case, or None
  up,         \* whether the process runs
  run,        \* what each handler is doing
  faults      \* faults so far

tables == <<cases, audit, idem, archives>>
vars   == <<tables, up, run, faults>>

Idle == [at |-> "idle"]

Exists(c) == cases[c] # None

\* An event is named by its sequence, and a set of events is in that order: its
\* digest covers the event and its predecessor's digest.
EventsOf(c) == {n \in DOMAIN audit : audit[n].case = c}

\* Fault variants: the head of the whole table, and the sequence after it.
ChainHeadOfTable(c) == Len(audit)
ChainHeadNext(c)    == Len(audit) + 1

ChainHead(c) == IF EventsOf(c) = {} THEN 0 ELSE Max(EventsOf(c))

\* Each event links to the one before it, the first to none.
ValidateChain(events) ==
  /\ events # {}
  /\ \A n \in events : audit[n].previous = Max({0} \cup {m \in events : m < n})

-----------------------------------------------------------------------------
(* Transactions.                                                           *)

\* The outcome of lookupIdempotency for a request id and a body.
Lookup(id, fingerprint) ==
  IF idem[id] = None THEN "new"
  ELSE IF idem[id].fingerprint = fingerprint THEN "replayed" ELSE "idempotency_conflict"

\* Fault variant: the event carries the revision the commit started from.
WriteOldRevision(snapshot, type, seen, id, fingerprint) ==
  /\ cases' = [cases EXCEPT ![snapshot.case] = snapshot]
  /\ audit' = Append(audit, [case |-> snapshot.case, type |-> type, seen |-> seen,
                             revision |-> snapshot.revision - 1, previous |-> ChainHead(snapshot.case)])
  /\ idem' = [idem EXCEPT ![id] = [fingerprint |-> fingerprint, response |-> snapshot]]

\* Snapshot, event and idempotency row are written together.
Write(snapshot, type, seen, id, fingerprint) ==
  /\ cases' = [cases EXCEPT ![snapshot.case] = snapshot]
  /\ audit' = Append(audit, [case |-> snapshot.case, type |-> type, seen |-> seen,
                             revision |-> snapshot.revision, previous |-> ChainHead(snapshot.case)])
  /\ idem' = [idem EXCEPT ![id] = [fingerprint |-> fingerprint, response |-> snapshot]]

\* The states an operation takes a case to, when its mutator accepts.
Effects(op, state) == {e[3] : e \in {f \in {
    <<"revise", "draft", "draft">>,             <<"lock", "draft", "baseline_locked">>,
    <<"plan", "baseline_locked", "baseline_locked">>,
    <<"start", "baseline_locked", "sealing">>,
    <<"checkpoint", "sealing", "sealing">>,     <<"checkpoint", "sealing", "held">>,
    <<"correct", "sealing", "sealing">>,
    <<"resolve", "held", "held">>,              <<"resolve", "held", "sealing">>,
    <<"verify", "sealing", "sealing">>,         <<"verify", "sealing", "verification">>,
    <<"release", "verification", "released">>,  <<"return", "verification", "held">> } :
  f[1] = op /\ f[2] = state}}

\* Fault variants: a failed verification does not count; a return resumes at once.
MutatedIfPassed(snapshot, op, to) ==
  [snapshot EXCEPT !.state = to, !.revision = IF op = "verify" /\ to = "sealing" THEN @ ELSE @ + 1,
     !.verdict = IF op # "verify" THEN @ ELSE IF to = "verification" THEN "passed" ELSE "failed"]

MutatedReturnResumes(snapshot, op, to) ==
  [snapshot EXCEPT !.state = IF op = "return" THEN "sealing" ELSE to, !.revision = @ + 1,
     !.verdict = IF op # "verify" THEN @ ELSE IF to = "verification" THEN "passed" ELSE "failed"]

\* Verify alone touches the verdict, and is committed also when it fails.
Mutated(snapshot, op, to) ==
  [snapshot EXCEPT !.state = to, !.revision = @ + 1,
     !.verdict = IF op # "verify" THEN @ ELSE IF to = "verification" THEN "passed" ELSE "failed"]

\* Fault variant: the expected revision is not compared.
RefusalUnlocked(c, expected) ==
  IF ~Exists(c) THEN "not_found" ELSE IF cases[c].state = "archived" THEN "frozen" ELSE "none"

\* Why Store.Apply refuses a new request, or "none".
Refusal(c, expected) ==
  IF ~Exists(c) THEN "not_found"
  ELSE IF cases[c].state = "archived" THEN "frozen"
  ELSE IF cases[c].revision # expected THEN "conflict" ELSE "none"

-----------------------------------------------------------------------------
(* Handlers.                                                               *)

\* Fault variant: a replayed release is answered without looking for its archive.
AfterApplyOnce(r, outcome, snapshot) ==
  IF r.op = "release" /\ outcome # "replayed"
  THEN [at |-> "events", req |-> r, case |-> snapshot]
  ELSE [at |-> "reply", req |-> r, case |-> snapshot,
        outcome |-> IF r.op = "verify" /\ snapshot.verdict = "failed" THEN "gate" ELSE outcome]

\* Where a handler goes with the snapshot Apply returned, new or replayed.
AfterApply(r, outcome, snapshot) ==
  IF r.op = "release" /\ ~(outcome = "replayed" /\ snapshot.state = "archived")
  THEN [at |-> "events", req |-> r, case |-> snapshot]
  ELSE [at |-> "reply", req |-> r, case |-> snapshot,
        outcome |-> IF r.op = "verify" /\ snapshot.verdict = "failed" THEN "gate" ELSE outcome]

Refused(r, outcome) == [at |-> "reply", req |-> r, case |-> None, outcome |-> outcome]

\* Any request at any time: the case may not exist, or not have reached the
\* revision that is expected.
Send(h, r) ==
  /\ up /\ run[h] = Idle
  /\ run' = [run EXCEPT ![h] =
       [at |-> IF r.op \in {"correct", "release", "return"} THEN "prefetch" ELSE "apply",
        req |-> r, seen |-> None]]
  /\ UNCHANGED <<tables, up, faults>>

Goto(h, next) == run' = [run EXCEPT ![h] = next]

\* Service.Witness and CorrectCheckpoint read the case before their transaction.
Prefetch(h) ==
  LET r == run[h].req IN
  /\ run[h].at = "prefetch" /\ Exists(r.case)
  /\ Goto(h, [at |-> IF r.op = "correct" THEN "apply" ELSE "prefetchEvents", req |-> r,
              seen |-> [revision |-> cases[r.case].revision, state |-> cases[r.case].state, head |-> 0]])
  /\ UNCHANGED <<tables, up, faults>>

\* Both answer without a transaction if there is no such case, CorrectCheckpoint
\* also if that layer has no checkpoint.
PrefetchRefuse(h) ==
  LET r == run[h].req IN
  /\ run[h].at = "prefetch"
  /\ \/ ~Exists(r.case) /\ Goto(h, Refused(r, "not_found"))
     \/ Exists(r.case) /\ r.op = "correct" /\ Goto(h, Refused(r, "gate"))
  /\ UNCHANGED <<tables, up, faults>>

\* Fault variant: the events come from before the last commit.
PrefetchEventsBehind(h) ==
  LET events == EventsOf(run[h].req.case) \ {Len(audit)} IN
  /\ run[h].at = "prefetchEvents"
  /\ Goto(h, [at |-> "apply", req |-> run[h].req,
              seen |-> [run[h].seen EXCEPT !.head = Max({0} \cup events)]])
  /\ UNCHANGED <<tables, up, faults>>

\* Witness also reads the events: the chain head goes on the checklist.
PrefetchEvents(h) ==
  /\ run[h].at = "prefetchEvents"
  /\ Goto(h, [at |-> "apply", req |-> run[h].req,
              seen |-> [run[h].seen EXCEPT !.head = ChainHead(run[h].req.case)]])
  /\ UNCHANGED <<tables, up, faults>>

\* Store.Create: the case id is drawn fresh before the transaction.
ApplyCreate(h) ==
  LET r == run[h].req IN
  /\ run[h].at = "apply" /\ r.op = "create"
  /\ Lookup(r.id, r.body) = "new"
  /\ \E c \in {d \in Case : ~Exists(d)} :
       LET new == [case |-> c, state |-> "draft", revision |-> 1, verdict |-> "none"]
       IN  /\ Write(new, "create", None, r.id, r.body)
           /\ Goto(h, AfterApply(r, "ok", new))
  /\ UNCHANGED <<archives, up, faults>>

\* Store.Apply, committed.
ApplyCommit(h) ==
  LET r == run[h].req IN
  /\ run[h].at = "apply" /\ r.op # "create"
  /\ Lookup(r.id, r.body) = "new"
  /\ Refusal(r.case, r.expected) = "none"
  /\ \E to \in Effects(r.op, cases[r.case].state) :
       LET after == Mutated(cases[r.case], r.op, to)
       IN  /\ Write(after, r.op, run[h].seen, r.id, r.body)
           /\ Goto(h, AfterApply(r, "ok", after))
  /\ UNCHANGED <<archives, up, faults>>

\* Store.Create and Store.Apply, answered from the idempotency table.
ApplyReplay(h) ==
  LET r == run[h].req IN
  /\ run[h].at = "apply"
  /\ Lookup(r.id, r.body) = "replayed"
  /\ Goto(h, AfterApply(r, "replayed", idem[r.id].response))
  /\ UNCHANGED <<tables, up, faults>>

\* Rolled back: a reused id, a stale revision, or a mutator that refuses.
ApplyRefuse(h) ==
  LET r == run[h].req
      found == Lookup(r.id, r.body)
  IN
  /\ run[h].at = "apply" /\ found # "replayed"
  /\ \/ found = "idempotency_conflict" /\ Goto(h, Refused(r, found))
     \/ /\ found = "new" /\ r.op # "create"
        /\ IF Refusal(r.case, r.expected) = "none"
           THEN Goto(h, Refused(r, "gate"))
           ELSE Goto(h, Refused(r, Refusal(r.case, r.expected)))
  /\ UNCHANGED <<tables, up, faults>>

\* Fault variant: the events as they were before the last commit.
PayloadBeforeLast(c, snapshot, generated) ==
  [case |-> snapshot, events |-> EventsOf(c) \ {Len(audit)}, generated |-> generated]

Payload(c, snapshot, generated) ==
  [case |-> snapshot, events |-> EventsOf(c), generated |-> generated]

\* After a release commits or replays: read the events of the case addressed, then
\* build the archive from the snapshot Apply returned, which may be of another one
\* (ReplayIsOwn).  Build refuses all but a released case.
BuildArchive(h) ==
  LET c == run[h].req.case
      snapshot == run[h].case
  IN
  /\ run[h].at = "events"
  /\ IF snapshot.state = "released" /\ snapshot.verdict = "passed" /\ ValidateChain(EventsOf(c))
     THEN \E t \in Moment :
            Goto(h, [at |-> "freeze", req |-> run[h].req, case |-> snapshot,
                     archive |-> Payload(c, snapshot, t)])
     ELSE Goto(h, Refused(run[h].req, "gate"))
  /\ UNCHANGED <<tables, up, faults>>

\* The body and the manifest digest, with its time of generation, are fingerprinted.
FreezePrint(h) == [command |-> run[h].req.body, manifest |-> run[h].archive]

FreezeLookup(h) == Lookup(ArchiveId[run[h].req.id], FreezePrint(h))

\* The case addressed is held against the revision of the snapshot.  The id of the
\* archive, UNIQUE, is made of the case in the snapshot.
FreezeRefusal(h) ==
  LET c == run[h].req.case
      snapshot == run[h].case
  IN  IF Refusal(c, snapshot.revision) # "none" THEN Refusal(c, snapshot.revision)
      ELSE IF cases[c].state # "released" THEN "gate"
      ELSE IF \E d \in Case : archives[d] # None /\ archives[d].case.case = snapshot.case
      THEN "internal" ELSE "none"

\* Fault variant: the archive is remembered under the id of the release itself, by
\* replacing its row.
FreezeUnderRequestId(h) ==
  LET c == run[h].req.case
      after == [cases[c] EXCEPT !.state = "archived", !.revision = @ + 1]
  IN
  /\ run[h].at = "freeze"
  /\ FreezeLookup(h) = "new" /\ FreezeRefusal(h) = "none"
  /\ archives' = [archives EXCEPT ![c] = run[h].archive]
  /\ Write(after, "archive", None, run[h].req.id, FreezePrint(h))
  /\ Goto(h, [at |-> "reply", req |-> run[h].req, case |-> after, outcome |-> "ok"])
  /\ UNCHANGED <<up, faults>>

\* Store.FreezeArchive, committed.
Freeze(h) ==
  LET c == run[h].req.case
      after == [cases[c] EXCEPT !.state = "archived", !.revision = @ + 1]
  IN
  /\ run[h].at = "freeze"
  /\ FreezeLookup(h) = "new" /\ FreezeRefusal(h) = "none"
  /\ archives' = [archives EXCEPT ![c] = run[h].archive]
  /\ Write(after, "archive", None, ArchiveId[run[h].req.id], FreezePrint(h))
  /\ Goto(h, [at |-> "reply", req |-> run[h].req, case |-> after, outcome |-> "ok"])
  /\ UNCHANGED <<up, faults>>

\* Store.FreezeArchive, replayed or rolled back.
FreezeElse(h) ==
  /\ run[h].at = "freeze"
  /\ \/ /\ FreezeLookup(h) = "replayed"
        /\ Goto(h, [at |-> "reply", req |-> run[h].req, outcome |-> "replayed",
                    case |-> idem[ArchiveId[run[h].req.id]].response])
     \/ /\ FreezeLookup(h) = "idempotency_conflict"
        /\ Goto(h, Refused(run[h].req, "idempotency_conflict"))
     \/ /\ FreezeLookup(h) = "new" /\ FreezeRefusal(h) # "none"
        /\ Goto(h, Refused(run[h].req, FreezeRefusal(h)))
  /\ UNCHANGED <<tables, up, faults>>

\* The client gets `outcome' and, unless refused, the case.
Reply(h) ==
  /\ run[h].at = "reply"
  /\ Goto(h, Idle)
  /\ UNCHANGED <<tables, up, faults>>

-----------------------------------------------------------------------------
(* Faults.                                                                 *)

\* The request timeout or a disconnect: what was committed stays, nothing more is.
CutOff(h) ==
  /\ faults < MaxFaults /\ run[h] # Idle
  /\ faults' = faults + 1
  /\ Goto(h, Idle)
  /\ UNCHANGED <<tables, up>>

Crash ==
  /\ faults < MaxFaults /\ up
  /\ faults' = faults + 1
  /\ up' = FALSE
  /\ run' = [h \in Handler |-> Idle]
  /\ UNCHANGED <<tables>>

\* Store.checkAuditChain: the chain is whole and ends at the case's revision.
ChainHolds(c) ==
  LET E == EventsOf(c)
  IN  /\ ValidateChain(E)
      /\ \A m, n \in E : m < n => audit[m].revision <= audit[n].revision
      /\ audit[Max(E)].revision = cases[c].revision

\* Store.CheckConsistency, run on every opening.
CheckConsistency ==
  \A c \in {d \in Case : Exists(d)} :
    /\ (cases[c].state = "archived") <=> (archives[c] # None)
    /\ ChainHolds(c)

Restart ==
  /\ ~up
  /\ CheckConsistency
  /\ up' = TRUE
  /\ UNCHANGED <<tables, run, faults>>

-----------------------------------------------------------------------------
Init ==
  /\ cases = [c \in Case |-> None] /\ audit = << >>
  /\ idem = [id \in RequestIds |-> None] /\ archives = [c \in Case |-> None]
  /\ up = TRUE /\ run = [h \in Handler |-> Idle] /\ faults = 0

Handle(h) ==
  \/ Prefetch(h) \/ PrefetchRefuse(h) \/ PrefetchEvents(h)
  \/ ApplyCreate(h) \/ ApplyCommit(h) \/ ApplyReplay(h) \/ ApplyRefuse(h)
  \/ BuildArchive(h) \/ Freeze(h) \/ FreezeElse(h) \/ Reply(h)

Next ==
  \/ \E h \in Handler, r \in Request : Send(h, r)
  \/ \E h \in Handler : Handle(h) \/ CutOff(h)
  \/ Crash \/ Restart

Spec == Init /\ [][Next]_vars

\* Handlers run to their end and a stopped process is started again.
Fairness == WF_vars(Restart) /\ \A h \in Handler : WF_vars(Handle(h))

FairSpec == Spec /\ Fairness

\* A client that, once answers have been lost, sends a release again until it is
\* archived, as long as nobody is working on it.
Resend(r) ==
  /\ faults > 0
  /\ Exists(r.case) /\ cases[r.case].state = "released"
  /\ \A h \in Handler : run[h] # Idle => run[h].req # r
  /\ \E h \in Handler : Send(h, r)

PersistentSpec ==
  FairSpec /\ \A r \in {q \in Request : q.op = "release"} : SF_vars(Resend(r))

-----------------------------------------------------------------------------
(* Properties.                                                             *)

Committed(id) == idem[id] # None

\* Every table keeps its shape.
TypeOK ==
  /\ \A c \in Case : Exists(c) => cases[c] \in Snapshot
  /\ \A n \in DOMAIN audit : audit[n].case \in Case /\ audit[n].previous \in 0..(n - 1)
  /\ \A id \in RequestIds : Committed(id) => idem[id].response \in Snapshot
  /\ up \in BOOLEAN /\ faults \in 0..MaxFaults
  /\ ~up => \A h \in Handler : run[h] = Idle

\* The store opens again after every crash: no interleaving of commits, cuts
\* and crashes leaves tables that the consistency check of Open rejects.
ReopensAlways == CheckConsistency

\* Whoever raced or retried: each revision of a case was written by exactly one
\* request id, and has exactly one event.
OneWriterPerRevision ==
  \A c \in Case : \A n \in 1..(IF Exists(c) THEN cases[c].revision ELSE 0) :
    /\ Cardinality({id \in RequestIds : Committed(id) /\ idem[id].response.case = c
                                         /\ idem[id].response.revision = n}) = 1
    /\ Cardinality({e \in EventsOf(c) : audit[e].revision = n}) = 1

\* What a witness confirmed, and what a correction names as replaced, was read
\* outside the transaction by up to two queries.  It may be older than the state
\* decided on, but is of its past: the case as it was at an earlier commit, or the
\* last, and a head of its own chain that is no older than the case beside it.
PrefetchWasBefore ==
  \A n \in DOMAIN audit :
    LET e == audit[n] IN
    /\ e.type \in {"correct", "release", "return"} =>
         \E m \in EventsOf(e.case) : m <= e.previous /\ audit[m].revision = e.seen.revision
    /\ e.type \in {"release", "return"} =>
         /\ e.seen.head \in EventsOf(e.case) /\ e.seen.head <= e.previous
         /\ audit[e.seen.head].revision >= e.seen.revision

\* features.go:363: the checklist, which a witness confirms before a release, has
\* no open deviation.  (A case is held exactly while one is open.)
NoneOpenOnChecklist ==
  \A n \in DOMAIN audit : audit[n].type = "release" => audit[n].seen.state # "held"

\* Every request id serves requests about one case.
IdsKeptApart ==
  \A r, s \in Request : r.id = s.id => r.case = s.case /\ (r.op = "create" <=> s.op = "create")

\* An archive holds a released case as some request was answered about it, at the
\* revision that was archived; it is the case itself if ids are kept apart.  Of the
\* case itself it holds the whole history up to the release, whichever handler built
\* it and however many tried.
ArchiveIsHistory ==
  \A c \in {d \in Case : archives[d] # None} :
    LET a == archives[c]
        last == audit[ChainHead(c)]
    IN  /\ a.case.state = "released" /\ a.case.revision = cases[c].revision - 1
        /\ \E id \in RequestIds : Committed(id) /\ idem[id].response = a.case
        /\ IdsKeptApart => a.case.case = c
        /\ last.type = "archive"
        /\ a.case.case = c =>
             a.events = EventsOf(c) \ {ChainHead(c)} /\ Max(a.events) = last.previous

\* Rows are only ever added: no event, archive or remembered answer changes.
AppendOnly ==
  [][ /\ IsPrefix(audit, audit')
      /\ \A id \in RequestIds : Committed(id) => idem'[id] = idem[id]
      /\ \A c \in Case : archives[c] # None => archives'[c] = archives[c] ]_vars

\* The entry of a revision is by the request id that remembers it.
Entered ==
  [c \in Case |-> [n \in 1..(IF cases[c] = None THEN 0 ELSE cases[c].revision) |->
     LET writer == CHOOSE id \in RequestIds :
                     idem[id] # None /\ idem[id].response.case = c
                                     /\ idem[id].response.revision = n
     IN  [by |-> writer, state |-> idem[writer].response.state]]]

Ledger == INSTANCE CaseLedger WITH RequestId <- RequestIds, ledger <- Entered

\* The tables keep the promise of CaseLedger.
LedgerKept == Ledger!Spec

Released(c) == Exists(c) /\ cases[c].state = "released"
Archived(c) == Exists(c) /\ cases[c].state = "archived"

\* README.md:54: a release leads to the archive.
ReleaseLeadsToArchive == \A c \in Case : Released(c) ~> Archived(c)

Replying(h, outcome) == run[h].at = "reply" /\ run[h].outcome = outcome

\* README.md:50: the same request can be replayed safely; only a different body
\* under the same id is refused as a conflict of ids.
ReplayIsSafe ==
  \A h \in Handler : Replying(h, "idempotency_conflict") =>
    idem[run[h].req.id].fingerprint # run[h].req.body

\* store.go:511 refuses an id used for a different request, so what is replayed
\* is the answer about the case that the request addressed.
ReplayIsOwn ==
  \A h \in Handler : Replying(h, "replayed") /\ run[h].req.op # "create" =>
    run[h].case.case = run[h].req.case
=============================================================================
