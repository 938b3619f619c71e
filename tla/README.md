# TLA+ models of the well-sealing workbench

`wellseal` is a Go service that takes the sealing of an abandoned monitoring well
from a draft to a frozen archive: a baseline is locked, a plan of layers is checked
and locked, each layer is recorded against the plan, deviations are disposed of, the
whole is verified, and an independent witness releases or returns it. This directory
models that code, checks the models with TLC and proves theorems about them with TLAPS.

To check a run: `tlc -config MCSealService.cfg MCSealService`. To check the proofs:
`tlapm CaseWorkflow_proofs.tla`, and so for the other six `_proofs` modules and `Counting`.
`PROJECT.json` lists the runs, the properties, the lines each definition stands for, the
fault each property is tried against, and the hazards.

## 1. The system

| part | state | operations | talks to |
|---|---|---|---|
| `internal/domain` rules | none | `PreflightPlan`, `NormalizedPlan`, `CheckCheckpoint`, `BuildVerificationReport`, `ValidateDeviationResolution`, `BuildWitnessChecklist` | called by the mutators |
| `internal/application` | none of its own | one mutator per command; `Witness` and `CorrectCheckpoint` also read before their transaction, and `Witness` builds and freezes an archive after it | store, archive |
| `internal/store` | SQLite: `cases` (snapshot), `audit_events`, `idempotency`, `archives`, four projection tables | `Create`, `Apply`, `FreezeArchive`, reads, `CheckConsistency` on opening | one connection |
| `internal/archive` | none | `Build`, `VerifyPayload` | domain digests |
| `internal/web` | none | decode, dispatch, map errors, conditional download; a 15 s context per request | application |
| `cmd/wellseal` | none | wiring, stop by signal, self-check | all |

A command runs: HTTP handler -> service -> `Store.Apply`, which in one transaction looks
up the request id, loads the snapshot, compares the revision, calls the mutator, and
writes snapshot, audit event, projections and idempotency row.

What is hard here: everything a handler does outside that one transaction (a stale read
before it, a second transaction after it), requests resent under an id that is
remembered, the request context ending anywhere, a stop of the process while handlers
run, one audit table for all cases, and the long life of a case, in which deviations,
corrections and returns come and go and what was checked once must still hold at the
release. The reading side has its own: none of the answers but one is a transaction, so
commits fall between the queries of one answer and between the pages of one walk; the
store has a single connection for all; times are compared as text; and the workbench
computes progress and summaries by algorithms that share nothing with the report.
What makes each part correct:

- plan preflight: a plan can be locked exactly if it tiles the well; what locks can be built;
- lifecycle: layers top down, held exactly while a deviation is open, a verdict that is
  still current at the release, an independent witness, frozen facts;
- archive: what was frozen can be re-verified for ever;
- store: one writer per revision, whole chains, nothing rewritten, always opens again;
- projection tables: they say what the snapshot says, and never refuse a legal commit;
- release: ends in the archive;
- listing and timeline: a walk shows everything once, ends, and nobody waits for ever;
- detail page and archive: reads of different moments never contradict what is frozen;
- progress and summaries: they agree with the report, the state and each other.

## 2. Modules

| module | models | shape |
|---|---|---|
| `SealRules` | `rules.go`, the report, checklist and retest rules of `features.go`, the participants of `Witness` | operators |
| `Counting` | no code: least numbers, places of a strict order, sums over finite sets | lemmas |
| `PlanRules` | `NormalizedPlan`, `PlanDigest`, `PreflightPlan`, the verdict of `ValidatePlan` | operators |
| `PlanRules_proofs` | what sorting, normalising and the issues give | lemmas |
| `PlanDesk` | a client asking `PreflightPlan` about one plan | one action |
| `PlanDesk_proofs` | theorems about its answer | proofs |
| `CaseWorkflow` | the life of one case, an action per committed operation | state machine |
| `SealPromise` | what a reader of a case's state may rely on | abstract specification |
| `CaseWorkflow_proofs` | theorems about `CaseWorkflow`, its refinement included | proofs |
| `Projections` | the tables a commit writes beside the snapshot, `checkCaseProjection` | extends `CaseWorkflow` |
| `CaseSummaries` | progress, deviation tasks, deviation and quality summary of a case | operators over `CaseWorkflow` |
| `CaseRecord_proofs` | theorems about `Projections` and `CaseSummaries` | proofs |
| `SealService` | handlers, transactions, retries, timeouts, crashes over the tables | state machine |
| `CaseLedger` | what the tables promise, whoever races or retries | abstract specification |
| `SealService_proofs` | theorems about `SealService`, its refinement included | proofs |
| `CaseReaders` | detail page, timeline and archive read query by query beside `SealService` | extends `SealService` |
| `CaseReaders_proofs` | theorems about them | proofs |
| `CaseQueries` | listing, cursor and quality snapshot over many cases and the one connection | state machine |
| `CaseQueries_proofs` | theorems about it | proofs |
| `MCPlanDesk`, `MCCaseWorkflow`, `MCCaseRecord`, `MCSealService`, `MCCaseReaders`, `MCCaseQueries` | small instances; `MCCaseRecord` composes `Projections` and `CaseSummaries` with the case of `MCCaseWorkflow` | constants for TLC |

`CaseWorkflow` and `SealService` split the system along its own seam. In `CaseWorkflow`
a handler is one step and the contents of the case matter; in `SealService` the contents
are reduced to state, revision and last verdict, what a mutator decides is left open
(`Effects`), and the order of database calls matters. The seam is sound because `Apply`
runs the mutator on the row it read in the same transaction. What crosses it are the reads
outside the transaction: `PrefetchWasBefore` of `SealService` says that they are of the past of
the case and may be stale, and so in `CaseWorkflow` a decision carries the checklist of its
revision or, as None, one of an earlier revision (`ChecklistsRead`).

The other modules compose with these two. `Projections` adds the rows to every step of
`CaseWorkflow`, and `CaseSummaries` reads its state; `CaseReaders` interleaves readers with
every step of `SealService`, crashes included. `CaseQueries` stands by itself: a listing
looks at many cases and at little of each, so commits are reduced to what they change of a
row (creation, site, state, revision). Its `Commit` may take a case to any state, which is
more than `CaseWorkflow` allows and therefore covers it.

How state corresponds: `baseline .. archive` of `CaseWorkflow` are the fields of
`domain.SealCase` and the row of `archives`; `involved` is a history variable with the
names that ever took part. `cases`, `audit`, `idem`, `archives` of `SealService` are the tables, and
`run[h]` is where handler `h` stands between its database calls: `req.case` there is the id in
the URL, `case` the snapshot that `Apply` returned, which a replay may take from another case.
A request may name any case and expect any revision. `tables` of `Projections`
has one field per projection table, `refused` says that a key was broken and the commit
rolled back. `reading[x]` of `CaseReaders` and `CaseQueries` is what a reading handler has
in its local variables, or the answer its client holds; `conn` is the one connection
(`SetMaxOpenConns(1)`), held while rows or a transaction are open; `walks[r]` is what a
client gathered page by page, with `steady`, a history variable: the cases there from the
start that matched the filter ever since.

Abstractions, each named in the module that makes it:

- A digest is the content it covers; SHA-256 is taken to be injective.
- Depths are whole millimetres, volumes whole millilitres and tolerances thousandths of a
  percent, all exact. That is as fine as the workbench shows depths and volumes, and finer than
  it shows percentages, so what its rounding does to a ratio is modelled (`Ratio`), and what
  `float64` does to finer numbers is not: a depth of half a millimetre may be shown as 0.001 m
  remaining.
- Text is a finite set with `Trim` for `strings.TrimSpace`, because several properties
  depend on where the code trims and where it does not.
- Fields that gate nothing (coordinates, notes, severity, messages, theoretical volumes)
  are left out; baseline fields other than the depth are one boolean, `complete`, and
  a checkpoint's measurements are two, `named` and `elevation`.
- `preflight_digest` and `verification_digest` are optional conditions a client adds to
  its own request, and only refuse more; they are left out.
- A refused command leaves no trace in `CaseWorkflow`; in `SealService` it is a reply.
- The name of a deviation is its place in the list, the name of an event its sequence. A
  set of events stands for the list in order of sequence.
- A deviation's layer is any of the numbers in `LayerInput`, because nothing checks it.
- A time of detection is the place in the list; hours until disposal are left out.
- `created_at` is modelled as its text: an order in which a whole second comes after its
  fractions (`Text`), with quarters of a second for the fractions there are.
- A search word, site or owner matches a case or not; the patterns of `LIKE` are left out.
- The latest retest of a deviation is the last in the list, and deviations are detected in the
  order of the list. The code goes by the times stamped (features.go:486), so this supposes
  that the clock does not step back.
- `CaseReaders` knows of the frozen facts only whose they are and the verdict (`FactsMatch`);
  the checks of the facts one by one are in `ArchiveServes` of `CaseWorkflow`. Of two cases
  plan, checkpoints and decision always differ, because each bears the id of its case.
- The moment of generation stamped on an archive is one of the set `Moment`.
- `disposed by` and `actor` are one person (the code requires it).

## 3. Runs

| run | states | question | answer |
|---|---|---|---|
| `plan_desk` | 4 754 | Is preflight's verdict right, buildable, and its digest canonical? | holds |
| `case_workflow` | 394 339 | Do the properties of a case and its promise hold, do its projection tables follow it, and do progress and summaries agree with it? | they do |
| `witness_involved` | | Is a witness never someone who took part? | violated |
| `seal_service` | 958 025 | Do the tables survive races, retries, timeouts and crashes, and keep the promise of `CaseLedger`? | they do |
| `early_release` | | Has the checklist of a release no open deviation? | violated |
| `release_retry` | 637 756 | Does a release lead to the archive, if after a fault the client resends it? | yes |
| `release_cut_off` | | And with one fault, if nobody does? | violated |
| `replay_safe` | | Is sending the same request again never a conflict of ids? | violated |
| `replay_own` | | Is a replayed answer about the case that was asked for? | violated |
| `case_readers` | 1 169 953 | Is what a reader is shown in several queries sound while two cases share the tables, one's release comes again on the other, and two faults fall in? | it is |
| `case_queries` | 311 502 | Do walks through a listing show each case once and end, and is everybody answered, while cases are created and change? | yes |
| `created_range` | | Does a search by time of creation show only cases created in the range? | violated |

Bounds, and why they suffice for what they are asked:

- `plan_desk`: depth 2 and every sequence of up to two layers with numbers 0..2,
  from -1..2, to 0..3, so all gaps, overlaps, empty layers and wrong orders of two neighbours
  occur; lots, evidence, tolerance (below 0, 0, 50 percent, above it) and people are varied one
  at a time.
- `case_workflow`: two layers, batches of up to 2 (the code has 25; the loop is the
  same), `MaxRevision` 11. The straight way to the archive takes 8 revisions, so there is
  room for three detours: a rejected batch and its retests, corrections, a return and a
  second verification. Items fail by volume, evidence, missing elevation and order.
  The other volumes are exact, or one in six off under a tolerance of 16.667 percent, which
  passes the gate and rounds to more than the tolerance.
  Deviations name a layer that is sealed, one that is not, or none.
- `seal_service`: one path to the archive, and as rivals a correction, a second witness, a
  return and its disposal, and a client whose own request id is the release's with `:archive`
  appended; two handlers (symmetric) that may take up any request at any time, also one that
  expects a revision still to come. One fault and one moment: what a second fault adds, a crash
  after a timeout, and a second moment, an archive built again with another time, are in
  `release_retry`. Deadlock is checked.
- `release_retry`: one rival, two faults, two moments, no symmetry, and resending only once a
  fault has happened, so that the behaviours without faults show that a release needs no help.
- `early_release`: a path on which a batch fails, so that the case is held when the release is
  prepared.
- `case_queries`: three cases that are created at moments whose text is out of order (two
  may have the same moment), pages of one and two, filters by state and by an upper end that
  falls on a whole second; one client, because what can go wrong lies between a walk and
  the commits, and a second reader only shares the connection (the theorem about it is for
  any number). Each client begins one walk or one summary (`MaxAsked`).
- `case_readers`: the paths of two cases, the release of the first sent with its id and body on
  the second, one handler and one reader. One fault cuts off the first release before its
  archive, so that the second case may be frozen with the first one's snapshot; the other may
  fall anywhere. Pages hold two events, so walks are cut several times and a page is sometimes
  just full. The reading of the events for a checklist may fail at any row (`GetHeadCut`). The
  second case is created once the first is verified and goes on once it is released
  (constraint `InTurn`): only the ends of the two paths meet. An answer a reader has got is put
  away before the next commit (`PutAway`): it does not change any more.

`CHECK_DEADLOCK FALSE` stands in the configurations of `PlanDesk` (one question, then it
stops), of `CaseWorkflow` and `MCCaseRecord` (an archived case never moves again) and of
`CaseQueries` (clients have begun all they may, and all revisions are used up).

Fairness. `SealService!FairSpec` assumes that every handler that can go on does (Go
schedules its goroutine; each database call ends) and that a stopped process is started
again. `PersistentSpec` adds a client that, once answers have been lost, sends a release
again, as long as the case is released and nobody handles that request: strong fairness,
because the chance goes away while it is being handled. Nothing in the code does this; the
runs show it is needed. `release_retry` has no client that uses a release's id with
`:archive` appended: with one, the freezing is refused each time (hazard at
service.go:404) and the case stays released.
`CaseQueries!FairSpec` assumes that a reading handler that can go on again and again does:
strong fairness, because the connection it waits for is taken and given back by others, and
`database/sql` hands it to whoever waits, in order. It also assumes that a client which has
a cursor asks for the next page.

Every property is also tried against a plausible bug. The operators commented
`Fault variant` in the modules are these bugs (a guard dropped, a stale value, an
off-by-one); nothing in the specifications uses them. With the faulty definition
in place TLC finds the property violated under the same configuration.

### What the violated runs show

(`README.md` is here the one of the repository, `service.go` and `store.go` the files of
`internal/application` and `internal/store`.)

1. `witness_involved`. `Witness` forbids the people the case names now.
   `CorrectCheckpoint` replaces a checkpoint with its recorder, so the first recorder may
   witness. README.md:54 says that the witness took no part in recording.
2. `release_cut_off`. The release and the archive are two transactions under one request
   context (service.go:393-408); README.md:54 says the case enters `archived` at once.
3. `replay_safe`. The second transaction's fingerprint contains the manifest digest with
   its time of generation, and the early return of service.go:393 asks a remembered
   snapshot, always `released`, for `archived`. README.md:50 says the same request can
   be replayed safely.
4. `replay_own`. The fingerprint covers the body only; store.go:511 speaks of a
   different request. A release replayed so goes on with the first case's snapshot but with
   the id in the URL (service.go:396, 404): if that case is released at the same revision, it
   is frozen with an archive of the other, which fails its verification each time it is read
   (service.go:522), and the first case can never be archived, because its archive's id is
   taken (store.go:47). `ArchiveReadVerifies` is what holds instead: an archive verifies
   exactly if it is of its own case.
5. `early_release`. `Witness` reads case and events, and computes the checklist, before its
   transaction (service.go:319-331); the expected revision is compared in the transaction only
   (store.go:131). A release that expects a later revision is prepared while a deviation is
   open and commits when retest and verification have brought the case there.
   features.go:363 describes the item as "the open deviations must be zero".
   `PrefetchWasBefore` is what holds instead.
6. `created_range`. A whole second has no fraction and no point in RFC3339Nano, so `Z`
   follows the seconds and sorts after `.5Z`: a search up to 10:00:00Z shows cases of the
   whole second that follows. `RangeRightToTheSecond` is what holds instead, and walks
   are unharmed, because they use the same order throughout (`WalkNeverRepeats`,
   `WalkMissesNone`).

Two smaller disagreements have no run of their own; the properties that pass are worded so
as not to hide them.

- Names of recorders and preparers are stored trimmed, the witness's is compared as typed
  (service.go:355): with a blank around it a recorder's own name passes. `IndependentWitness`
  compares names as the code does.
- The gate compares a volume with the tolerance as it is (rules.go:80), the marker of a lot a
  percentage rounded to hundredths (features.go:259-262). Seven litres for a target of six pass
  a tolerance of 16.667 percent and are shown as 16.67 percent, exceeded, in a case that is
  verified. `ExceededOnlyByRounding` says how far such a lot is over at most.

## 4. Theorems

Every invariant and every action property of the passing runs is a theorem, for every value
of the constants that satisfies the assumptions of its module: `TrimAssumption` (what trimming keeps),
`DeskAssumption`, `WorkflowAssumption`, `ServiceAssumption`, `ReaderAssumption` and
`QueryAssumption` (inputs are records of their types, bounds are numbers, None is none of
the facts, request ids stay apart when `:archive` is appended). TLC evaluates each of them
on its run. Three theorems have a hypothesis beside these, `NoneIsNoDecision` or
`NoneIsNoReport`, named below.

### A case

`CaseWorkflow_proofs` proves, for every value of the constants that satisfies
`TrimAssumption` and `WorkflowAssumption` (any texts, plans, items, batches and bound on
revisions), the ten properties of the case itself that `case_workflow` checks, and what its
summaries rest on, `DispositionHistory`:

| theorem | property | rests on |
|---|---|---|
| `TypeCorrect` | `TypeOK` | itself; it carries which states have a plan |
| `HoldMeansOpenDeviation` | `HeldIffOpen` | `TypeOK` |
| `LayersSealedInOrder` | `SealedInOrder` | `TypeOK` |
| `VerdictStaysCurrent` | `VerdictCurrent` | `TypeOK` |
| `OnlyCompleteCasesVerified` | `VerifiedIsComplete` | `SealedInOrder`, `VerdictCurrent` |
| `ReleasedByIndependentWitness` | `IndependentWitness` | `TypeOK` |
| `ArchiveServesForever` | `ArchiveAlwaysServes` | `VerdictCurrent` |
| `FactsLocked` | `LockedFactsKept` | the guards of the actions |
| `BatchesAllOrNothing` | `AllOrNothing` | `TypeOK` |
| `DispositionsKept` | `DispositionHistory` | `WellDisposed` |
| `KeepsPromise` | `PromiseKept` | `SealedFromTheTop`, `VerifiedIsComplete` |

The argument. `TypeOK` is inductive because it says, beside shapes, that the plan is one
that passed preflight and that neither checkpoints nor deviations precede the start;
without that the actions of sealing would read layers of no plan. `HeldIffOpen` needs
"at most one open" next to "held exactly while one is", or closing one of two
would not resume. `SealedInOrder` is inductive as it stands: the first gap in 1..k is
k + 1 (`NextLayer`, from the least-number principle `LeastNat`), so a batch continues the
sequence (`BatchContinues`), and a correction conforms at the place it replaces.
`VerifiedIsComplete` is not inductive and is not proved by induction: a passed
and current report has no layer without a checkpoint and no open deviation
(`PassedReport`, `CompleteFromVerdict`). `DispositionHistory` speaks of the set of passed
retests; the invariant carried is `WellDisposed`, about every single one, and
`HistoryMeans` derives the set. For the refinement, `SealedFromTheTop` says that the
layers sealed are an initial piece of the plan's, which makes recording a batch a
`SealDown` of `SealPromise` and a passed verification a `Submit`.

### The service

`SealService_proofs` proves, for any cases, handlers, requests and bound on faults that
satisfy `ServiceAssumption`, the seven properties `seal_service` checks:

| theorem | property |
|---|---|
| `TablesTyped` | `TypeOK` |
| `AlwaysReopens` | `ReopensAlways` |
| `OneWriter` | `OneWriterPerRevision` |
| `ReadsWereBefore` | `PrefetchWasBefore` |
| `ArchiveComplete` | `ArchiveIsHistory` |
| `RowsStay` | `AppendOnly` |
| `KeepsLedger` | `LedgerKept` |

The invariant is `Service`. Every write is an `Advances`: one case, a revision one higher, an
id not used before; `Grown` says once what that leaves in each table, and the lemmas
`WriteKeeps...` take one part of the invariant each. What a handler read before its
transaction (`ReadOk`, `HeadOk`) is stated as some event of the case's own chain, which only
grows, so it stays true whatever commits in between; nothing more is true of it, because a
request may expect a revision that comes later. What it takes on to the archive is a snapshot
that the case has or had (`Held`) and some request was answered with (`Answered`); the events
are all there are while that snapshot is current and of the case addressed (`AtFreeze`), and
the comparison of revisions in `FreezeArchive` refuses the handler once it is not. If every id
serves one case (`IdsKeptApart`), what is remembered for it is about that case (`Own`). Each
chain has a greatest event (`Chained`), so the head of a chain is what the next event links to.
There is one writer per revision because no remembered answer is ahead of its case
(`Remembered`), so a new answer is the first of its revision. `Frozen` says that a case is
archived exactly if it has an archive. For the refinement, `Entered` maps the remembered
answers of a case to entries in the order of revisions; every step adds one or none
(`OneEntry`).

### The plan

`PlanDesk_proofs` proves, for a well of any depth, any number of layers and any spelling:

| theorem | property |
|---|---|
| `LockablePlansAreSound` | `LockableIffSound` |
| `LockablePlansAreBuildable` | `LockableIsBuildable` |
| `DigestsAreCanonical` | `DigestIsCanonical` |

`AnswersThePlan`, the invariant, says only that the answer is the one of the rules; the work
is in the rules. A sorted order of the layers exists (`OrderExists`): each layer goes to the
place that counts the layers before it, and every place is taken by one (`EveryPlace` of
`Counting`). If the numbers typed are 1..n, the sorted list is the only one with number k at
place k (`NumberedSorted`, `SortedNumbered`), so neither the order of typing nor sorting
again changes it; that, and trimming twice being trimming once, is the digest.
`CleanHeader`, `CleanLayers` and `CleanPlan` turn "no issue" into what the issues are about:
the header is complete (`Headed`), the lots used are those registered (`Stocked`), the sorted
layers stand on each other (`Stacked`). A perfect checkpoint of such a plan conforms
(`PlannedConforms`); that is about one checkpoint at a time, not about the report.

`LockableIffSound` compares `Stacked`, a walk from layer to layer, with `Tiles`, which says
for every metre that one layer covers it. `StackTiles`: the layer that covers a metre is the
first one that ends below it. `TilesStack`: sorted tiles start
ever deeper (`TilesNumbered`). If one ended above the start of the next, the metre below
its end would be covered by a layer further up, which would then overlap it.

### The tables beside the snapshot

`CaseRecord_proofs`: `StoredCaseIsCase` carries the theorems about a case over.
`NoCommitRefused` (`NeverRefused`, part of `RowsAgree`) rests on `SealedInOrder`: sequence numbers are 1..k, so
the rows of a commit have different keys. `RowsFollowTheCase` (`RowsAgree`) and
`OpensAfterEveryCommit` (opening accepts the rows, `CaseProjectionAgrees`) assume
`NoneIsNoDecision`: the value None, which stands for an absent fact, is not the record of a
decision. Plan and decision are upserts that never delete, so the proof needs that neither
is ever taken away (`PlanStays`, `DecisionStays`).

### What is shown

`CaseRecord_proofs`: `ProgressAgrees` (`ProgressMatchesReport`) goes through
`SealedPasses`: a checkpoint that conformed when it was recorded passes every check the
report repeats. `BlockedWhileHeld` (`BlockedOnlyWhileHeld`) needs that one deviation at
most is open. `SummariesAlwaysAgree` (`SummariesAgree`) shows that both filters select
`Summarized`, and gets the latest retest from `DispositionHistory`.
`FinishedCasesShowNoGap` (`FinishedShowsNoGap`) assumes `NoneIsNoReport`, as above. The
depths of stacked layers add up to the last one's end (`DepthAddsUp`), and each layer's
checkpoint conforms, so it lacks neither evidence nor, at the bottom, the elevation
(`FinishedProgress`). The sum is a fold over a finite set; `SumIsCount` of `Counting` shows
that such a fold is the number of beads on an abacus, and sets of beads are taken apart and
compared by the library's theorems on cardinality. `ExceededLotsAreRounded`
(`ExceededOnlyByRounding`): deviations within a tolerance add up to one within it
(`TolerancesAdd`), and rounding adds half a hundredth of a percent (`RoundedWithin`).

### The listing

`CaseQueries_proofs` proves, for any number of cases, readers and commits, any limits and
any filters:

| theorem | property | rests on |
|---|---|---|
| `SnapshotsAreOfOneMoment` | `SnapshotOfOneMoment` | `Connected` |
| `QueriesTyped` | `TypeOK` | `Served`, `Holding` |
| `WalksNeverRepeat` | `WalkNeverRepeats` | `Walked` |
| `WalksMissNone` | `WalkMissesNone` | `Walked` |
| `RangesAreRightToTheSecond` | `RangeRightToTheSecond` | `Walked`, `TextTellsApart` |
| `FiguresOnlyGrow` | `FiguresGrow` | `Handling` |

A handler inside its transaction holds the connection, and every commit needs it
(`Connected`, `Holding`). The invariant of the walks is `Served`. `Walked` says what a
client has after some pages: nothing it was shown lies beyond its cursor, and what it still
expects (`steady`) does. Both survive commits, because creation times never change
(`OrderKept`, `WalkKept`), and the next page, because a page is the beginning of the sorted
list of what lies beyond the cursor (`RowsSorted`, `PageBegins`, `WalkGoesOn`). `Handling`
says the same of an answer that is still being put together: the counts are of a moment
before the total and that of a moment before the page, and cases are never removed, so each
figure is at most the next (`Counted`, `Totalled`, `OnlyPage`).

### The detail page, the timeline and the archive

`CaseReaders_proofs`: readers write nothing (`ReadersServe`). The invariant `Sound` says of
each record a reader holds how it relates to the tables now; `CasesStay` says what commits
leave alone, and an archived case is left alone altogether. `ChecklistsCurrent`
(`ChecklistNotBehind`) follows: a head is some event of the case's chain, and not behind it
where the events were read without an error. `ArchivesVerify` (`ArchiveReadVerifies`) has two
halves: `HistoryVerifies` shows of an archive of its own case that the frozen events are the
chain without its last event, and that both are chains; `OtherFails` that no other archive
has the facts of the case it is kept for. `TimelinesAreWhole` (`TimelineIsWhole`):
what a walk has is the beginning of the chain up to its last number (`Gathers`), a page of
what comes after that number prolongs it (`GathersOn`), and an event appended since has
a greater number, so it never falls into what is gathered.

## 5. Only model-checked

- Liveness under fairness (`ReleaseLeadsToArchive`, `EveryQuestionAnswered`,
  `EveryWalkEnds`) is beyond TLAPS, and so is ENABLED: that the system does not stop is
  the deadlock check of `seal_service`, `release_retry` and `case_readers`.
- That digests stand for their contents is an assumption, not a result.

Induction over data is beyond the prover as well; nothing above needs it as a rule of proof.
Where one would use it, the proofs take a least number that breaks the claim (`LeastNat`),
or a smallest set that does (a finite set's subsets are well founded), and show that there is
a smaller one.

## 6. Not modelled

- Routing, decoding, status codes and `ETag` matching: they keep no state, and what an
  answer says is decided behind them. The `ETag` of an archive is its manifest digest, and
  `RowsStay` says that an archive never changes, so a cached copy never goes stale.
- Process wiring, configuration and the self-check: input and output only. Stopping and
  starting are `Crash` and `Restart`; a stop by signal is a crash for handlers under way,
  because `main` does not wait for `Shutdown` (main.go:47).
- The web page, a client like any other.
- The figures that gate nothing: theoretical volumes, hours of disposition, ratios beside
  their markers.
- `domain.Verify`, `ConstructionComplete` and `archive.RebuildAndVerify` are not called by
  the service.

## 7. Plan

Done, in this order: `SealRules`, `PlanRules`, `PlanDesk`, `CaseWorkflow` and its
refinement of `SealPromise`, `SealService` and its refinement of `CaseLedger`, the proofs
about both, `Projections`, `CaseSummaries`, `CaseReaders` and `CaseQueries`, and the proofs
of all safety properties. Left:

1. One module in which the transaction of `SealService` runs the mutators of `CaseWorkflow`,
   so that the seam of section 2 becomes a theorem instead of an argument.
2. `CaseQueries` with two readers in one run: the theorems cover any number of readers,
   liveness is checked for one.
