----------------------------- MODULE Projections -----------------------------
(***************************************************************************)
(* The tables that repeat parts of a case beside its snapshot.  Every      *)
(* transaction that commits a case rewrites them, and the service starts   *)
(* again only if it finds them to agree with the snapshots.  The case is   *)
(* the one of CaseWorkflow; ids other than the sequence number of a        *)
(* checkpoint are fresh, and a deviation has the id of its place.          *)
(***************************************************************************)
EXTENDS CaseWorkflow

VARIABLES
  tables,   \* the rows of the case: [plan, checkpoints, deviations, release, archives]
  refused   \* whether the last commit broke a constraint and was rolled back

storedVars == <<vars, tables, refused>>

-----------------------------------------------------------------------------
(* syncProjections: what a commit writes to each table.                    *)

\* Fault variant: a row that is there already is left alone.
InsertOnce(row, fact) == IF row = None THEN fact ELSE row

\* INSERT ... ON CONFLICT(case_id) DO UPDATE; an absent fact writes nothing.
SyncPlan(row, fact) == IF fact = None THEN row ELSE fact

SyncRelease(row, fact) == IF fact = None THEN row ELSE fact

CheckpointRows(cps) == [k \in DOMAIN cps |-> [key |-> cps[k].seq, snapshot |-> cps[k]]]

DeviationRows(devs) == [k \in DOMAIN devs |-> [key |-> k, snapshot |-> devs[k]]]

\* DELETE the rows of the case, then INSERT one for each entry of the snapshot.
Replace(rows, new) == new

\* PRIMARY KEY and UNIQUE(case_id, sequence_no).
Unique(rows) == \A j, k \in DOMAIN rows : rows[j].key = rows[k].key => j = k

\* What the transaction of a step of the case writes, the row of the archive
\* with the step that freezes it included.
Sync ==
  LET cps  == Replace(tables.checkpoints, CheckpointRows(checkpoints'))
      devs == Replace(tables.deviations, DeviationRows(deviations'))
  IN  /\ tables' = [plan |-> SyncPlan(tables.plan, plan'), checkpoints |-> cps,
                    deviations |-> devs, release |-> SyncRelease(tables.release, release'),
                    archives |-> IF state' = "archived" THEN Append(tables.archives, archive')
                                 ELSE tables.archives]
      /\ refused' = ~(Unique(cps) /\ Unique(devs))

StoredInit ==
  /\ Init
  /\ tables = [plan |-> None, checkpoints |-> << >>, deviations |-> << >>,
               release |-> None, archives |-> << >>]
  /\ refused = FALSE

\* A refused commit ends the behaviours of interest; RowsAgree says there is none.
StoredNext == ~refused /\ Next /\ Sync

StoredSpec == StoredInit /\ [][StoredNext]_storedVars

-----------------------------------------------------------------------------
(* Properties.                                                             *)

\* Store.checkCaseProjection: what opening the database demands of a case.
CaseProjectionAgrees ==
  /\ tables.plan = plan
  /\ Len(tables.checkpoints) = Len(checkpoints)
  /\ Len(tables.deviations) = Len(deviations)
  /\ (tables.release = None) <=> (release = None)
  /\ Len(tables.archives) = IF state = "archived" THEN 1 ELSE 0

FactRowsAgree ==
  /\ tables.plan = plan
  /\ tables.checkpoints = CheckpointRows(checkpoints)
  /\ tables.deviations = DeviationRows(deviations)
  /\ tables.archives = IF state = "archived" THEN <<archive>> ELSE << >>

DecisionRowAgrees == tables.release = release

\* No commit the rules allow is refused by a constraint of the tables: the
\* client never sees a legal command fail on a sequence number taken twice.
NeverRefused == ~refused

\* Every commit is accepted by the tables, and after it the rows have the contents of
\* the snapshot, which is more than opening demands: a corrected checkpoint and a
\* closed deviation replace the row they had, the one archive is of the case as it
\* was frozen, and a release after a return leaves no row of the return behind.
RowsAgree == NeverRefused /\ FactRowsAgree /\ DecisionRowAgrees
=============================================================================
