---------------------------- MODULE CaseSummaries ----------------------------
(***************************************************************************)
(* What the workbench shows of a case beside its facts, computed anew for  *)
(* every answer by algorithms of their own: progress by layer and by lot,  *)
(* the list of deviation tasks, their summary in groups, and the place of  *)
(* the case in the quality summary.  None of them is stored, and none uses *)
(* the verdict of the report; the properties say where they must agree.    *)
(*                                                                         *)
(* A deviation is detected when it is appended: its time is its place, and *)
(* the latest of its retests is the last.  Both suppose a clock that does  *)
(* not step back: the code goes by the times stamped.                      *)
(***************************************************************************)
EXTENDS CaseWorkflow

CONSTANT FilterInput   \* filters of deviations a client may ask for

ASSUME FilterAssumption ==
  /\ FilterInput \subseteq [open : BOOLEAN \cup {None}, category : Categories \cup {None},
                            severity : {"critical", "major", "moderate", "minor", None},
                            from : Nat \cup {None}, to : Nat \cup {None}]
  /\ None # TRUE /\ None # "passed"

-----------------------------------------------------------------------------
(* SummarizeProgress, where there is a plan.                               *)

SealedAt(layer) == {c \in DOMAIN checkpoints : checkpoints[c].seq = layer.seq}

\* Fault variant: closed deviations block their layer too.
BlockedByAny(layer) == \E d \in DOMAIN deviations : deviations[d].layer = layer.seq

\* A deviation may name a layer the plan does not have: it blocks none.
Blocked(layer) == \E d \in OpenDeviations(deviations) : deviations[d].layer = layer.seq

\* Of two checkpoints of a layer the later one in the list counts.
LayerProgress(layer) ==
  LET at == SealedAt(layer)
      cp == checkpoints[Max(at)]
  IN  [status    |-> IF Blocked(layer) THEN "blocked" ELSE IF at = {} THEN "pending" ELSE "passed",
       missing   |-> IF at = {} THEN {} ELSE RequiredEvidence(plan, layer) \ cp.evidence,
       elevation |-> at # {} /\ cp.elevation]

\* A layer that is sealed is completed, blocked or not.
CompletedLayers == {k \in DOMAIN plan.layers : SealedAt(plan.layers[k]) # {}}

Span(layer) == layer.to - layer.from

CompletedDepth ==
  SumFunctionOnSet([k \in DOMAIN plan.layers |-> Span(plan.layers[k])], CompletedLayers)

RemainingDepth == Max({0, baseline.depth - CompletedDepth})

\* n / d rounded to the nearest integer, for n and d positive.
Rounded(n, d) == (2 * n + d) \div (2 * d)

\* The target of a lot is that of all its layers; the actual volume counts the
\* lot each checkpoint names.
Target(lot) == VolumeOfLot(plan.layers, lot)

Actual(lot) ==
  LET latest(k) == checkpoints[Max(SealedAt(plan.layers[k]))]
  IN  SumFunctionOnSet([k \in CompletedLayers |-> latest(k).volume],
                       {k \in CompletedLayers : latest(k).lot = lot})

\* Fault variant: the percentage is rounded to a whole one.
RatioInPercents(lot) ==
  IF Target(lot) > 0 THEN 100 * Rounded(Abs(Actual(lot) - Target(lot)) * 100, Target(lot)) ELSE 0

\* By how much a lot is off its target, rounded to hundredths of a percent.
\* Volumes being whole millilitres, rounding their difference changes nothing.
Ratio(lot) ==
  IF Target(lot) > 0 THEN Rounded(Abs(Actual(lot) - Target(lot)) * 10000, Target(lot)) ELSE 0

\* The tolerance is not rounded.
Marker(lot) ==
  IF Ratio(lot) * Percent > plan.tolerance * 100 THEN "exceeded"
  ELSE IF plan.tolerance > 0 /\ Ratio(lot) * Percent >= plan.tolerance * 80 THEN "near_limit" ELSE "normal"

SummarizeProgress ==
  [completed |-> Cardinality(CompletedLayers), total |-> Len(plan.layers),
   remaining |-> RemainingDepth,
   layers    |-> [k \in DOMAIN plan.layers |-> LayerProgress(plan.layers[k])],
   materials |-> [lot \in {plan.layers[k].lot : k \in DOMAIN plan.layers} |-> Marker(lot)]]

-----------------------------------------------------------------------------
(* Deviation tasks and deviation summary.                                  *)

DeviationSeverity(category) ==
  CASE category \in {"depth_out_of_range", "witness_return"} -> "critical"
    [] category \in {"material_mismatch", "volume_out_of_tolerance"} -> "major"
    [] category \in {"evidence_missing", "terminal_elevation_missing"} -> "moderate"
    [] OTHER -> "minor"

NoFilter == [open |-> None, category |-> None, severity |-> None, from |-> None, to |-> None]

OfKind(f, k) ==
  /\ f.category = None \/ deviations[k].category = f.category
  /\ f.severity = None \/ DeviationSeverity(deviations[k].category) = f.severity

DetectedWithin(f, k) ==
  /\ f.from = None \/ k >= f.from
  /\ f.to = None \/ k <= f.to

\* The tasks in order of detection; how many are open and since when is told of
\* all deviations, whatever the filter.
DeviationTasks(f) ==
  LET open == OpenDeviations(deviations)
  IN  [items    |-> {k \in DOMAIN deviations :
                       /\ f.open = None \/ deviations[k].open = f.open
                       /\ OfKind(f, k) /\ DetectedWithin(f, k)},
       open     |-> Cardinality(open),
       earliest |-> IF open = {} THEN None ELSE Min(open)]

\* Dispositions are appended as they occur.
SummaryItem(k) ==
  LET d == deviations[k].dispositions
      results(r) == Cardinality({j \in DOMAIN d : d[j].retest = r})
  IN  [open |-> deviations[k].open, failed |-> results("failed"), passed |-> results("passed"),
       latest |-> IF d = << >> THEN None ELSE Last(d).retest]

Group(ks) ==
  [total |-> Cardinality(ks), open |-> Cardinality(ks \cap OpenDeviations(deviations)),
   earliest |-> Min(ks), latest |-> Max(ks), items |-> [k \in ks |-> SummaryItem(k)]]

GroupKey(k) == <<deviations[k].category, DeviationSeverity(deviations[k].category)>>

Groups(ks) == [key \in {GroupKey(k) : k \in ks} |-> Group({k \in ks : GroupKey(k) = key})]

\* Fault variant: the state asked for is not looked at.
SummarizeDeviationsAll(f) ==
  LET ks == {k \in DOMAIN deviations : OfKind(f, k) /\ DetectedWithin(f, k)}
  IN  [total |-> Cardinality(ks), open |-> Cardinality(ks \cap OpenDeviations(deviations)),
       groups |-> Groups(ks)]

\* Category and severity are filtered by the service, the rest by the summary.
SummarizeDeviations(f) ==
  LET kind == {k \in DOMAIN deviations : OfKind(f, k)}
      ks   == {k \in kind : (f.open = None \/ deviations[k].open = f.open) /\ DetectedWithin(f, k)}
  IN  [total |-> Cardinality(ks), open |-> Cardinality(ks \cap OpenDeviations(deviations)),
       groups |-> Groups(ks)]

-----------------------------------------------------------------------------
(* SummarizeQuality: the count a case goes to, and its part in the groups. *)

VerificationCount ==
  IF state = "archived" THEN "archived"
  ELSE IF verification = None THEN "unverified"
  ELSE IF verification.passed THEN "passed" ELSE "failed"

QualityGroups ==
  [key \in {GroupKey(k) : k \in DOMAIN deviations} |->
     LET ks == {k \in DOMAIN deviations : GroupKey(k) = key}
     IN  [total |-> Cardinality(ks), open |-> Cardinality({k \in ks : deviations[k].open}),
          earliest |-> Min(ks), latest |-> Max(ks)]]

-----------------------------------------------------------------------------
(* Properties.                                                             *)

\* Progress is complete exactly when verification would pass, except that an
\* open deviation alone keeps it back: the two count sealed layers, evidence
\* and tolerance in different ways.
ProgressMatchesReport ==
  plan # None =>
    LET p == SummarizeProgress
    IN  CurrentReport.passed <=> p.completed = p.total /\ state # "held"

\* A verified case shows no gap: every layer passed, no evidence or terminal
\* elevation missing, and no depth left to the bottom of the well (depths being whole
\* millimetres), although progress adds the layers up by itself; and the quality
\* summary counts it as passed until it is archived.
FinishedShowsNoGap ==
  state \in AfterVerification =>
    LET p == SummarizeProgress
    IN  /\ \A k \in DOMAIN p.layers : p.layers[k].status = "passed" /\ p.layers[k].missing = {}
        /\ p.layers[p.total].elevation
        /\ p.remaining = 0
        /\ VerificationCount = IF state = "archived" THEN "archived" ELSE "passed"

\* The gate looks at the volume of each layer, progress at the sums of each lot, and
\* rounds.  In a verified case every lot is within the tolerance, and one that is
\* shown as exceeding it all the same is over by the rounding alone: by half a
\* hundredth of a percent at most.
ExceededOnlyByRounding ==
  state \in AfterVerification =>
    \A lot \in DOMAIN SummarizeProgress.materials :
      /\ Abs(Actual(lot) - Target(lot)) * 100 * Percent <= Target(lot) * plan.tolerance
      /\ SummarizeProgress.materials[lot] = "exceeded" =>
           2 * Ratio(lot) * Percent <= 200 * plan.tolerance + Percent

\* A layer is shown as blocked only while the case is held, and then only one:
\* also a layer that was sealed before a witness returned it.
BlockedOnlyWhileHeld ==
  plan # None =>
    LET blocked == {k \in DOMAIN plan.layers : LayerProgress(plan.layers[k]).status = "blocked"}
    IN  /\ blocked # {} => state = "held"
        /\ \A j, k \in blocked : plan.layers[j].seq = plan.layers[k].seq

\* Tasks and summary find the same deviations under the same filter; the groups
\* share them out; the latest retest of a closed one, and of no open one, is a
\* passed retest; and the quality summary, which makes its own, has the groups
\* of all deviations.
SummariesAgree ==
  /\ LET whole == SummarizeDeviations(NoFilter).groups IN
       /\ DOMAIN QualityGroups = DOMAIN whole
       /\ \A key \in DOMAIN whole : \A figure \in {"total", "open", "earliest", "latest"} :
            QualityGroups[key][figure] = whole[key][figure]
  /\ \A f \in FilterInput :
       LET tasks   == DeviationTasks(f)
           summary == SummarizeDeviations(f)
           shared  == UNION {DOMAIN summary.groups[key].items : key \in DOMAIN summary.groups}
       IN  /\ shared = tasks.items
           /\ summary.total = Cardinality(tasks.items)
           /\ f.open = TRUE => summary.open = summary.total
           /\ f = NoFilter => summary.open = tasks.open
           /\ \A key \in DOMAIN summary.groups : \A k \in DOMAIN summary.groups[key].items :
                LET item == summary.groups[key].items[k]
                IN  item.open <=> item.latest # "passed"
=============================================================================
