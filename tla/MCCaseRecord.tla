---------------------------- MODULE MCCaseRecord ----------------------------
(***************************************************************************)
(* The instance of MCCaseWorkflow with its tables and its summaries.       *)
(***************************************************************************)
EXTENDS Projections, CaseSummaries, MCCaseWorkflow

MCReturned == {1, None}

MCFilters ==
  {NoFilter, [NoFilter EXCEPT !.open = TRUE], [NoFilter EXCEPT !.open = FALSE],
   [NoFilter EXCEPT !.category = "witness_return"], [NoFilter EXCEPT !.severity = "critical", !.to = 1],
   [NoFilter EXCEPT !.from = 2]}
=============================================================================
