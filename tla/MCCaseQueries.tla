--------------------------- MODULE MCCaseQueries ---------------------------
(***************************************************************************)
(* Small instances of CaseQueries.                                         *)
(***************************************************************************)
EXTENDS CaseQueries

Anything == [keyword |-> None, state |-> None, from |-> None, to |-> None]

\* The text of 4, a whole second, comes after that of 5, a fraction later.
MCFilters ==
  {Anything,
   [Anything EXCEPT !.state = "draft"],
   [Anything EXCEPT !.to = 4]}

\* Two cases may have one moment, and two of one second come in either order.
MCInstant == <<{4, 8}, {4, 5}, {5}>>

MCRangeInstant == <<{4, 5}>>

MCRange == {[Anything EXCEPT !.from = 4], [Anything EXCEPT !.to = 4]}
=============================================================================
