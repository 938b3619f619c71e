---------------------------- MODULE MCCaseReaders ----------------------------
(***************************************************************************)
(* The paths of two cases to the archive, and one client that reads.  The  *)
(* id and body of the first release also come on the second case.          *)
(***************************************************************************)
EXTENDS CaseReaders, MCSealService

MCReused ==
  {[r EXCEPT !.id = @ \o "2", !.body.id = @ \o "2"] : r \in Path("c2")}
  \cup Path("c1") \cup {Req("release", "release", "c2", 6)}

\* Bound: the second case is created once the first is verified, and goes
\* on once the first is released.
InTurn ==
  Exists("c2") =>
    /\ Exists("c1") /\ cases["c1"].revision >= 6
    /\ cases["c2"].revision > 1 => cases["c1"].revision >= 7

\* Bound: an answer is judged when it is given, and put away before the next commit.
PutAway == (\A x \in Reader : reading[x].at \notin {"shown", "walked", "served"}) \/ UNCHANGED vars
=============================================================================
