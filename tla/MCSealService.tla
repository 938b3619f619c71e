---------------------------- MODULE MCSealService ----------------------------
(***************************************************************************)
(* The requests that take one case to the archive, each expecting the      *)
(* revision before it, with rivals for the interesting revisions.          *)
(***************************************************************************)
EXTENDS SealService, TLC

Req(id, op, case, expected) ==
  [id |-> id, op |-> op, case |-> case, expected |-> expected, body |-> [id |-> id, expected |-> expected]]

\* Up to sealing there is one client; the rest of the path has competition.
Path(c) == {
  Req("create", "create", None, 0), Req("lock", "lock", c, 1), Req("plan", "plan", c, 2),
  Req("start", "start", c, 3), Req("item", "checkpoint", c, 4), Req("verify", "verify", c, 5),
  Req("release", "release", c, 6) }

MCMoment == {1, 2}

MCSymmetry == Permutations(Handler)

OtherIds == {i \o "2" : i \in {"create", "lock", "plan", "start", "item", "verify", "release"}}

Ids == {"create", "lock", "plan", "start", "item", "fix", "verify", "again", "release",
        "rival", "return", "resolve", "other", "release:archive"} \cup OtherIds
MCArchiveId == [id \in Ids |-> id \o ":archive"]

\* Rivals: a client that locks the baseline under the id that the archive of the
\* release will be frozen under, a correction, another witness and a return.
MCRequest == Path("c1") \cup {
  Req("release:archive", "lock", "c1", 1),
  Req("fix", "correct", "c1", 5), Req("rival", "release", "c1", 6),
  Req("return", "return", "c1", 6), Req("resolve", "resolve", "c1", 7)}

\* Fewer rivals for liveness.
MCRelease == Path("c1") \cup {Req("rival", "release", "c1", 6)}

\* A path with a deviation, and a release that expects what is still to come.
MCEarlyRelease ==
  {r \in Path("c1") : r.op \in {"create", "lock", "plan", "start", "checkpoint"}}
  \cup {Req("resolve", "resolve", "c1", 5), Req("again", "verify", "c1", 6), Req("rival", "release", "c1", 7)}

\* One id and one body for the baselines of two cases.
MCTwoCases == {
  Req("create", "create", None, 0), Req("other", "create", None, 0),
  Req("lock", "lock", "c1", 1), Req("lock", "lock", "c2", 1)}
=============================================================================
