----------------------------- MODULE CaseLedger -----------------------------
(***************************************************************************)
(* What the store promises about every case, whoever races, retries or     *)
(* crashes: one growing ledger of entries, one entry per revision, each    *)
(* made by a request id that made no other entry anywhere, and each a      *)
(* legal move from the state before it.  An archived case gets no more.    *)
(***************************************************************************)
EXTENDS Naturals, Sequences

CONSTANTS Case, RequestId

VARIABLE ledger   \* ledger[c]: the entries [by, state] of case c, oldest first

Moves == {
  <<"draft", "draft">>, <<"draft", "baseline_locked">>,
  <<"baseline_locked", "baseline_locked">>, <<"baseline_locked", "sealing">>,
  <<"sealing", "sealing">>, <<"sealing", "held">>, <<"sealing", "verification">>,
  <<"held", "held">>, <<"held", "sealing">>,
  <<"verification", "held">>, <<"verification", "released">>, <<"released", "archived">> }

Entries(c) == {ledger[c][n] : n \in DOMAIN ledger[c]}
Used       == {e.by : e \in UNION {Entries(c) : c \in Case}}

\* Where the next entry of a case may take it.
Follows(c, state) ==
  IF ledger[c] = << >> THEN state = "draft"
  ELSE <<ledger[c][Len(ledger[c])].state, state>> \in Moves

Enter(c, entry) ==
  /\ entry.by \in RequestId \ Used
  /\ Follows(c, entry.state)
  /\ ledger' = [ledger EXCEPT ![c] = Append(@, entry)]

Init == ledger = [c \in Case |-> << >>]

\* One case grows, by whatever entry comes to stand last.
Next == \E c \in Case : /\ Len(ledger'[c]) = Len(ledger[c]) + 1
                        /\ Enter(c, ledger'[c][Len(ledger[c]) + 1])

Spec == Init /\ [][Next]_ledger
=============================================================================
