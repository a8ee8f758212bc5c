----------------------------- MODULE SafeLedger -----------------------------
(***************************************************************************)
(* What the processing of decoded calls promises: the status on show is    *)
(* that of the calls applied so far, in the order of the chain.  Calls are *)
(* applied at the end; to get an earlier one in, the ledger is first cut   *)
(* back to a moment before it.                                             *)
(***************************************************************************)
EXTENDS SafeStatus

VARIABLES
  applied, \* the calls applied
  status   \* the status on show

Init == applied = {} /\ status = NoStatus

Extend(rows) ==
  /\ \A r \in rows, q \in applied : q < r
  /\ applied' = applied \cup rows

Cut(t) == applied' = {r \in applied : Timestamp[r] < t}

Next ==
  /\ \/ \E rows \in SUBSET Row : Extend(rows)
     \/ \E r \in Row : Cut(Timestamp[r])
  /\ status' = Replay(applied')

Spec == Init /\ [][Next]_<<applied, status>>
=============================================================================
