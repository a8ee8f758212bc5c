------------------------- MODULE MCSafeTxProcessing -------------------------
(* A Safe set up by one owner, who adds a second one and goes, so that the *)
(* order of the calls decides who owns the Safe.                           *)
EXTENDS SafeTxProcessing

CONSTANTS o1, o2

ACall(fn, owner, threshold, nonce) ==
  [fn |-> fn, owners |-> <<o1>>, owner |-> owner, newOwner |-> o1,
   threshold |-> threshold, nonce |-> nonce]

MCCall == <<ACall("setup", o1, 1, 0), ACall("execTransaction", o1, 0, 0),
            ACall("addOwner", o2, 2, 0), ACall("removeOwner", o2, 0, 0),
            [ACall("swapOwner", o1, 0, 0) EXCEPT !.newOwner = o2],
            ACall("approveHash", o1, 0, 0)>>
MCTimestamp == <<1, 2, 2, 3, 4, 4>>

ASSUME Setting
=============================================================================
