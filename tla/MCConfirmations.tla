--------------------------- MODULE MCConfirmations ---------------------------
EXTENDS Confirmations, TLC

(* One transaction, executed at most once.                                 *)
MCNonceOf == [h \in {"h0"} |-> 0]

MCSymmetry == Permutations(Owners) \cup Permutations(Clients)
=============================================================================
