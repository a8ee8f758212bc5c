----------------------------- MODULE MCTaskLock -----------------------------
(* Two workers; the first may execute two runs at a time, the second one.  *)
(* Every run competes for the same name.                                   *)
EXTENDS TaskLock

CONSTANTS w1, w2, r1, r2, r3, lock

MCWorkerOf == [r \in Run |-> IF r = r2 THEN w2 ELSE w1]
MCNameOf == [r \in Run |-> lock]
=============================================================================
