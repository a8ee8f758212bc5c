--------------------------- MODULE MCErc20Indexer ---------------------------
EXTENDS Erc20Indexer

(* s1 is known from the beginning, s2 may come in time, at the very moment *)
(* of the last check, or too late for the first scan of its block.         *)
MCTransfers == {[block |-> 1, safe |-> "s2"], [block |-> 2, safe |-> "s1"]}
MCCreatedIn == [s \in Safes |-> 0]

ASSUME Setting
=============================================================================
