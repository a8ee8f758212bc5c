--------------------------- MODULE MCBlockIndexer ---------------------------
(* A trunk and three branches: the second replaces two blocks of the       *)
(* first, the third one block of the second.  Every block has an event; a  *)
(* transaction of one branch comes at another height in another, or not.   *)
EXTENDS BlockIndexer, TLC

CONSTANTS root, a3, a4, b3, b4, b5, c5, c6, t1, t2, t3, t4, m1, m2

Row(p, h, w, txs) == [parent |-> p, height |-> h, weight |-> w, txs |-> txs]
Tree == root :> Row(root, 2, 0, {}) @@
        a3 :> Row(root, 3, 1, {t1}) @@ a4 :> Row(a3, 4, 2, {t2}) @@
        b3 :> Row(root, 3, 3, {t3}) @@ b4 :> Row(b3, 4, 4, {t1}) @@
        b5 :> Row(b4, 5, 5, {t4}) @@
        c5 :> Row(b4, 5, 6, {t2}) @@ c6 :> Row(c5, 6, 7, {t4})

MCParent == [b \in Block \ {root} |-> Tree[b].parent]
MCHeight == [b \in Block |-> Tree[b].height]
MCWeight == [b \in Block |-> Tree[b].weight]
MCTxsIn == [b \in Block |-> Tree[b].txs]

MCStartBlock == [a \in Addr |-> 3]
MCStartBlocks == [a \in Addr |-> IF a = m1 THEN 3 ELSE 4]

ASSUME NoReturn /\ ReorgsAreShallow
=============================================================================
