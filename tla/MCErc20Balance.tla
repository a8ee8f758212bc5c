--------------------------- MODULE MCErc20Balance ---------------------------
EXTENDS Erc20Balance

(* The first Safe is empty after block 2; the third has a great many       *)
(* transfers and comes late.                                               *)
MCBalanceAfter == <<<<1, 0, 3>>, <<2, 3, 3>>, <<1, 2, 0>>>>
MCMishaps == {<<1, 1, 0>>, <<2, 0, 0>>, <<0, 0, 1>>}
=============================================================================
