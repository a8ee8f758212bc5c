--------------------------- MODULE MCNativeBalance ---------------------------
(* A fleet the nightly task may seed by itself, and one it may not.  Two   *)
(* steps may fail, or two live chunks may be taken for dead.               *)
EXTENDS NativeBalance

MCOldSafes == {{1}, {1, 2}}
MCMishaps == {<<2, 0>>, <<0, 2>>}

(* A step fails and a live chunk is taken for dead.                        *)
MCBoth == {<<1, 1>>}

ASSUME Mishaps = MCBoth \/ Setting
=============================================================================
