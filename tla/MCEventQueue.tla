---------------------------- MODULE MCEventQueue ----------------------------
(* Events and connections are alike.                                       *)
EXTENDS EventQueue, TLC

Symmetry == Permutations(Event) \cup Permutations(Conn)
=============================================================================
