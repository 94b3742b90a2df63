------------------------------ MODULE MCTether ------------------------------
(* Instances of Tether for TLC. *)
EXTENDS TetherProps, TLC

(* Connections are alike, and so are the turns of a kind.  Only for runs   *)
(* without liveness properties.                                            *)
Symmetry == Permutations(Conns) \cup Permutations(Pushes)
=============================================================================
