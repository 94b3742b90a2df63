------------------------------ MODULE MCTable ------------------------------
(* Instances of TetherTable for TLC. *)
EXTENDS TableProps, TLC

Symmetry == Permutations(Turns) \cup Permutations(Sessions) \cup Permutations(Callers)
=============================================================================
