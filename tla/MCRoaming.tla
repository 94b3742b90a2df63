----------------------------- MODULE MCRoaming -----------------------------
(* Instances of Roaming for TLC. *)
EXTENDS RoamingProps, TLC

Symmetry == Permutations(Requests) \cup Permutations(Roams) \cup Permutations(Conns)
=============================================================================
