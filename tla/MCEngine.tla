------------------------------ MODULE MCEngine ------------------------------
(* Small instances of Engine for TLC. *)
EXTENDS Engine, TLC

Symmetry == Permutations(Attempt) \cup Permutations(Run) \cup Permutations(Content)
=============================================================================
