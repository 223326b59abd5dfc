----------------------------- MODULE MCStaging ------------------------------
(* Small instances of Staging for TLC. *)
EXTENDS Staging, TLC

Symmetry == Permutations(Stage) \cup Permutations(Key)

=============================================================================
