--------------------------- MODULE MCDomainClaims ---------------------------
(* Small instances of DomainClaims for TLC. *)
EXTENDS DomainClaims, TLC

Symmetry == Permutations(Call) \cup Permutations(Context) \cup Permutations(Version)

=============================================================================
