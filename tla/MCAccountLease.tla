--------------------------- MODULE MCAccountLease ---------------------------
(* AccountLease on small instances for TLC. *)
EXTENDS AccountLease, TLC

Symmetry == Permutations(Run) \cup Permutations(Account)
=============================================================================
