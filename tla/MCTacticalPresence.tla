-------------------------- MODULE MCTacticalPresence -------------------------
(* TacticalPresence on small instances for TLC. *)
EXTENDS TacticalPresence, TLC

Symmetry == Permutations(User) \cup Permutations(Connection) \cup Permutations(Socket)
=============================================================================
