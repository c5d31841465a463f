------------------------- MODULE MCTacticalRealtime -------------------------
(* TacticalRealtime on small instances for TLC. *)
EXTENDS TacticalRealtime, TLC
=============================================================================
