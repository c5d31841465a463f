-------------------------- MODULE MCTacticalOutbox --------------------------
(* TacticalOutbox with TacticalCommand on small instances for TLC. *)
EXTENDS TacticalOutbox, TLC
=============================================================================
