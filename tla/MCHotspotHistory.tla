--------------------------- MODULE MCHotspotHistory ---------------------------
(* HotspotHistory on a small instance for TLC. *)
EXTENDS HotspotHistory, TLC

Symmetry == Permutations(Rows)

(* Between passes nothing reads the sample of the last one: BeginPass replaces *)
(* it.                                                                         *)
View == <<dir, durable, spare, pc, IF pc = "idle" THEN << >> ELSE <<sample>>, reader>>
=============================================================================
