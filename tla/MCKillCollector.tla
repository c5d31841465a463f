--------------------------- MODULE MCKillCollector ----------------------------
(* KillCollector on small instances for TLC. *)
EXTENDS KillCollector, TLC

(* The second and third kill happened in the same second. *)
Times == [id \in Id |-> <<1, 2, 2, 3>>[id]]

Symmetry == Permutations(Proc)

(* A run that has lost the row can only end: of where it was, only whether it  *)
(* may still reset failure_count matters.  The same holds of one that will ask *)
(* for no more, except for the position that a probe returns to.  The step of  *)
(* a search that has ended and the empties of earlier probes are reset before  *)
(* they are read; and what a run has of the count matters while it may save it.*)
Resets(p) == job[p].pc = "ask" /\ Healthy(p)
Place(p) ==
    LET at == job[p]
    IN CASE at.pc = "idle" -> <<"idle">>
         [] at.pc # "idle" /\ ~Owned(p) -> <<"lost", Resets(p)>>
         [] Owned(p) /\ at.pc = "ask" /\ Spent(p) -> <<"spent", Resets(p), at.firstEmpty>>
         [] Owned(p) /\ at.pc \in {"finish", "abort"} -> <<at.pc, at.firstEmpty>>
         [] OTHER -> <<at, remembered[p]>>

Searching == cursor.plan.phase = "locate"
Probing == \E p \in Proc : Owned(p) /\ job[p].kind = "probe" /\ job[p].pc \in {"ask", "asked"}
View == <<[cursor EXCEPT !.empties = IF Probing THEN @ ELSE 0,
                         !.plan = IF @ = NoPlan \/ Searching THEN @ ELSE [@ EXCEPT !.step = 1]],
          row, failures, settled, emptied, [p \in Proc |-> Place(p)]>>
=============================================================================
