--------------------------- MODULE BatchProtection ---------------------------
(***************************************************************************)
(* What the batch policy of the Market collector promises an operator       *)
(* (docs/market-prices.md 34-36): a pass that fails puts the collector       *)
(* under protection, which ends by its own expiry, by one successful full    *)
(* batch, or by the administrator, and by nothing else.  The one full batch  *)
(* is earned by RECOVERY_SUCCESS_THRESHOLD healthy reduced passes without    *)
(* anything in between, and is never given back.                             *)
(*                                                                         *)
(* The administrator's reset ends the protection but does not renew the      *)
(* one full batch: the next protection may begin with it spent.              *)
(***************************************************************************)
EXTENDS Integers

CONSTANTS FALLBACK_DURATION_MS, RECOVERY_SUCCESS_THRESHOLD,
          MAX_ITEMS_PER_RUN, FALLBACK_ITEMS_PER_RUN

VARIABLES
  clock,
  until,       \* when the protection expires, 0 without one
  transient,   \* it was raised by a transient error and can be earned away
  credit,      \* healthy passes in a row, as far as they count
  spent,       \* the one full batch has been tried
  pass,        \* the pass on record: none, open or probe
  collected    \* an input: the items the pass on record has collected

protection == <<until, transient>>

Raise(kinds) ==
  /\ \E t \in 0 .. clock : until' = t + FALLBACK_DURATION_MS
  /\ transient' \in kinds
Lift == until' = 0 /\ transient' = FALSE
Expire == until # 0 /\ until <= clock /\ Lift /\ spent' = FALSE
Earnable == until # 0 /\ transient /\ ~spent

Init ==
  /\ clock \in Nat
  /\ until = 0 \/ \E t \in 0 .. clock : until = t + FALLBACK_DURATION_MS
  /\ transient \in BOOLEAN
  /\ credit = 0
  /\ spent = FALSE
  /\ pass = "none"

(* A pass begins, or finds nothing to do. *)
Begin ==
  /\ pass = "none" /\ pass' \in {"none", "open"}
  /\ \/ UNCHANGED <<protection, credit, spent>>
     \/ Expire /\ credit' = 0
  /\ UNCHANGED clock

(* The pass on record died: whoever finds it closes it under protection. *)
TakeOver ==
  /\ pass # "none" /\ pass' \in {"none", "open"}
  /\ Raise({FALSE})
  /\ credit' = 0
  /\ UNCHANGED <<clock, spent>>

Probe ==
  /\ pass = "open" /\ pass' = "probe"
  /\ Earnable /\ credit >= RECOVERY_SUCCESS_THRESHOLD
  /\ spent' = TRUE
  /\ credit' = 0
  /\ UNCHANGED <<clock, protection>>

EndHealthy ==
  /\ pass = "open" /\ pass' = "none"
  /\ Earnable /\ collected = FALLBACK_ITEMS_PER_RUN
  /\ credit' = IF credit < RECOVERY_SUCCESS_THRESHOLD THEN credit + 1 ELSE credit
  /\ UNCHANGED <<clock, protection, spent>>

EndOtherwise ==
  /\ pass = "open" /\ pass' = "none"
  /\ \/ UNCHANGED <<protection, spent>>
     \/ Raise(BOOLEAN) /\ UNCHANGED spent
     \/ Expire
  /\ credit' = 0
  /\ UNCHANGED clock

EndProbe ==
  /\ pass = "probe" /\ pass' = "none"
  /\ \/ collected = MAX_ITEMS_PER_RUN /\ Lift /\ spent' = FALSE
     \/ Raise(BOOLEAN) /\ spent' = TRUE
  /\ credit' = 0
  /\ UNCHANGED clock

(* Any other pass or edit in between voids the credit. *)
Void == credit' = 0 /\ UNCHANGED <<clock, protection, spent, pass>>

Reset == Lift /\ credit' = 0 /\ UNCHANGED <<clock, spent, pass>>

Tick == clock' = clock + 1 /\ UNCHANGED <<protection, credit, spent, pass>>

Next ==
  \/ Begin \/ TakeOver \/ Probe \/ EndHealthy \/ EndOtherwise \/ EndProbe
  \/ Void \/ Reset \/ Tick

Spec == Init /\ [][Next]_<<clock, protection, credit, spent, pass>>
=============================================================================
