------------------------- MODULE MarketWorkerProofs -------------------------
(***************************************************************************)
(* The Market collection worker is safe for every number of worker slots   *)
(* and of passes at a time, every lease, fallback and cooldown length and  *)
(* every pair of batch sizes.                                              *)
(*                                                                         *)
(* The argument.  A pass that claims finds no live lease, so it closes     *)
(* every other running row: at most one row is running (AtMostOneRunning). *)
(* Every write of a pass goes through _check_lease and so is made by that   *)
(* one pass, which gives the facts that hold until it finishes: no rate     *)
(* cooldown is in force (CoolInv), a scheduled pass has no stopped session  *)
(* to start from (StopInv), no price is newer than the one it is about to   *)
(* store (PriceInv).  They are invariant because only a Finish writes the   *)
(* cooldown and the session status, and a Finish leaves no running pass.    *)
(* The recovery policy is followed through the config row: the credit never *)
(* exceeds the real streak (CreditInv), because whatever else writes the    *)
(* row moves updated_at_ms past the credit's stamp, and a probe already     *)
(* made is remembered for as long as the fallback lasts (ProbeInv).  From   *)
(* the same facts every step is a step of BatchProtection (ProtectionKept). *)
(***************************************************************************)
EXTENDS MarketWorker, TLAPS

(* A plan is never overrun, and it is fixed before the first item is tried. *)
Unplanned == {"idle", "claiming", "claimed", "prepared", "planned"}
Within(place, j) ==
  /\ j.success + j.failure <= j.expected
  /\ place \in {"beating", "asking", "saving"} => j.success + j.failure < j.expected
  /\ place \in Unplanned => j.success = 0 /\ j.failure = 0
PlanInv == \A p \in Pass : Within(pc[p], job[p])

(* A slot claims only after its last row was closed. *)
ClaimInv == \A p \in Running : pc[p] # "claiming"

ReadInPast == \A p \in Pass : read[p] <= now

(* What the one running pass may rely on until it finishes. *)
PriceInv ==
  /\ latest <= now
  /\ \A p \in Running : pc[p] = "saving" => latest <= read[p]

CoolInv == \A p \in Running : config.cooldown <= now

StopInv == \A p \in Running : row[p].trigger = "scheduled" => config.status \notin Stopped

(* The histories agree with what the config row remembers. *)
ProbeInv == probed => config.attempted
CreditInv == RecoveryCredit(config) <= streak /\ config.creditAt <= config.updated

IInv == TypeOK /\ PlanInv /\ ReadInPast /\ ClaimInv /\ AtMostOneRunning /\ PriceInv /\ CoolInv
          /\ StopInv /\ ReducedWhileProtected /\ ProbeInv /\ CreditInv

-----------------------------------------------------------------------------
(* What each policy helper makes of a config row. *)
Kept(c, d) == d.cooldown = c.cooldown /\ d.status = c.status /\ d.updated = c.updated

LEMMA ProtectConfig ==
  ASSUME NEW c \in ConfigRow, NEW t \in Nat, NEW e
  PROVE  LET d == Protect(c, t, e) IN
         /\ d \in ConfigRow /\ Kept(c, d)
         /\ d.attempted = c.attempted /\ d.credit = c.credit /\ d.creditAt = c.creditAt
<1>1. Reason(e) \in Recoverable \cup {"", "other"}
  BY DEF Reason
<1>2. t + FALLBACK_DURATION_MS \in Nat
  BY MarketAssumption
<1> QED
  BY <1>1, <1>2 DEF Protect, ConfigRow, Kept

LEMMA ResetConfig ==
  ASSUME NEW c \in ConfigRow
  PROVE  LET d == ResetRecovery(c) IN
         /\ d \in ConfigRow /\ Kept(c, d)
         /\ d.attempted = c.attempted /\ d.until = c.until
         /\ d.credit = 0 /\ d.creditAt = 0
BY DEF ResetRecovery, ConfigRow, Kept

LEMMA ClearConfig ==
  ASSUME NEW c \in ConfigRow
  PROVE  LET d == ClearFallback(c) IN
         /\ d \in ConfigRow /\ Kept(c, d)
         /\ d.until = 0 /\ d.credit = 0 /\ d.creditAt = 0
<1>1. ResetRecovery(c) \in ConfigRow /\ Kept(c, ResetRecovery(c))
      /\ ResetRecovery(c).credit = 0 /\ ResetRecovery(c).creditAt = 0
  BY ResetConfig
<1> QED
  BY <1>1 DEF ClearFallback, ConfigRow, Kept

LEMMA CapacityConfig ==
  ASSUME NEW c \in ConfigRow, NEW n \in Nat
  PROVE  LET d == [c EXCEPT !.capacity = n] IN
         /\ d \in ConfigRow /\ Kept(c, d)
         /\ d.attempted = c.attempted /\ d.until = c.until
         /\ d.credit = c.credit /\ d.creditAt = c.creditAt
BY DEF ConfigRow, Kept

LEMMA ClaimedConfig ==
  ASSUME NEW c \in ConfigRow, NEW t \in Nat, NEW dead
  PROVE  LET d == Recovered(c, t, dead) IN
         /\ d \in ConfigRow
         /\ d.cooldown = c.cooldown /\ d.status = c.status /\ d.updated = c.updated
         /\ d.attempted = c.attempted \/ d.until = 0
         /\ d = c \/ (d.credit = 0 /\ d.creditAt = 0)
<1>1. CASE dead # {}
  <2> DEFINE a == Protect(c, t, "lease_expired")
             b == ResetRecovery(a)
  <2>1. a \in ConfigRow /\ Kept(c, a) /\ a.attempted = c.attempted
    BY ProtectConfig
  <2>2. b \in ConfigRow /\ Kept(a, b) /\ b.attempted = a.attempted
        /\ b.credit = 0 /\ b.creditAt = 0
    BY <2>1, ResetConfig
  <2>3. Recovered(c, t, dead) = [b EXCEPT !.capacity = 0]
    BY <1>1 DEF Recovered
  <2> HIDE DEF a, b
  <2>4. QED
    BY <2>1, <2>2, <2>3, CapacityConfig DEF Kept
<1>2. CASE dead = {} /\ c.until # 0 /\ c.until <= t
  <2> DEFINE b == ClearFallback(c)
  <2>1. b \in ConfigRow /\ Kept(c, b) /\ b.until = 0 /\ b.credit = 0 /\ b.creditAt = 0
    BY ClearConfig
  <2>2. Recovered(c, t, dead) = [b EXCEPT !.capacity = 0]
    BY <1>2 DEF Recovered
  <2> HIDE DEF b
  <2>3. QED
    BY <2>1, <2>2, CapacityConfig DEF Kept
<1>3. CASE dead = {} /\ ~(c.until # 0 /\ c.until <= t)
  BY <1>3 DEF Recovered
<1> QED
  BY <1>1, <1>2, <1>3

LEMMA RatedConfig ==
  ASSUME NEW c \in ConfigRow, NEW j \in RunObject, NEW t \in Nat, NEW retry \in Nat
  PROVE  LET d == AfterCapacity(AfterRate(c, j, t, retry), j) IN
         /\ d \in ConfigRow
         /\ d.updated = c.updated /\ d.attempted = c.attempted /\ d.until = c.until
         /\ d.credit = c.credit /\ d.creditAt = c.creditAt
<1> DEFINE r == AfterRate(c, j, t, retry)
<1>1. /\ r \in ConfigRow
      /\ r.updated = c.updated /\ r.attempted = c.attempted /\ r.until = c.until
      /\ r.credit = c.credit /\ r.creditAt = c.creditAt
  <2>1. Smaller(c.rateFailures + 1, 3) \in Nat
    <3>1. c.rateFailures \in Nat
      BY DEF ConfigRow
    <3>2. QED
      BY <3>1 DEF Smaller
  <2>2. RateCooldown(c.rateFailures + 1) \in Nat
    BY MarketAssumption DEF RateCooldown
  <2>3. Later(t + RateCooldown(c.rateFailures + 1), retry) \in Nat
    BY <2>2 DEF Later
  <2>4. QED
    BY <2>1, <2>3 DEF AfterRate, ConfigRow
<1> DEFINE n == IF j.error \in CapacityErrors
                THEN Smaller(r.capacity + 1, CAPACITY_FAILURE_THRESHOLD) ELSE 0
<1> HIDE DEF r
<1>2. n \in Nat
  <2>1. r.capacity \in Nat /\ CAPACITY_FAILURE_THRESHOLD \in Nat
    BY <1>1, MarketAssumption DEF ConfigRow
  <2>2. QED
    BY <2>1 DEF Smaller
<1>3. AfterCapacity(r, j) = [r EXCEPT !.capacity = n]
  BY DEF AfterCapacity
<1> HIDE DEF n
<1>4. AfterCapacity(r, j) \in ConfigRow
      /\ AfterCapacity(r, j).updated = c.updated
      /\ AfterCapacity(r, j).attempted = c.attempted
      /\ AfterCapacity(r, j).until = c.until
      /\ AfterCapacity(r, j).credit = c.credit
      /\ AfterCapacity(r, j).creditAt = c.creditAt
  BY <1>1, <1>2, <1>3, CapacityConfig DEF Kept
<1> QED
  BY <1>4 DEF r

LEMMA FallbackConfig ==
  ASSUME NEW c \in ConfigRow, NEW j \in RunObject, NEW t \in Nat, NEW probe \in BOOLEAN
  PROVE  LET d == AfterFallback(c, j, t, probe) IN
         /\ d \in ConfigRow
         /\ d.updated = c.updated
         /\ d.attempted = c.attempted \/ d.until = 0 \/ d.attempted
         /\ \/ ~probe /\ d.credit = c.credit /\ d.creditAt = c.creditAt
            \/ d.credit = 0 /\ d.creditAt = 0
<1> DEFINE reason == FallbackReason(c, j)
<1>1. CASE probe /\ FullProbe(j)
  BY <1>1, ClearConfig DEF AfterFallback, Kept
<1>2. CASE probe /\ ~FullProbe(j)
  <2> DEFINE e == IF reason # "" THEN reason ELSE IF j.error # "" THEN j.error ELSE "other"
             b == [ResetRecovery(c) EXCEPT !.attempted = TRUE]
  <2>1. b \in ConfigRow /\ Kept(c, b) /\ b.attempted = TRUE
        /\ b.credit = 0 /\ b.creditAt = 0
    <3>1. ResetRecovery(c) \in ConfigRow /\ Kept(c, ResetRecovery(c))
          /\ ResetRecovery(c).credit = 0 /\ ResetRecovery(c).creditAt = 0
      BY ResetConfig
    <3>2. QED
      BY <3>1 DEF ConfigRow, Kept
  <2>2. AfterFallback(c, j, t, probe) = Protect(b, t, e)
    BY <1>2 DEF AfterFallback, FailedProbe
  <2> HIDE DEF b, e
  <2>3. QED
    BY <2>1, <2>2, ProtectConfig DEF Kept
<1>3. CASE ~probe /\ reason # ""
  <2>1. AfterFallback(c, j, t, probe) = Protect(c, t, reason)
    BY <1>3 DEF AfterFallback
  <2> HIDE DEF reason
  <2>2. LET d == Protect(c, t, reason) IN
        /\ d \in ConfigRow /\ d.updated = c.updated /\ d.attempted = c.attempted
        /\ d.credit = c.credit /\ d.creditAt = c.creditAt
    BY ProtectConfig DEF Kept
  <2>3. QED
    BY <1>3, <2>1, <2>2
<1>4. CASE ~probe /\ reason = "" /\ c.until # 0 /\ c.until <= t
  BY <1>4, ClearConfig DEF AfterFallback, Kept
<1>5. CASE ~probe /\ reason = "" /\ ~(c.until # 0 /\ c.until <= t)
  BY <1>5 DEF AfterFallback
<1> QED
  BY <1>1, <1>2, <1>3, <1>4, <1>5

(* Credit grows by at most one, and only through a healthy pass. *)
LEMMA RecoveryConfig ==
  ASSUME NEW c \in ConfigRow, NEW p \in Pass, NEW t \in Nat,
         row[p].probe \in BOOLEAN
  PROVE  LET d == AfterRecovery(c, p, t) IN
         /\ d \in ConfigRow
         /\ d.attempted = c.attempted /\ d.until = c.until
         /\ \/ row[p].probe /\ d = c
            \/ /\ ~row[p].probe /\ Healthy(c, p, t)
               /\ d.credit = Smaller(RecoveryCredit(c) + 1, RECOVERY_SUCCESS_THRESHOLD)
               /\ d.creditAt = t
            \/ ~row[p].probe /\ ~Healthy(c, p, t) /\ d.credit = 0 /\ d.creditAt = 0
<1>1. CASE row[p].probe
  BY <1>1 DEF AfterRecovery
<1>2. CASE ~row[p].probe /\ Healthy(c, p, t)
  <2> DEFINE n == Smaller(RecoveryCredit(c) + 1, RECOVERY_SUCCESS_THRESHOLD)
  <2>1. n \in Nat
    <3>1. c.credit \in Nat /\ RECOVERY_SUCCESS_THRESHOLD \in Nat
      BY MarketAssumption DEF ConfigRow
    <3>2. RecoveryCredit(c) \in Nat
      BY <3>1 DEF RecoveryCredit, Smaller
    <3>3. QED
      BY <3>1, <3>2 DEF Smaller
  <2>2. AfterRecovery(c, p, t) = [c EXCEPT !.credit = n, !.creditAt = t]
    BY <1>2 DEF AfterRecovery
  <2>3. [c EXCEPT !.credit = n, !.creditAt = t].credit = n
    BY DEF ConfigRow
  <2> HIDE DEF n
  <2>4. /\ [c EXCEPT !.credit = n, !.creditAt = t] \in ConfigRow
        /\ [c EXCEPT !.credit = n, !.creditAt = t].creditAt = t
        /\ [c EXCEPT !.credit = n, !.creditAt = t].attempted = c.attempted
        /\ [c EXCEPT !.credit = n, !.creditAt = t].until = c.until
    BY <2>1 DEF ConfigRow
  <2>5. QED
    BY <1>2, <2>2, <2>3, <2>4 DEF n
<1>3. CASE ~row[p].probe /\ ~Healthy(c, p, t)
  BY <1>3, ResetConfig DEF AfterRecovery
<1> QED
  BY <1>1, <1>2, <1>3

(* Which rows a finished pass leaves to the config row. *)
LEMMA FinishedConfig ==
  ASSUME NEW p \in Pass, NEW retry \in Nat, TypeOK,
         NEW t, t = read[p], NEW j, j = job[p],
         NEW protected,
         protected = AfterFallback(AfterCapacity(AfterRate(config, j, t, retry), j), j, t,
                                   row[p].probe),
         NEW c, c = AfterRecovery(protected, p, t)
  PROVE  /\ protected \in ConfigRow /\ c \in ConfigRow
         /\ config.attempted => c.attempted \/ c.until = 0
         /\ RecoveryCredit(protected) <= RecoveryCredit(config)
         /\ \/ c.creditAt = t /\ ~row[p].probe /\ Healthy(protected, p, t)
               /\ c.credit = Smaller(RecoveryCredit(protected) + 1, RECOVERY_SUCCESS_THRESHOLD)
            \/ /\ c.credit = 0 /\ c.creditAt = 0
               /\ row[p].probe \/ ~Healthy(protected, p, t)
<1> DEFINE a == AfterCapacity(AfterRate(config, j, t, retry), j)
<1>1. t \in Nat /\ j \in RunObject /\ row[p].probe \in BOOLEAN /\ config \in ConfigRow
  BY DEF TypeOK, RunRow
<1>2. /\ a \in ConfigRow
      /\ a.updated = config.updated /\ a.attempted = config.attempted
      /\ a.credit = config.credit /\ a.creditAt = config.creditAt
  BY <1>1, RatedConfig
<1> HIDE DEF a
<1>3. /\ protected \in ConfigRow
      /\ protected.updated = a.updated
      /\ protected.attempted = a.attempted \/ protected.until = 0 \/ protected.attempted
      /\ \/ ~row[p].probe /\ protected.credit = a.credit /\ protected.creditAt = a.creditAt
         \/ protected.credit = 0 /\ protected.creditAt = 0
  BY <1>1, <1>2, FallbackConfig DEF a
<1>4. /\ c \in ConfigRow
      /\ c.attempted = protected.attempted /\ c.until = protected.until
      /\ \/ row[p].probe /\ c = protected
         \/ /\ ~row[p].probe /\ Healthy(protected, p, t)
            /\ c.credit = Smaller(RecoveryCredit(protected) + 1, RECOVERY_SUCCESS_THRESHOLD)
            /\ c.creditAt = t
         \/ ~row[p].probe /\ ~Healthy(protected, p, t) /\ c.credit = 0 /\ c.creditAt = 0
  <2>1. protected \in ConfigRow /\ t \in Nat /\ row[p].probe \in BOOLEAN
    BY <1>1, <1>3
  <2> HIDE <1>1, <1>2, <1>3
  <2>2. QED
    BY <2>1, RecoveryConfig
<1>5. RecoveryCredit(protected) <= RecoveryCredit(config)
  <2>1. config.credit \in Nat /\ RECOVERY_SUCCESS_THRESHOLD \in Nat
    BY <1>1, MarketAssumption DEF ConfigRow
  <2>2. RecoveryCredit(config) \in Nat
    BY <2>1 DEF RecoveryCredit, Smaller
  <2>3. CASE protected.credit = config.credit /\ protected.creditAt = config.creditAt
    BY <2>2, <2>3, <1>2, <1>3 DEF RecoveryCredit
  <2>4. CASE protected.credit = 0
    BY <2>1, <2>2, <2>4 DEF RecoveryCredit, Smaller
  <2>5. QED
    BY <2>3, <2>4, <1>2, <1>3
<1> QED
  BY <1>2, <1>3, <1>4, <1>5

-----------------------------------------------------------------------------
(* Every value a step writes has its type. *)
LEMMA NoJobTyped == NoJob \in RunObject
<1>1. 0 \in 0 .. MAX_ITEMS_PER_RUN
  BY MarketAssumption
<1> QED
  BY <1>1 DEF NoJob, RunObject, SessionStatus

LEMMA NoRowTyped == NoRow \in RunRow
BY DEF NoRow, RunRow, Triggers

OutcomeType ==
  [session: SessionStatus, error: Errors \cup {""},
   status: {"", "succeeded", "partial", "failed", "needs_auth", "rate_limited"}]

LEMMA EndedTyped ==
  ASSUME NEW j \in RunObject, NEW o \in OutcomeType
  PROVE  Ended(j, o) \in RunObject
BY DEF Ended, RunObject, OutcomeType

LEMMA FailedTyped ==
  ASSUME NEW j \in RunObject, j.failure + 1 \in 0 .. MAX_ITEMS_PER_RUN,
         NEW error \in Errors
  PROVE  Failed(j, error) \in RunObject
BY DEF Failed, RunObject

LEMMA SomeTyped == \A p \in Pass : Some(p) \in {"partial", "failed"}
BY DEF Some

LEMMA TypeStep == TypeOK /\ PlanInv /\ [Next]_vars => TypeOK'
<1> SUFFICES ASSUME TypeOK, PlanInv, [Next]_vars PROVE TypeOK'
  OBVIOUS
<1> USE DEF TypeOK, Step, ReadClock
<1>1. ASSUME NEW p \in Pass, StartPass(p) \/ BeforeRpc(p) \/ Answer(p)
      PROVE  TypeOK'
  <2>1. pc' \in [Pass -> Places]
    BY <1>1 DEF StartPass, BeforeRpc, Answer, Places
  <2>2. QED
    BY <1>1, <2>1 DEF StartPass, BeforeRpc, Answer
<1>2. ASSUME NEW p \in Pass, Leave(p)
      PROVE  /\ pc' \in [Pass -> Places] /\ read' \in [Pass -> Nat]
             /\ job' \in [Pass -> RunObject]
  BY <1>2, NoJobTyped DEF Leave, Places
<1>3. ASSUME NEW p \in Pass, ClaimRefused(p) \/ LeaseLost(p) \/ Crash(p)
      PROVE  TypeOK'
  BY <1>2, <1>3 DEF ClaimRefused, LeaseLost, Crash
<1>4. ASSUME NEW p \in Pass, Claim(p) PROVE TypeOK'
  <2> DEFINE t == read[p]
             dead == {q \in Running : Expired(q, t)}
             c == Recovered(config, t, dead)
             failed == [q \in Pass |-> IF q \in dead THEN Closed(row[q]) ELSE row[q]]
             claimed == [status |-> "running", expires |-> t + LEASE_MS, probe |-> FALSE,
                         trigger |-> IF queued THEN "manual" ELSE "scheduled"]
  <2>1. t \in Nat /\ t + LEASE_MS \in Nat /\ t + LEASE_MS > 0
    BY MarketAssumption
  <2>2. c \in ConfigRow
    BY <2>1, ClaimedConfig
  <2>3. failed \in [Pass -> RunRow]
        /\ \A q \in Pass : failed[q].status = "running" <=> failed[q].expires > 0
    BY NoRowTyped DEF Closed, NoRow
  <2>4. claimed \in RunRow /\ claimed.status = "running" /\ claimed.expires > 0
    BY <2>1 DEF RunRow, Triggers
  <2>5. /\ config' = c /\ streak' \in Nat /\ probed' \in BOOLEAN
        /\ now' = now /\ latest' = latest
    BY <1>4 DEF Claim
  <2>6. CASE /\ row' = [failed EXCEPT ![p] = claimed]
             /\ queued' = FALSE
             /\ pc' = [pc EXCEPT ![p] = "claimed"]
             /\ UNCHANGED <<read, job>>
    <3> HIDE DEF failed, claimed, c
    <3>1. row' \in [Pass -> RunRow]
          /\ \A q \in Pass : row'[q].status = "running" <=> row'[q].expires > 0
      BY <2>3, <2>4, <2>6
    <3>2. pc' \in [Pass -> Places]
      BY <2>6 DEF Places
    <3>3. QED
      BY <2>2, <2>5, <2>6, <3>1, <3>2
  <2>7. CASE row' = failed /\ Leave(p) /\ UNCHANGED queued
    BY <1>2, <2>2, <2>3, <2>5, <2>7
  <2>8. QED
    BY <1>4, <2>6, <2>7 DEF Claim
<1>5. ASSUME NEW p \in Pass, Prepare(p) PROVE TypeOK'
  <2>1. config' \in ConfigRow
    <3>1. ResetRecovery(config) \in ConfigRow
      BY ResetConfig
    <3>2. [ResetRecovery(config) EXCEPT !.attempted = TRUE] \in ConfigRow
      BY <3>1 DEF ConfigRow
    <3>3. QED
      BY <1>5, <3>1, <3>2 DEF Prepare
  <2>2. IsProbe(p) \in BOOLEAN
    BY DEF IsProbe, RecoveryEligible, InCooldown, InFallback
  <2>3. row' \in [Pass -> RunRow]
        /\ \A q \in Pass : row'[q].status = "running" <=> row'[q].expires > 0
    BY <1>5, <2>2 DEF Prepare, RunRow
  <2>4. /\ MAX_ITEMS_PER_RUN \in 0 .. MAX_ITEMS_PER_RUN
        /\ config.maxItems \in 0 .. MAX_ITEMS_PER_RUN
        /\ EffectiveItems(config, read[p]) \in 0 .. MAX_ITEMS_PER_RUN
    <3>1. config.maxItems \in {FALLBACK_ITEMS_PER_RUN, MAX_ITEMS_PER_RUN}
      BY DEF ConfigRow
    <3>2. QED
      BY <3>1, MarketAssumption DEF EffectiveItems, Smaller
  <2>5. job' \in [Pass -> RunObject]
    <3> DEFINE limit == IF IsProbe(p) THEN MAX_ITEMS_PER_RUN
                        ELSE EffectiveItems(config, read[p])
               o == [job[p] EXCEPT !.limit = limit, !.configured = config.maxItems]
    <3>1. job' = [job EXCEPT ![p] = o]
      BY <1>5 DEF Prepare
    <3>2. limit \in 0 .. MAX_ITEMS_PER_RUN /\ job[p] \in RunObject
      BY <2>4
    <3> HIDE DEF limit
    <3>3. o \in RunObject
      BY <2>4, <3>2 DEF RunObject
    <3> HIDE DEF o
    <3>4. QED
      BY <3>1, <3>3
  <2>6. pc' \in [Pass -> Places]
    BY <1>5 DEF Prepare, Places
  <2>7. QED
    BY <1>5, <2>1, <2>2, <2>3, <2>5, <2>6 DEF Prepare
<1>6. ASSUME NEW p \in Pass, Plan(p) PROVE TypeOK'
  <2>1. pc' \in [Pass -> Places] /\ read' \in [Pass -> Nat]
    BY <1>6 DEF Plan, Places
  <2>2. job[p] \in RunObject /\ config.status \in SessionStatus
    BY DEF ConfigRow
  <2>3. ASSUME NEW available \in 0 .. MAX_ITEMS_PER_RUN
        PROVE  Smaller(job[p].limit, available) \in 0 .. MAX_ITEMS_PER_RUN
    BY <2>2 DEF RunObject, Smaller
  <2>4. job' \in [Pass -> RunObject]
    <3> DEFINE o == Outcome(config.status, "failed", "other")
    <3>1. PICK available \in 0 .. MAX_ITEMS_PER_RUN :
            \/ job' = [job EXCEPT ![p].expected = Smaller(job[p].limit, available)]
            \/ job' = [job EXCEPT ![p] = Ended(@, o)]
      BY <1>6 DEF Plan
    <3>2. CASE job' = [job EXCEPT ![p].expected = Smaller(job[p].limit, available)]
      <4> DEFINE n == Smaller(job[p].limit, available)
      <4>1. n \in 0 .. MAX_ITEMS_PER_RUN
        BY <2>3
      <4> HIDE DEF n
      <4>2. [job[p] EXCEPT !.expected = n] \in RunObject
        BY <2>2, <4>1 DEF RunObject
      <4>3. job' = [job EXCEPT ![p] = [job[p] EXCEPT !.expected = n]]
        BY <3>2 DEF n
      <4>4. QED
        BY <4>2, <4>3
    <3>3. CASE job' = [job EXCEPT ![p] = Ended(@, o)]
      <4>1. o \in OutcomeType
        BY <2>2 DEF OutcomeType, Outcome, Errors
      <4>2. Ended(job[p], o) \in RunObject
        BY <4>1, <2>2, EndedTyped
      <4>3. QED
        BY <3>3, <4>2
    <3>4. QED
      BY <3>1, <3>2, <3>3
  <2>5. QED
    BY <1>6, <2>1, <2>4 DEF Plan
<1>7. ASSUME NEW p \in Pass, Connect(p) PROVE TypeOK'
  <2>1. pc' \in [Pass -> Places]
    BY <1>7 DEF Connect, Places
  <2>2. ASSUME NEW available \in 0 .. MAX_ITEMS_PER_RUN, NEW limit,
               limit = Smaller(job[p].limit, FALLBACK_ITEMS_PER_RUN),
               job' = [job EXCEPT ![p] = [@ EXCEPT !.shared = TRUE, !.limit = limit,
                                                   !.expected = Smaller(limit, available)]]
        PROVE  job' \in [Pass -> RunObject]
    <3>1. job[p].limit \in 0 .. MAX_ITEMS_PER_RUN
      BY DEF RunObject
    <3>2. limit \in 0 .. MAX_ITEMS_PER_RUN
      BY <2>2, <3>1, MarketAssumption DEF Smaller
    <3>3. Smaller(limit, available) \in 0 .. MAX_ITEMS_PER_RUN
      BY <3>2 DEF Smaller
    <3>4. [job[p] EXCEPT !.shared = TRUE, !.limit = limit,
                         !.expected = Smaller(limit, available)] \in RunObject
      <4> DEFINE n == Smaller(limit, available)
      <4>1. n \in 0 .. MAX_ITEMS_PER_RUN /\ job[p] \in RunObject
        BY <3>3
      <4> HIDE DEF n
      <4>2. [job[p] EXCEPT !.shared = TRUE, !.limit = limit, !.expected = n] \in RunObject
        BY <3>2, <4>1 DEF RunObject
      <4>3. QED
        BY <4>2 DEF n
    <3>5. QED
      BY <2>2, <3>4
  <2>3. job' \in [Pass -> RunObject]
    BY <1>7, <2>2 DEF Connect
  <2>4. QED
    BY <1>7, <2>1, <2>3 DEF Connect
<1>8. ASSUME NEW p \in Pass, HoldsLease(p), Renew(p)
      PROVE  /\ row' \in [Pass -> RunRow]
             /\ \A q \in Pass : row'[q].status = "running" <=> row'[q].expires > 0
  <2>1. read[p] + LEASE_MS \in Nat /\ read[p] + LEASE_MS > 0
    BY MarketAssumption
  <2>2. QED
    BY <1>8, <2>1 DEF Renew, HoldsLease, RunRow
<1>9. ASSUME NEW p \in Pass, Heartbeat(p) PROVE TypeOK'
  <2>1. pc' \in [Pass -> Places]
    BY <1>9 DEF Heartbeat, Places
  <2>2. QED
    BY <1>8, <1>9, <2>1 DEF Heartbeat
<1>10. ASSUME NEW p \in Pass, pc[p] = "saving"
       PROVE  /\ job[p].success + 1 \in 0 .. MAX_ITEMS_PER_RUN
              /\ job[p].failure + 1 \in 0 .. MAX_ITEMS_PER_RUN
  <2>1. /\ job[p].success \in 0 .. MAX_ITEMS_PER_RUN
        /\ job[p].failure \in 0 .. MAX_ITEMS_PER_RUN
        /\ job[p].expected \in 0 .. MAX_ITEMS_PER_RUN
    BY DEF RunObject
  <2>2. job[p].success + job[p].failure < job[p].expected
    BY <1>10 DEF PlanInv, Within
  <2>3. QED
    BY <2>1, <2>2, MarketAssumption
<1>11. ASSUME NEW p \in Pass, SaveQuote(p) PROVE TypeOK'
  <2>1. pc' \in [Pass -> Places]
    BY <1>11 DEF SaveQuote, Places
  <2>2. job' \in [Pass -> RunObject]
    <3> DEFINE n == job[p].success + 1
    <3>1. n \in 0 .. MAX_ITEMS_PER_RUN /\ job[p] \in RunObject
      BY <1>10, <1>11 DEF SaveQuote
    <3>2. job' = [job EXCEPT ![p] = [job[p] EXCEPT !.success = n]]
      BY <1>11 DEF SaveQuote
    <3> HIDE DEF n
    <3>3. [job[p] EXCEPT !.success = n] \in RunObject
      BY <3>1 DEF RunObject
    <3>4. QED
      BY <3>2, <3>3
  <2>3. QED
    BY <1>8, <1>11, <2>1, <2>2 DEF SaveQuote
<1>12. ASSUME NEW p \in Pass, RecordFailure(p) PROVE TypeOK'
  <2>1. pc' \in [Pass -> Places] /\ read' \in [Pass -> Nat]
    BY <1>12 DEF RecordFailure, Places
  <2>2. pc[p] = "saving" /\ HoldsLease(p) /\ Renew(p)
        /\ UNCHANGED <<now, config, queued, latest, streak, probed>>
    BY <1>12 DEF RecordFailure
  <2>3. job[p].failure + 1 \in 0 .. MAX_ITEMS_PER_RUN
    BY <1>10, <2>2
  <2>4. job' \in [Pass -> RunObject]
    <3>1. job[p] \in RunObject /\ "other" \in Errors /\ "network_error" \in Errors
      BY DEF Errors, CapacityErrors, Recoverable
    <3>2. CASE job' = [job EXCEPT ![p] = Failed(@, "other")]
      <4>1. Failed(job[p], "other") \in RunObject
        BY <2>3, <3>1, FailedTyped
      <4>2. QED
        BY <3>2, <4>1
    <3>3. ASSUME NEW error \in {"other", "network_error"}, NEW session,
                 session = IF error = "other" /\ Some(p) = "partial" THEN job[p].session
                           ELSE "error",
                 job' = [job EXCEPT ![p] = Ended(Failed(@, error),
                                                 Outcome(session, Some(p), error))]
          PROVE  job' \in [Pass -> RunObject]
      <4>1. Failed(job[p], error) \in RunObject
        BY <2>3, <3>1, FailedTyped
      <4>2. session \in SessionStatus
        BY <3>1, <3>3 DEF RunObject, SessionStatus
      <4>3. Outcome(session, Some(p), error) \in OutcomeType
        BY <3>1, <4>2, SomeTyped DEF Outcome, OutcomeType
      <4>4. Ended(Failed(job[p], error), Outcome(session, Some(p), error)) \in RunObject
        BY <4>1, <4>3, EndedTyped
      <4>5. QED
        BY <3>3, <4>4
    <3>4. QED
      BY <1>12, <3>2, <3>3 DEF RecordFailure
  <2>5. QED
    BY <1>8, <2>1, <2>2, <2>4
<1>13. ASSUME NEW p \in Pass, EndOfList(p) PROVE TypeOK'
  <2>1. pc' \in [Pass -> Places] /\ read' \in [Pass -> Nat]
    BY <1>13 DEF EndOfList, Places
  <2>2. job' \in [Pass -> RunObject]
    <3> DEFINE ended == IF Complete(job[p]) THEN "succeeded" ELSE Some(p)
               session == IF ended = "failed" THEN "error" ELSE job[p].session
               o == Outcome(session, ended, job[p].error)
    <3>1. job' = [job EXCEPT ![p] = Ended(@, o)]
      BY <1>13 DEF EndOfList
    <3>2. ended \in {"succeeded", "partial", "failed"}
      BY SomeTyped
    <3>3. job[p] \in RunObject /\ job[p].error \in Errors \cup {""}
      BY DEF RunObject
    <3> HIDE DEF ended
    <3>4. session \in SessionStatus
      BY <3>3 DEF RunObject, SessionStatus
    <3> HIDE DEF session
    <3>5. o \in OutcomeType
      BY <3>2, <3>3, <3>4 DEF Outcome, OutcomeType
    <3> HIDE DEF o
    <3>6. Ended(job[p], o) \in RunObject
      BY <3>3, <3>5, EndedTyped
    <3>7. QED
      BY <3>1, <3>6
  <2>3. QED
    BY <1>13, <2>1, <2>2 DEF EndOfList
<1>14. ASSUME NEW p \in Pass, Interrupt(p) PROVE TypeOK'
  <2>1. pc' \in [Pass -> Places] /\ read' \in [Pass -> Nat]
    BY <1>14 DEF Interrupt, Places
  <2>2. Outcomes(p) \subseteq OutcomeType
    <3>1. job[p].session \in SessionStatus
      BY DEF RunObject
    <3>2. {"needs_auth", "cooldown", "blocked", "error"} \subseteq SessionStatus
      BY DEF SessionStatus, Stopped
    <3>3. Some(p) \in {"partial", "failed"} /\ "other" \in Errors
      BY SomeTyped DEF Errors
    <3>4. \A error \in Errors : Outcome("error", Some(p), error) \in OutcomeType
      BY <3>2, <3>3 DEF Outcome, OutcomeType
    <3>5. /\ Outcome("needs_auth", "needs_auth", "other") \in OutcomeType
          /\ Outcome("cooldown", "rate_limited", "other") \in OutcomeType
          /\ Outcome("blocked", "failed", "other") \in OutcomeType
          /\ Outcome("blocked", Some(p), "other") \in OutcomeType
          /\ Outcome(IF Some(p) = "failed" THEN "error" ELSE job[p].session, Some(p), "other")
               \in OutcomeType
      BY <3>1, <3>2, <3>3 DEF Outcome, OutcomeType
    <3>6. QED
      BY <3>4, <3>5 DEF Outcomes
  <2>3. job' \in [Pass -> RunObject]
    <3>1. PICK o \in Outcomes(p) : job' = [job EXCEPT ![p] = Ended(@, o)]
      BY <1>14 DEF Interrupt
    <3>2. Ended(job[p], o) \in RunObject
      BY <2>2, EndedTyped
    <3>3. QED
      BY <3>1, <3>2
  <2>4. QED
    BY <1>14, <2>1, <2>3 DEF Interrupt
<1>15. ASSUME NEW p \in Pass, Finish(p) PROVE TypeOK'
  <2>1. PICK retry \in {0, read[p] + 3 * RATE_STEP_MS} :
          LET t == read[p]
              j == job[p]
              protected == AfterFallback(AfterCapacity(AfterRate(config, j, t, retry), j),
                                         j, t, row[p].probe)
              c == AfterRecovery(protected, p, t) IN
          /\ config' = [c EXCEPT !.status = j.session, !.updated = t, !.due = Scheduled(c, j, t)]
          /\ row' = [row EXCEPT ![p] = Closed(@)]
          /\ streak' = IF ~row[p].probe /\ Healthy(protected, p, t)
                       THEN Smaller(streak + 1, RECOVERY_SUCCESS_THRESHOLD) ELSE 0
          /\ probed' = (probed /\ c.until # 0)
    BY <1>15 DEF Finish
  <2> DEFINE protected == AfterFallback(AfterCapacity(AfterRate(config, job[p], read[p], retry),
                                                      job[p]), job[p], read[p], row[p].probe)
             c == AfterRecovery(protected, p, read[p])
  <2>2. retry \in Nat
    BY MarketAssumption
  <2>3. c \in ConfigRow
    BY <2>2, FinishedConfig
  <2>4. /\ config' = [c EXCEPT !.status = job[p].session, !.updated = read[p],
                               !.due = Scheduled(c, job[p], read[p])]
        /\ streak' \in Nat
    <3>1. Smaller(streak + 1, RECOVERY_SUCCESS_THRESHOLD) \in Nat
      BY MarketAssumption DEF Smaller
    <3>2. QED
      BY <2>1, <3>1
  <2>5. probed' \in BOOLEAN /\ row' = [row EXCEPT ![p] = Closed(@)]
    BY <2>1
  <2> HIDE DEF c
  <2>6. config' \in ConfigRow
    <3>1. read[p] + INTERVAL_MS \in Nat /\ c.cooldown \in Nat
      <4>1. c.cooldown \in Nat
        BY <2>3 DEF ConfigRow
      <4>2. read[p] + INTERVAL_MS \in Nat
        BY MarketAssumption
      <4>3. QED
        BY <4>1, <4>2
    <3>2. Scheduled(c, job[p], read[p]) \in Nat
      BY <3>1 DEF Scheduled, Later
    <3>3. job[p].session \in SessionStatus
      BY DEF RunObject
    <3>4. QED
      BY <2>3, <2>4, <3>2, <3>3 DEF ConfigRow
  <2>7. row' \in [Pass -> RunRow]
        /\ \A q \in Pass : row'[q].status = "running" <=> row'[q].expires > 0
    BY <2>5, NoRowTyped DEF Closed, NoRow
  <2>8. Leave(p) /\ UNCHANGED <<now, queued, latest>>
    BY <1>15 DEF Finish
  <2>9. /\ pc' \in [Pass -> Places] /\ read' \in [Pass -> Nat]
        /\ job' \in [Pass -> RunObject]
    BY <1>2, <2>8
  <2>10. now' = now /\ queued' = queued /\ latest' = latest
    BY <2>8
  <2>11. QED
    BY <2>4, <2>5, <2>6, <2>7, <2>9, <2>10
<1>16. CASE EnqueueManual \/ Tick \/ UNCHANGED vars
  <2>1. CASE EnqueueManual \/ UNCHANGED vars
    BY <2>1 DEF EnqueueManual, vars
  <2>2. CASE Tick
    <3>1. now' \in Nat
      BY <2>2 DEF Tick
    <3>2. QED
      BY <2>2, <3>1 DEF Tick
  <2>3. QED
    BY <1>16, <2>1, <2>2
<1>17. ASSUME NEW n \in {FALLBACK_ITEMS_PER_RUN, MAX_ITEMS_PER_RUN}, PatchCapacity(n)
       PROVE  TypeOK'
  <2>1. config' \in ConfigRow
    BY <1>17 DEF PatchCapacity, ConfigRow
  <2>2. QED
    BY <1>17, <2>1 DEF PatchCapacity
<1>18. ASSUME NEW on \in BOOLEAN, PatchSchedule(on) PROVE TypeOK'
  BY <1>18 DEF PatchSchedule, ConfigRow
<1> QED
  BY <1>1, <1>3, <1>4, <1>5, <1>6, <1>7, <1>9, <1>11, <1>12, <1>13, <1>14, <1>15,
     <1>16, <1>17, <1>18
  DEF Next, PassStep

-----------------------------------------------------------------------------
(* Most steps of a pass leave the shared state alone, but for its own lease. *)
Quiet ==
  /\ UNCHANGED <<now, config, streak, probed>>
  /\ \A q \in Pass : /\ row'[q].status = row[q].status
                      /\ row'[q].trigger = row[q].trigger
                      /\ row'[q].probe = row[q].probe

QuietStep(p) ==
  \/ StartPass(p) \/ ClaimRefused(p) \/ Plan(p) \/ Connect(p) \/ BeforeRpc(p)
  \/ Heartbeat(p) \/ Answer(p) \/ SaveQuote(p) \/ RecordFailure(p) \/ EndOfList(p)
  \/ Interrupt(p) \/ LeaseLost(p) \/ Crash(p)

LEMMA QuietSteps == ASSUME TypeOK, NEW p \in Pass, QuietStep(p) PROVE Quiet
<1>1. ASSUME Renew(p)
      PROVE  \A q \in Pass : /\ row'[q].status = row[q].status
                             /\ row'[q].trigger = row[q].trigger
                             /\ row'[q].probe = row[q].probe
  BY <1>1 DEF TypeOK, RunRow, Renew
<1>2. CASE Heartbeat(p) \/ SaveQuote(p) \/ RecordFailure(p)
  BY <1>1, <1>2 DEF Heartbeat, SaveQuote, RecordFailure, Quiet
<1>3. CASE \/ StartPass(p) \/ ClaimRefused(p) \/ Plan(p) \/ Connect(p) \/ BeforeRpc(p)
           \/ Answer(p) \/ EndOfList(p) \/ Interrupt(p) \/ LeaseLost(p) \/ Crash(p)
  <2>1. UNCHANGED <<now, config, row, streak, probed>>
    BY <1>3 DEF StartPass, ClaimRefused, Plan, Connect, BeforeRpc, Answer, EndOfList,
                Interrupt, LeaseLost, Crash
  <2>2. QED
    BY <2>1 DEF Quiet
<1> QED
  BY <1>2, <1>3 DEF QuietStep

(* The clock, the queue and the edits leave the passes alone. *)
OutsideStep ==
  \/ EnqueueManual
  \/ \E n \in {FALLBACK_ITEMS_PER_RUN, MAX_ITEMS_PER_RUN} : PatchCapacity(n)
  \/ \E on \in BOOLEAN : PatchSchedule(on)
  \/ Tick

LEMMA Outside ==
  TypeOK /\ OutsideStep
    => UNCHANGED <<row, pc, read, job, latest>> /\ now' \in Nat /\ now' >= now
<1>1. CASE OutsideStep /\ ~Tick
  <2>1. UNCHANGED <<row, pc, read, job, latest>> /\ now' = now
    BY <1>1 DEF OutsideStep, EnqueueManual, PatchCapacity, PatchSchedule
  <2>2. TypeOK => now \in Nat
    BY DEF TypeOK
  <2>3. QED
    BY <2>1, <2>2
<1>2. CASE Tick
  <2>1. UNCHANGED <<row, pc, read, job, latest>> /\ now' = now + 1
    BY <1>2 DEF Tick
  <2>2. TypeOK => now \in Nat
    BY DEF TypeOK
  <2>3. QED
    BY <2>1, <2>2
<1> QED
  BY <1>1, <1>2

(* What a pass moves of its own. *)
LEMMA OwnSteps ==
  ASSUME TypeOK, NEW p \in Pass, PassStep(p)
  PROVE  /\ \A q \in Pass \ {p} : pc'[q] = pc[q] /\ read'[q] = read[q] /\ job'[q] = job[q]
         /\ read'[p] \in {read[p], now, 0}
         /\ now' = now
<1> USE DEF TypeOK
<1>1. CASE Leave(p) /\ now' = now
  BY <1>1 DEF Leave
<1>2. ASSUME NEW x, pc' = [pc EXCEPT ![p] = x]
      PROVE  \A q \in Pass \ {p} : pc'[q] = pc[q]
  BY <1>2
<1>3. ASSUME NEW j, job' = [job EXCEPT ![p] = j]
      PROVE  \A q \in Pass \ {p} : job'[q] = job[q]
  BY <1>3
<1>4. ASSUME ReadClock(p) \/ UNCHANGED read
      PROVE  /\ \A q \in Pass \ {p} : read'[q] = read[q]
             /\ read'[p] \in {read[p], now, 0}
  BY <1>4 DEF ReadClock
<1>5. CASE StartPass(p) \/ BeforeRpc(p) \/ Heartbeat(p) \/ Answer(p)
  <2>1. /\ \E x : pc' = [pc EXCEPT ![p] = x]
        /\ ReadClock(p) \/ UNCHANGED read
        /\ UNCHANGED <<job, now>>
    BY <1>5 DEF StartPass, BeforeRpc, Heartbeat, Answer, Step
  <2>2. QED
    BY <1>2, <1>4, <2>1
<1>6. CASE Prepare(p) \/ Plan(p) \/ Connect(p) \/ SaveQuote(p) \/ RecordFailure(p)
           \/ EndOfList(p) \/ Interrupt(p)
  <2>1. now' = now /\ \E x : pc' = [pc EXCEPT ![p] = x]
    BY <1>6 DEF Prepare, Plan, Connect, SaveQuote, RecordFailure, EndOfList, Interrupt, Step
  <2>2. ReadClock(p) \/ UNCHANGED read
    BY <1>6 DEF Prepare, Plan, Connect, SaveQuote, RecordFailure, EndOfList, Interrupt
  <2>3. UNCHANGED job \/ \E j : job' = [job EXCEPT ![p] = j]
    <3>1. CASE Prepare(p) \/ SaveQuote(p)
      BY <3>1 DEF Prepare, SaveQuote
    <3>2. CASE Plan(p)
      BY <3>2 DEF Plan
    <3>3. CASE Connect(p)
      BY <3>3 DEF Connect
    <3>4. CASE RecordFailure(p)
      BY <3>4 DEF RecordFailure
    <3>5. CASE EndOfList(p)
      BY <3>5 DEF EndOfList
    <3>6. CASE Interrupt(p)
      BY <3>6 DEF Interrupt
    <3>7. QED
      BY <1>6, <3>1, <3>2, <3>3, <3>4, <3>5, <3>6
  <2>4. QED
    BY <1>2, <1>3, <1>4, <2>1, <2>2, <2>3
<1>7. CASE ClaimRefused(p) \/ Finish(p) \/ LeaseLost(p) \/ Crash(p)
  <2>1. Leave(p) /\ now' = now
    BY <1>7 DEF ClaimRefused, Finish, LeaseLost, Crash
  <2>2. QED
    BY <1>1, <2>1
<1>8. CASE Claim(p)
  <2>1. now' = now /\ \/ Leave(p)
                      \/ pc' = [pc EXCEPT ![p] = "claimed"] /\ UNCHANGED <<read, job>>
    BY <1>8 DEF Claim
  <2>2. QED
    BY <1>1, <1>2, <2>1
<1> QED
  BY <1>5, <1>6, <1>7, <1>8 DEF PassStep

LEMMA ReadStep == TypeOK /\ ReadInPast /\ [Next]_vars => ReadInPast'
<1> SUFFICES ASSUME TypeOK, ReadInPast, [Next]_vars PROVE ReadInPast'
  OBVIOUS
<1>1. ASSUME NEW p \in Pass, PassStep(p) PROVE ReadInPast'
  BY <1>1, OwnSteps DEF ReadInPast, TypeOK
<1>2. CASE OutsideStep
  BY <1>2, Outside DEF ReadInPast, TypeOK
<1>3. CASE UNCHANGED vars
  BY <1>3 DEF vars, ReadInPast
<1> QED
  BY <1>1, <1>2, <1>3 DEF Next, OutsideStep

LEMMA JobFields ==
  ASSUME NEW j \in RunObject
  PROVE  /\ \A o : /\ Ended(j, o).success = j.success /\ Ended(j, o).failure = j.failure
                   /\ Ended(j, o).expected = j.expected /\ Ended(j, o).limit = j.limit
         /\ \A e : /\ Failed(j, e).success = j.success /\ Failed(j, e).failure = j.failure + 1
                   /\ Failed(j, e).expected = j.expected /\ Failed(j, e).limit = j.limit
BY DEF Ended, Failed, RunObject

LEMMA PlanStep == TypeOK /\ PlanInv /\ [Next]_vars => PlanInv'
<1> SUFFICES ASSUME TypeOK, PlanInv, [Next]_vars PROVE PlanInv'
  OBVIOUS
<1>1. ASSUME NEW p \in Pass, PassStep(p), Within(pc'[p], job'[p]) PROVE PlanInv'
  BY <1>1, OwnSteps DEF PlanInv
<1>2. ASSUME NEW p \in Pass, PassStep(p) PROVE Within(pc'[p], job'[p])
  <2> DEFINE j == job[p]
  <2>1. /\ j \in RunObject /\ Within(pc[p], j)
        /\ j.success \in Nat /\ j.failure \in Nat /\ j.expected \in Nat
        /\ j.limit \in Nat
    <3>1. j \in RunObject /\ Within(pc[p], j)
      BY DEF TypeOK, PlanInv
    <3> HIDE DEF j
    <3>2. \A n \in 0 .. MAX_ITEMS_PER_RUN : n \in Nat
      BY MarketAssumption
    <3>3. /\ j.success \in 0 .. MAX_ITEMS_PER_RUN /\ j.failure \in 0 .. MAX_ITEMS_PER_RUN
          /\ j.expected \in 0 .. MAX_ITEMS_PER_RUN /\ j.limit \in 0 .. MAX_ITEMS_PER_RUN
      BY <3>1 DEF RunObject
    <3>4. QED
      BY <3>1, <3>2, <3>3
  <2> HIDE DEF j
  <2>2. CASE Leave(p)
    <3>1. pc'[p] = "idle" /\ job'[p] = NoJob
      BY <2>2 DEF Leave, TypeOK
    <3>2. NoJob.success = 0 /\ NoJob.failure = 0 /\ NoJob.expected = 0
      BY DEF NoJob
    <3>3. QED
      BY <3>1, <3>2 DEF Within
  <2>3. ASSUME NEW x \in Places, pc' = [pc EXCEPT ![p] = x] PROVE pc'[p] = x
    BY <2>3 DEF TypeOK
  <2>4. ASSUME NEW k, job' = [job EXCEPT ![p] = k] PROVE job'[p] = k
    BY <2>4 DEF TypeOK
  <2>5. CASE StartPass(p) \/ BeforeRpc(p) \/ Heartbeat(p) \/ Answer(p)
    <3>1. job'[p] = j
      BY <2>5 DEF StartPass, BeforeRpc, Heartbeat, Answer, j
    <3>2. \/ pc[p] = "idle" /\ pc'[p] = "claiming"
          \/ pc[p] = "collecting" /\ j.success + j.failure < j.expected /\ pc'[p] = "beating"
          \/ pc[p] = "beating" /\ pc'[p] = "asking"
          \/ pc[p] = "asking" /\ pc'[p] \in {"collecting", "saving"}
      BY <2>3, <2>5 DEF StartPass, BeforeRpc, Heartbeat, Answer, Step, Attempted, Places, j
    <3>3. QED
      BY <2>1, <3>1, <3>2 DEF Within, Unplanned
  <2>6. CASE Claim(p) /\ ~Leave(p)
    <3>1. pc[p] = "claiming" /\ pc'[p] = "claimed" /\ job'[p] = j
      BY <2>3, <2>6 DEF Claim, Places, j
    <3>2. QED
      BY <2>1, <3>1 DEF Within, Unplanned
  <2>7. CASE Prepare(p)
    <3>1. pc[p] = "claimed" /\ pc'[p] = "prepared"
      BY <2>3, <2>7 DEF Prepare, Step, Places
    <3>2. job'[p].success = j.success /\ job'[p].failure = j.failure
          /\ job'[p].expected = j.expected
      <4>1. PICK x, y : job'[p] = [j EXCEPT !.limit = x, !.configured = y]
        BY <2>4, <2>7 DEF Prepare, j
      <4>2. QED
        BY <2>1, <4>1 DEF RunObject
    <3>3. QED
      BY <2>1, <3>1, <3>2 DEF Within, Unplanned
  <2>8. CASE Plan(p)
    <3>1. pc[p] = "prepared"
      BY <2>8 DEF Plan
    <3>2. PICK available \in 0 .. MAX_ITEMS_PER_RUN :
            \/ /\ Smaller(j.limit, available) > 0
               /\ job' = [job EXCEPT ![p].expected = Smaller(j.limit, available)]
               /\ pc' = [pc EXCEPT ![p] = "planned"]
            \/ /\ job' = [job EXCEPT ![p] = Ended(@, Outcome(config.status, "failed", "other"))]
               /\ pc' = [pc EXCEPT ![p] = "finishing"]
      BY <2>8 DEF Plan, j
    <3>3. CASE /\ Smaller(j.limit, available) > 0
               /\ job' = [job EXCEPT ![p].expected = Smaller(j.limit, available)]
               /\ pc' = [pc EXCEPT ![p] = "planned"]
      <4>1. pc'[p] = "planned"
        BY <2>3, <3>3 DEF Places
      <4>2. job'[p] = [j EXCEPT !.expected = Smaller(j.limit, available)]
        BY <3>3 DEF TypeOK, j
      <4>3. job'[p].success = j.success /\ job'[p].failure = j.failure
            /\ job'[p].expected = Smaller(j.limit, available)
        BY <2>1, <4>2 DEF RunObject
      <4>4. Smaller(j.limit, available) \in Nat
        BY <2>1 DEF Smaller
      <4>5. QED
        BY <2>1, <3>1, <4>1, <4>3, <4>4 DEF Within, Unplanned
    <3>4. CASE /\ job' = [job EXCEPT ![p] = Ended(@, Outcome(config.status, "failed", "other"))]
               /\ pc' = [pc EXCEPT ![p] = "finishing"]
      <4>1. pc'[p] = "finishing"
        BY <2>3, <3>4 DEF Places
      <4>2. job'[p] = Ended(j, Outcome(config.status, "failed", "other"))
        BY <2>4, <3>4 DEF j
      <4>3. QED
        BY <2>1, <4>1, <4>2, JobFields DEF Within, Unplanned
    <3>5. QED
      BY <3>2, <3>3, <3>4
  <2>9. CASE Connect(p)
    <3>1. pc[p] = "planned" /\ pc'[p] = "collecting"
      BY <2>3, <2>9 DEF Connect, Step, Places
    <3>2. CASE UNCHANGED job
      BY <2>1, <3>1, <3>2 DEF Within, Unplanned, j
    <3>3. ASSUME NEW available \in 0 .. MAX_ITEMS_PER_RUN, NEW limit,
                 limit = Smaller(j.limit, FALLBACK_ITEMS_PER_RUN),
                 job'[p] = [j EXCEPT !.shared = TRUE, !.limit = limit,
                                     !.expected = Smaller(limit, available)]
          PROVE  Within(pc'[p], job'[p])
      <4>1. limit \in Nat /\ Smaller(limit, available) \in Nat
        <5>1. limit \in Nat
          BY <2>1, <3>3, MarketAssumption DEF Smaller
        <5>2. QED
          BY <5>1 DEF Smaller
      <4>2. job'[p].success = j.success /\ job'[p].failure = j.failure
            /\ job'[p].expected = Smaller(limit, available)
        BY <2>1, <3>3 DEF RunObject
      <4>3. QED
        BY <2>1, <3>1, <4>1, <4>2 DEF Within, Unplanned
    <3>4. QED
      <4>1. CASE job' = job
        BY <3>2, <4>1
      <4>2. CASE job' # job
        <5>1. PICK available \in 0 .. MAX_ITEMS_PER_RUN :
                LET limit == Smaller(j.limit, FALLBACK_ITEMS_PER_RUN) IN
                job' = [job EXCEPT ![p] = [@ EXCEPT !.shared = TRUE, !.limit = limit,
                                                    !.expected = Smaller(limit, available)]]
          BY <2>9, <4>2 DEF Connect, j
        <5>2. QED
          BY <2>4, <3>3, <5>1 DEF j
      <4>3. QED
        BY <4>1, <4>2
  <2>10. CASE SaveQuote(p)
    <3>1. pc[p] = "saving" /\ pc'[p] = "collecting"
      BY <2>3, <2>10 DEF SaveQuote, Step, Places
    <3>2. job'[p] = [j EXCEPT !.success = j.success + 1]
      BY <2>10 DEF SaveQuote, TypeOK, j
    <3>3. job'[p].success = j.success + 1 /\ job'[p].failure = j.failure
          /\ job'[p].expected = j.expected
      BY <2>1, <3>2 DEF RunObject
    <3>4. QED
      BY <2>1, <3>1, <3>3 DEF Within, Unplanned
  <2>11. CASE RecordFailure(p)
    <3>1. pc[p] = "saving" /\ pc'[p] \in {"collecting", "finishing"}
      BY <2>3, <2>11 DEF RecordFailure, Places
    <3>2. \E e, o : job'[p] = Failed(j, e) \/ job'[p] = Ended(Failed(j, e), o)
      BY <2>4, <2>11 DEF RecordFailure, j
    <3>3. \A e, o : /\ Failed(j, e).success = j.success
                   /\ Failed(j, e).failure = j.failure + 1
                   /\ Failed(j, e).expected = j.expected
                   /\ Ended(Failed(j, e), o).success = j.success
                   /\ Ended(Failed(j, e), o).failure = j.failure + 1
                   /\ Ended(Failed(j, e), o).expected = j.expected
      BY <2>1 DEF Failed, Ended, RunObject
    <3>4. job'[p].success = j.success /\ job'[p].failure = j.failure + 1
          /\ job'[p].expected = j.expected
      BY <3>2, <3>3
    <3>5. QED
      BY <2>1, <3>1, <3>4 DEF Within, Unplanned
  <2>12. CASE EndOfList(p) \/ Interrupt(p)
    <3>1. pc'[p] = "finishing"
      BY <2>3, <2>12 DEF EndOfList, Interrupt, Step, Places
    <3>2. \E o : job'[p] = Ended(j, o)
      <4>1. CASE EndOfList(p)
        BY <2>4, <4>1 DEF EndOfList, j
      <4>2. CASE Interrupt(p)
        BY <2>4, <4>2 DEF Interrupt, j
      <4>3. QED
        BY <2>12, <4>1, <4>2
    <3>3. QED
      BY <2>1, <3>1, <3>2, JobFields DEF Within, Unplanned
  <2>13. CASE ClaimRefused(p) \/ Finish(p) \/ LeaseLost(p) \/ Crash(p)
    BY <2>2, <2>13 DEF ClaimRefused, Finish, LeaseLost, Crash
  <2>14. QED
    BY <1>2, <2>2, <2>5, <2>6, <2>7, <2>8, <2>9, <2>10, <2>11, <2>12, <2>13 DEF PassStep
<1>3. CASE OutsideStep \/ UNCHANGED vars
  BY <1>3, Outside DEF vars, PlanInv
<1> QED
  BY <1>1, <1>2, <1>3 DEF Next, OutsideStep

-----------------------------------------------------------------------------
(* What the steps that touch the shared state do to the running passes. *)
LEMMA ClaimFacts ==
  ASSUME TypeOK, ReadInPast, NEW p \in Pass, Claim(p)
  PROVE  /\ Running' \subseteq {p}
         /\ config' \in ConfigRow
         /\ config'.cooldown = config.cooldown /\ config'.status = config.status
         /\ config'.updated = config.updated
         /\ p \in Running' => /\ pc'[p] = "claimed"
                              /\ config'.cooldown <= now
                              /\ row'[p].trigger = "scheduled" => config'.status \notin Stopped
         /\ probed' = (probed /\ config'.until # 0)
         /\ config.attempted => config'.attempted \/ config'.until = 0
         /\ \/ config' = config /\ streak' = streak
            \/ config'.credit = 0 /\ config'.creditAt = 0 /\ streak' = 0
<1> DEFINE t == read[p]
           dead == {q \in Running : Expired(q, t)}
           c == Recovered(config, t, dead)
           failed == [q \in Pass |-> IF q \in dead THEN Closed(row[q]) ELSE row[q]]
           claimed == [status |-> "running", expires |-> t + LEASE_MS, probe |-> FALSE,
                       trigger |-> IF queued THEN "manual" ELSE "scheduled"]
<1>1. t \in Nat /\ t <= now /\ now \in Nat /\ config \in ConfigRow
  BY DEF TypeOK, ReadInPast
<1>2. /\ c \in ConfigRow
      /\ c.cooldown = config.cooldown /\ c.status = config.status
      /\ c.updated = config.updated
      /\ c.attempted = config.attempted \/ c.until = 0
      /\ c = config \/ (c.credit = 0 /\ c.creditAt = 0)
  BY <1>1, ClaimedConfig
<1>3. config' = c /\ streak' = (IF c = config THEN streak ELSE 0)
      /\ probed' = (probed /\ c.until # 0)
  BY DEF Claim
<1>4. Running = dead
  <2>1. \A q \in Running : ~LeaseLive(q, t)
    BY DEF Claim
  <2>2. \A q \in Running : row[q].expires \in Nat
    BY DEF TypeOK, RunRow, Running
  <2>3. QED
    BY <1>1, <2>1, <2>2 DEF LeaseLive, Expired
<1> HIDE DEF c
<1>5. \A q \in Pass : failed[q].status # "running"
  <2>1. \A q \in Pass : q \in dead \/ row[q].status # "running"
    BY <1>4 DEF Running
  <2>2. QED
    BY <2>1 DEF Closed, NoRow
<1>6. CASE /\ Work(c, t)
           /\ row' = [failed EXCEPT ![p] = claimed]
           /\ pc' = [pc EXCEPT ![p] = "claimed"]
  <2>1. Running' \subseteq {p}
    BY <1>5, <1>6 DEF Running
  <2>2. row'[p] = claimed /\ pc'[p] = "claimed"
    BY <1>6 DEF TypeOK
  <2>3. c.cooldown <= now
    <3>1. c.cooldown \in Nat /\ ~(c.cooldown > t)
      BY <1>2, <1>6 DEF ConfigRow, Work, InCooldown
    <3>2. QED
      BY <1>1, <3>1
  <2>4. row'[p].trigger = "scheduled" => c.status \notin Stopped
    BY <1>6, <2>2 DEF Work, Due
  <2>5. QED
    BY <1>2, <1>3, <2>1, <2>2, <2>3, <2>4
<1>7. CASE row' = failed
  <2>1. Running' = {}
    BY <1>5, <1>7 DEF Running
  <2>2. QED
    BY <1>2, <1>3, <2>1
<1>8. QED
  BY <1>6, <1>7 DEF Claim, c

MarksRow(p) ==
  /\ \A q \in Pass : row'[q].status = row[q].status /\ row'[q].trigger = row[q].trigger
  /\ \A q \in Pass \ {p} : row'[q].probe = row[q].probe

LEMMA PrepareFacts ==
  ASSUME TypeOK, NEW p \in Pass, Prepare(p)
  PROVE  /\ p \in Running
         /\ now' = now /\ read' = read /\ latest' = latest /\ streak' = streak
         /\ pc[p] = "claimed" /\ pc'[p] = "prepared"
         /\ MarksRow(p)
         /\ IsProbe(p) => row'[p].probe = TRUE /\ config'.attempted = TRUE
         /\ ~IsProbe(p) => /\ row'[p].probe = FALSE /\ probed' = probed
                           /\ config'.attempted = config.attempted
                           /\ job'[p].limit = EffectiveItems(config, read[p])
         /\ config' \in ConfigRow
         /\ config'.cooldown = config.cooldown /\ config'.status = config.status
         /\ config'.updated = config.updated /\ config'.until = config.until
         /\ config' = config \/ (config'.credit = 0 /\ config'.creditAt = 0)
<1> DEFINE r == ResetRecovery(config)
<1>1. /\ r \in ConfigRow /\ Kept(config, r)
      /\ r.attempted = config.attempted /\ r.until = config.until
      /\ r.credit = 0 /\ r.creditAt = 0
  BY ResetConfig DEF TypeOK
<1>2. config' = IF IsProbe(p) THEN [r EXCEPT !.attempted = TRUE]
                ELSE IF /\ RecoveryCredit(config) > 0
                        /\ RecoveryEligible(config, read[p], config.status)
                        /\ row[p].trigger = "scheduled"
                     THEN config ELSE r
  BY DEF Prepare
<1> HIDE DEF r
<1>3. IsProbe(p) => ~config.attempted
  BY DEF IsProbe, RecoveryEligible
<1>4. config \in ConfigRow /\ config.attempted \in BOOLEAN
  BY DEF TypeOK, ConfigRow
<1>5. /\ config' \in ConfigRow
      /\ config'.cooldown = config.cooldown /\ config'.status = config.status
      /\ config'.updated = config.updated /\ config'.until = config.until
      /\ config' = config \/ (config'.credit = 0 /\ config'.creditAt = 0)
      /\ IsProbe(p) => config'.attempted = TRUE
      /\ ~IsProbe(p) => config'.attempted = config.attempted
  <2>1. LET d == [r EXCEPT !.attempted = TRUE] IN
        /\ d \in ConfigRow /\ Kept(r, d) /\ d.attempted = TRUE /\ d.until = r.until
        /\ d.credit = r.credit /\ d.creditAt = r.creditAt
    BY <1>1 DEF ConfigRow, Kept
  <2>2. CASE IsProbe(p)
    BY <1>1, <1>2, <2>1, <2>2 DEF Kept
  <2>3. CASE ~IsProbe(p) /\ config' = config
    BY <1>4, <2>3
  <2>4. CASE ~IsProbe(p) /\ config' = r
    BY <1>1, <2>4 DEF Kept
  <2>5. QED
    BY <1>2, <2>2, <2>3, <2>4
<1>7. /\ p \in Running
      /\ now' = now /\ read' = read /\ latest' = latest /\ streak' = streak
      /\ pc[p] = "claimed" /\ pc'[p] = "prepared"
      /\ ~IsProbe(p) => probed' = probed
  BY DEF Prepare, HoldsLease, Running, Step, TypeOK
<1>8. /\ MarksRow(p)
      /\ IsProbe(p) => row'[p].probe = TRUE
      /\ ~IsProbe(p) => row'[p].probe = FALSE
  <2>1. row' = [row EXCEPT ![p].probe = IsProbe(p)] /\ IsProbe(p) \in BOOLEAN
    BY DEF Prepare, IsProbe
  <2>2. row \in [Pass -> RunRow]
    BY DEF TypeOK
  <2>3. QED
    BY <2>1, <2>2 DEF RunRow, MarksRow
<1>9. ~IsProbe(p) => job'[p].limit = EffectiveItems(config, read[p])
  <2> DEFINE n == IF IsProbe(p) THEN MAX_ITEMS_PER_RUN ELSE EffectiveItems(config, read[p])
  <2>1. job' = [job EXCEPT ![p] = [@ EXCEPT !.limit = n, !.configured = config.maxItems]]
    BY DEF Prepare
  <2> HIDE DEF n
  <2>2. job'[p].limit = n
    <3>1. job'[p] = [job[p] EXCEPT !.limit = n, !.configured = config.maxItems]
      BY <2>1 DEF TypeOK
    <3>2. job[p] \in RunObject
      BY DEF TypeOK
    <3>3. QED
      BY <3>1, <3>2 DEF RunObject
  <2>3. QED
    BY <2>2 DEF n
<1> QED
  BY <1>5, <1>7, <1>8, <1>9

LEMMA FinishFacts ==
  ASSUME TypeOK, AtMostOneRunning, CreditInv, NEW p \in Pass, Finish(p)
  PROVE  /\ p \in Running /\ Running' = {} /\ row'[p].status = "none"
         /\ UNCHANGED <<now, latest>>
         /\ (probed => config.attempted) => (probed' => config'.attempted)
         /\ CreditInv'
<1>1. PICK retry \in {0, read[p] + 3 * RATE_STEP_MS} :
        LET t == read[p]
            j == job[p]
            protected == AfterFallback(AfterCapacity(AfterRate(config, j, t, retry), j),
                                       j, t, row[p].probe)
            c == AfterRecovery(protected, p, t) IN
        /\ config' = [c EXCEPT !.status = j.session, !.updated = t, !.due = Scheduled(c, j, t)]
        /\ streak' = IF ~row[p].probe /\ Healthy(protected, p, t)
                     THEN Smaller(streak + 1, RECOVERY_SUCCESS_THRESHOLD) ELSE 0
        /\ probed' = (probed /\ c.until # 0)
  BY DEF Finish
<1> DEFINE t == read[p]
           j == job[p]
           protected == AfterFallback(AfterCapacity(AfterRate(config, j, t, retry), j),
                                      j, t, row[p].probe)
           c == AfterRecovery(protected, p, t)
<1>2. retry \in Nat /\ t \in Nat
  BY MarketAssumption DEF TypeOK
<1>3. /\ protected \in ConfigRow /\ c \in ConfigRow
      /\ config.attempted => c.attempted \/ c.until = 0
      /\ RecoveryCredit(protected) <= RecoveryCredit(config)
      /\ \/ c.creditAt = t /\ ~row[p].probe /\ Healthy(protected, p, t)
            /\ c.credit = Smaller(RecoveryCredit(protected) + 1, RECOVERY_SUCCESS_THRESHOLD)
         \/ /\ c.credit = 0 /\ c.creditAt = 0
            /\ row[p].probe \/ ~Healthy(protected, p, t)
  BY <1>2, FinishedConfig
<1>4. /\ config' = [c EXCEPT !.status = j.session, !.updated = t, !.due = Scheduled(c, j, t)]
      /\ streak' = (IF ~row[p].probe /\ Healthy(protected, p, t)
                    THEN Smaller(streak + 1, RECOVERY_SUCCESS_THRESHOLD) ELSE 0)
      /\ probed' = (probed /\ c.until # 0)
  BY <1>1
<1> HIDE DEF protected, c
<1>5. /\ config'.attempted = c.attempted /\ config'.credit = c.credit
      /\ config'.creditAt = c.creditAt /\ config'.updated = t
  BY <1>3, <1>4 DEF ConfigRow
<1>6. /\ p \in Running /\ row' = [row EXCEPT ![p] = Closed(@)]
      /\ UNCHANGED <<now, latest>>
  BY DEF Finish, HoldsLease, Running
<1>7. row'[p].status = "none" /\ Running' = {}
  <2>1. row'[p].status = "none"
    BY <1>6 DEF TypeOK, Closed, NoRow
  <2>2. \A q \in Pass \ {p} : row'[q].status # "running"
    BY <1>6 DEF AtMostOneRunning, Running, TypeOK
  <2>3. QED
    BY <2>1, <2>2 DEF Running
<1>8. (probed => config.attempted) => (probed' => config'.attempted)
  BY <1>3, <1>4, <1>5
<1>9. CreditInv'
  <2>1. /\ RECOVERY_SUCCESS_THRESHOLD \in Nat /\ streak \in Nat
        /\ protected.credit \in Nat /\ config.credit \in Nat
    BY <1>3, MarketAssumption DEF TypeOK, ConfigRow
  <2>2. RecoveryCredit(protected) \in Nat /\ RecoveryCredit(config) \in Nat
        /\ RecoveryCredit(config) <= streak
    BY <2>1 DEF CreditInv, RecoveryCredit, Smaller
  <2>3. CASE c.creditAt = t /\ ~row[p].probe /\ Healthy(protected, p, t)
             /\ c.credit = Smaller(RecoveryCredit(protected) + 1, RECOVERY_SUCCESS_THRESHOLD)
    <3>1. streak' = Smaller(streak + 1, RECOVERY_SUCCESS_THRESHOLD)
      BY <1>4, <2>3
    <3>2. RecoveryCredit(config') <= streak'
      BY <1>2, <1>3, <1>5, <2>1, <2>2, <2>3, <3>1 DEF RecoveryCredit, Smaller
    <3>3. config'.creditAt <= config'.updated
      BY <1>2, <1>5, <2>3
    <3>4. QED
      BY <3>2, <3>3 DEF CreditInv, RecoveryCredit
  <2>4. CASE /\ c.credit = 0 /\ c.creditAt = 0
             /\ row[p].probe \/ ~Healthy(protected, p, t)
    <3>1. streak' = 0
      BY <1>4, <2>4
    <3>2. RecoveryCredit(config') = 0
      BY <1>5, <2>1, <2>4 DEF RecoveryCredit, Smaller
    <3>3. config'.creditAt <= config'.updated
      BY <1>2, <1>5, <2>4
    <3>4. QED
      BY <3>1, <3>2, <3>3 DEF CreditInv, RecoveryCredit
  <2>5. QED
    BY <1>3, <2>3, <2>4
<1> QED
  BY <1>6, <1>7, <1>8, <1>9

EditsRow ==
  /\ config'.cooldown = config.cooldown /\ config'.status = config.status
  /\ config'.credit = config.credit /\ config'.creditAt = config.creditAt
  /\ config'.attempted = config.attempted
  /\ config'.updated = now /\ config'.until \in {0, config.until}

(* An edit of the config row erases the credit it does not mention. *)
LEMMA EditFacts ==
  ASSUME TypeOK, CreditInv,
         \/ \E n \in {FALLBACK_ITEMS_PER_RUN, MAX_ITEMS_PER_RUN} : PatchCapacity(n)
         \/ \E on \in BOOLEAN : PatchSchedule(on)
  PROVE  /\ UNCHANGED <<now, row, pc, read, job, latest>>
         /\ config'.cooldown = config.cooldown /\ config'.status = config.status
         /\ config'.until \in {0, config.until}
         /\ (probed => config.attempted) => (probed' => config'.attempted)
         /\ CreditInv'
<1>1. /\ config \in ConfigRow /\ now \in Nat /\ config.updated \in Nat
      /\ config.creditAt \in Nat /\ config.credit \in Nat
  BY DEF TypeOK, ConfigRow
<1>2. /\ now > config.updated /\ streak' = 0
      /\ UNCHANGED <<now, row, pc, read, job, latest>>
  BY DEF PatchCapacity, PatchSchedule
<1>3. EditsRow
  <2>1. ASSUME NEW n \in {FALLBACK_ITEMS_PER_RUN, MAX_ITEMS_PER_RUN}, PatchCapacity(n)
        PROVE  EditsRow
    BY <1>1, <2>1 DEF PatchCapacity, ConfigRow, EditsRow
  <2>2. ASSUME NEW on \in BOOLEAN, PatchSchedule(on)
        PROVE  EditsRow
    BY <1>1, <2>2 DEF PatchSchedule, ConfigRow, EditsRow
  <2>3. QED
    BY <2>1, <2>2
<1>4. probed' = FALSE \/ probed' = probed
  BY DEF PatchCapacity, PatchSchedule
<1>5. CreditInv'
  <2>1. config.creditAt < now
    BY <1>1, <1>2 DEF CreditInv
  <2>2. RecoveryCredit(config') = 0
    BY <1>1, <1>3, <2>1 DEF RecoveryCredit, EditsRow
  <2>3. config'.creditAt <= config'.updated
    BY <1>1, <1>3, <2>1 DEF EditsRow
  <2>4. QED
    BY <1>2, <2>2, <2>3 DEF CreditInv, RecoveryCredit
<1> QED
  BY <1>2, <1>3, <1>4, <1>5 DEF EditsRow

SharedInv == AtMostOneRunning /\ CoolInv /\ StopInv /\ ProbeInv /\ CreditInv

LEMMA SharedStep == TypeOK /\ ReadInPast /\ SharedInv /\ [Next]_vars => SharedInv'
<1> SUFFICES ASSUME TypeOK, ReadInPast, SharedInv, [Next]_vars PROVE SharedInv'
  OBVIOUS
<1> USE DEF SharedInv
<1>1. CASE Quiet
  <2>1. Running' = Running
    BY <1>1 DEF Quiet, Running
  <2>2. AtMostOneRunning' /\ CoolInv'
    BY <1>1, <2>1 DEF Quiet, AtMostOneRunning, CoolInv
  <2>3. StopInv'
    BY <1>1, <2>1 DEF Quiet, StopInv, Running
  <2>4. ProbeInv' /\ CreditInv'
    BY <1>1 DEF Quiet, ProbeInv, CreditInv, RecoveryCredit
  <2>5. QED
    BY <2>2, <2>3, <2>4
<1>2. ASSUME NEW p \in Pass, Claim(p) PROVE SharedInv'
  <2>1. now' = now
    BY <1>2 DEF Claim
  <2>2. AtMostOneRunning' /\ CoolInv' /\ StopInv'
    BY <1>2, <2>1, ClaimFacts DEF AtMostOneRunning, CoolInv, StopInv
  <2>3. ProbeInv'
    BY <1>2, ClaimFacts DEF ProbeInv
  <2>4. CreditInv'
    <3>1. CASE config' = config /\ streak' = streak
      BY <3>1 DEF CreditInv, RecoveryCredit
    <3>2. CASE config'.credit = 0 /\ config'.creditAt = 0 /\ streak' = 0
      <4>1. RecoveryCredit(config') = 0
        BY <3>2, MarketAssumption DEF RecoveryCredit, Smaller
      <4>2. config'.updated \in Nat
        BY <1>2, ClaimFacts DEF ConfigRow
      <4>3. QED
        BY <3>2, <4>1, <4>2 DEF CreditInv, RecoveryCredit
    <3>3. QED
      BY <1>2, <3>1, <3>2, ClaimFacts
  <2>5. QED
    BY <2>2, <2>3, <2>4
<1>3. ASSUME NEW p \in Pass, Prepare(p) PROVE SharedInv'
  <2>1. MarksRow(p) /\ config'.cooldown = config.cooldown /\ config'.status = config.status
        /\ now' = now
    BY <1>3, PrepareFacts
  <2>2. Running' = Running /\ \A q \in Running : row'[q].trigger = row[q].trigger
    BY <2>1 DEF MarksRow, Running
  <2>3. AtMostOneRunning' /\ CoolInv' /\ StopInv'
    BY <2>1, <2>2 DEF AtMostOneRunning, CoolInv, StopInv
  <2>4. ProbeInv'
    BY <1>3, PrepareFacts DEF ProbeInv
  <2>5. CreditInv'
    <3>1. CASE config' = config
      BY <1>3, <3>1, PrepareFacts DEF CreditInv, RecoveryCredit
    <3>2. CASE config'.credit = 0 /\ config'.creditAt = 0
      <4>1. RecoveryCredit(config') = 0
        BY <3>2, MarketAssumption DEF RecoveryCredit, Smaller
      <4>2. config'.updated \in Nat /\ streak' \in Nat
        BY <1>3, PrepareFacts DEF ConfigRow, TypeOK
      <4>3. QED
        BY <3>2, <4>1, <4>2 DEF CreditInv, RecoveryCredit
    <3>3. QED
      BY <1>3, <3>1, <3>2, PrepareFacts
  <2>6. QED
    BY <2>3, <2>4, <2>5
<1>4. ASSUME NEW p \in Pass, Finish(p) PROVE SharedInv'
  <2>1. Running' = {} /\ CreditInv' /\ (ProbeInv => ProbeInv')
    BY <1>4, FinishFacts DEF ProbeInv
  <2>2. QED
    BY <2>1 DEF AtMostOneRunning, CoolInv, StopInv
<1>5. CASE \/ \E n \in {FALLBACK_ITEMS_PER_RUN, MAX_ITEMS_PER_RUN} : PatchCapacity(n)
           \/ \E on \in BOOLEAN : PatchSchedule(on)
  <2>1. Running' = Running
    BY <1>5, EditFacts DEF Running
  <2>2. AtMostOneRunning' /\ CoolInv' /\ StopInv'
    BY <1>5, <2>1, EditFacts DEF AtMostOneRunning, CoolInv, StopInv
  <2>3. ProbeInv' /\ CreditInv'
    BY <1>5, EditFacts DEF ProbeInv
  <2>4. QED
    BY <2>2, <2>3
<1>6. CASE Tick
  <2>1. now \in Nat /\ now' = now + 1 /\ config' = config /\ row' = row
        /\ streak' = streak /\ probed' = probed /\ config.cooldown \in Nat
    BY <1>6 DEF Tick, TypeOK, ConfigRow
  <2>2. Running' = Running
    BY <2>1 DEF Running
  <2>3. CoolInv'
    BY <2>1, <2>2 DEF CoolInv
  <2>4. AtMostOneRunning' /\ StopInv' /\ ProbeInv' /\ CreditInv'
    BY <2>1, <2>2 DEF AtMostOneRunning, StopInv, ProbeInv, CreditInv, RecoveryCredit
  <2>5. QED
    BY <2>3, <2>4
<1>7. CASE EnqueueManual \/ UNCHANGED vars
  BY <1>1, <1>7 DEF EnqueueManual, vars, Quiet
<1>8. ASSUME NEW p \in Pass, QuietStep(p) PROVE SharedInv'
  BY <1>1, <1>8, QuietSteps
<1> QED
  BY <1>2, <1>3, <1>4, <1>5, <1>6, <1>7, <1>8 DEF Next, PassStep, QuietStep

-----------------------------------------------------------------------------
(* What a running pass keeps from step to step. *)
LEMMA OthersRun ==
  ASSUME TypeOK, ReadInPast, AtMostOneRunning, CreditInv, NEW p \in Pass, PassStep(p)
  PROVE  Running' \ {p} \subseteq Running
<1>1. CASE QuietStep(p)
  <2>1. Quiet
    BY <1>1, QuietSteps
  <2>2. QED
    BY <2>1 DEF Quiet, Running
<1>2. CASE Claim(p)
  BY <1>2, ClaimFacts
<1>3. CASE Prepare(p)
  <2>1. MarksRow(p)
    BY <1>3, PrepareFacts
  <2>2. QED
    BY <2>1 DEF MarksRow, Running
<1>4. CASE Finish(p)
  BY <1>4, FinishFacts
<1> QED
  BY <1>1, <1>2, <1>3, <1>4 DEF PassStep, QuietStep

LEMMA WherePass ==
  ASSUME TypeOK, NEW p \in Pass, PassStep(p)
  PROVE  /\ pc'[p] = "claiming" => row[p].status = "none" /\ row' = row
         /\ pc'[p] = "saving" => read'[p] = now
         /\ latest' = latest \/ SaveQuote(p)
         /\ SaveQuote(p) => /\ p \in Running /\ pc[p] = "saving" /\ latest' = read[p]
                           /\ pc'[p] = "collecting"
<1>1. ASSUME NEW x \in Places, pc' = [pc EXCEPT ![p] = x] PROVE pc'[p] = x
  BY <1>1 DEF TypeOK
<1>2. CASE StartPass(p)
  <2>1. pc'[p] = "claiming" /\ row[p].status = "none" /\ row' = row /\ latest' = latest
        /\ pc[p] = "idle"
    BY <1>1, <1>2 DEF StartPass, Step, Places
  <2>2. QED
    BY <2>1 DEF SaveQuote, Step
<1>3. CASE Answer(p)
  <2>1. pc[p] = "asking" /\ latest' = latest
    BY <1>3 DEF Answer
  <2>2. pc'[p] = "collecting" \/ (pc'[p] = "saving" /\ ReadClock(p))
    BY <1>1, <1>3 DEF Answer, Places
  <2>3. ReadClock(p) => read'[p] = now
    BY DEF ReadClock, TypeOK
  <2>4. QED
    BY <2>1, <2>2, <2>3 DEF SaveQuote, Step
<1>4. CASE SaveQuote(p)
  BY <1>1, <1>4 DEF SaveQuote, Step, Places, HoldsLease, Running
<1>5. CASE ClaimRefused(p) \/ Finish(p) \/ LeaseLost(p) \/ Crash(p)
  <2>1. Leave(p) /\ latest' = latest
    BY <1>5 DEF ClaimRefused, Finish, LeaseLost, Crash
  <2>2. pc'[p] = "idle"
    BY <2>1 DEF Leave, TypeOK
  <2>3. QED
    BY <1>4, <2>1, <2>2
<1>6. CASE Claim(p)
  <2>1. latest' = latest /\ (Leave(p) \/ pc' = [pc EXCEPT ![p] = "claimed"])
    BY <1>6 DEF Claim
  <2>2. pc'[p] \in {"idle", "claimed"}
    BY <2>1 DEF Leave, TypeOK
  <2>3. QED
    BY <1>4, <2>1, <2>2
<1>7. CASE Prepare(p) \/ Plan(p) \/ Connect(p) \/ BeforeRpc(p) \/ Heartbeat(p)
           \/ RecordFailure(p) \/ EndOfList(p) \/ Interrupt(p)
  <2>1. latest' = latest
    BY <1>7 DEF Prepare, Plan, Connect, BeforeRpc, Heartbeat, RecordFailure, EndOfList, Interrupt
  <2>2. \E x \in {"prepared", "planned", "finishing", "collecting", "beating", "asking"} :
          pc' = [pc EXCEPT ![p] = x]
    BY <1>7 DEF Prepare, Plan, Connect, BeforeRpc, Heartbeat, RecordFailure, EndOfList,
                Interrupt, Step
  <2>3. pc'[p] \in {"prepared", "planned", "finishing", "collecting", "beating", "asking"}
    BY <1>1, <2>2 DEF Places
  <2>4. QED
    BY <1>4, <2>1, <2>3
<1> QED
  BY <1>2, <1>3, <1>4, <1>5, <1>6, <1>7 DEF PassStep

LEMMA ClaimStep ==
  TypeOK /\ ReadInPast /\ AtMostOneRunning /\ CreditInv /\ ClaimInv /\ [Next]_vars => ClaimInv'
<1> SUFFICES ASSUME TypeOK, ReadInPast, AtMostOneRunning, CreditInv, ClaimInv, [Next]_vars
             PROVE  ClaimInv'
  OBVIOUS
<1>1. ASSUME NEW p \in Pass, PassStep(p) PROVE ClaimInv'
  <2>1. p \in Running' => pc'[p] # "claiming"
    BY <1>1, WherePass DEF Running
  <2>2. \A q \in Running' \ {p} : q \in Running /\ pc'[q] = pc[q]
    <3>1. Running' \subseteq Pass
      BY DEF Running
    <3>2. QED
      BY <1>1, <3>1, OthersRun, OwnSteps
  <2>3. QED
    BY <2>1, <2>2 DEF ClaimInv
<1>2. CASE OutsideStep \/ UNCHANGED vars
  BY <1>2, Outside DEF vars, ClaimInv, Running
<1> QED
  BY <1>1, <1>2 DEF Next, OutsideStep

LEMMA PriceStep ==
  /\ TypeOK /\ ReadInPast /\ AtMostOneRunning /\ CreditInv /\ PriceInv /\ [Next]_vars
  => PriceInv'
<1> SUFFICES ASSUME TypeOK, ReadInPast, AtMostOneRunning, CreditInv, PriceInv, [Next]_vars
             PROVE  PriceInv'
  OBVIOUS
<1>1. latest \in Nat /\ now \in Nat /\ \A q \in Pass : read[q] \in Nat /\ read[q] <= now
  BY DEF TypeOK, ReadInPast
<1>2. ASSUME NEW p \in Pass, PassStep(p) PROVE PriceInv'
  <2>1. /\ now' = now /\ \A q \in Running' \ {p} : /\ q \in Running /\ q \in Pass
                                               /\ pc'[q] = pc[q] /\ read'[q] = read[q]
    <3>1. Running' \subseteq Pass
      BY DEF Running
    <3>2. QED
      BY <1>2, <3>1, OthersRun, OwnSteps
  <2>2. CASE latest' = latest
    <3>1. latest' <= now'
      BY <2>1, <2>2 DEF PriceInv
    <3>2. pc'[p] = "saving" => latest' <= read'[p]
      BY <1>2, <2>2, WherePass DEF PriceInv
    <3>3. \A q \in Running' \ {p} : pc'[q] = "saving" => latest' <= read'[q]
      BY <2>1, <2>2 DEF PriceInv
    <3>4. QED
      BY <3>1, <3>2, <3>3 DEF PriceInv
  <2>3. CASE SaveQuote(p)
    <3>1. p \in Running /\ latest' = read[p] /\ pc'[p] = "collecting"
      BY <1>2, <2>3, WherePass
    <3>2. Running' \subseteq {p}
      BY <2>1, <3>1 DEF AtMostOneRunning
    <3>3. QED
      BY <1>1, <2>1, <3>1, <3>2 DEF PriceInv
  <2>4. QED
    BY <1>2, <2>2, <2>3, WherePass
<1>3. CASE OutsideStep
  <2>1. UNCHANGED <<row, pc, read, latest>> /\ now' \in Nat /\ now' >= now
    BY <1>3, Outside
  <2>2. Running' = Running
    BY <2>1 DEF Running
  <2>3. QED
    BY <1>1, <2>1, <2>2 DEF PriceInv
<1>4. CASE UNCHANGED vars
  BY <1>4 DEF vars, PriceInv, Running
<1> QED
  BY <1>2, <1>3, <1>4 DEF Next, OutsideStep

(* A quiet step never enlarges a batch. *)
LEMMA LimitStep ==
  ASSUME TypeOK, NEW p \in Pass, QuietStep(p)
  PROVE  \/ pc'[p] = "idle"
         \/ pc'[p] = "claiming"
         \/ pc[p] \in Places \ {"idle", "claimed"} /\ job'[p].limit <= job[p].limit
<1>1. /\ job[p] \in RunObject /\ job[p].limit \in Nat /\ pc[p] \in Places
      /\ job \in [Pass -> RunObject]
  <2>1. job[p] \in RunObject /\ pc[p] \in Places
    BY DEF TypeOK
  <2>2. job[p].limit \in 0 .. MAX_ITEMS_PER_RUN
    BY <2>1 DEF RunObject
  <2>3. QED
    BY <2>1, <2>2, MarketAssumption DEF TypeOK
<1>2. CASE StartPass(p)
  BY <1>2 DEF StartPass, Step, TypeOK
<1>3. CASE ClaimRefused(p) \/ LeaseLost(p) \/ Crash(p)
  <2>1. Leave(p)
    BY <1>3 DEF ClaimRefused, LeaseLost, Crash
  <2>2. QED
    BY <2>1 DEF Leave, TypeOK
<1>4. CASE BeforeRpc(p) \/ Heartbeat(p) \/ Answer(p)
  <2>1. job' = job /\ pc[p] \in {"collecting", "beating", "asking"}
    BY <1>4 DEF BeforeRpc, Heartbeat, Answer, Step
  <2>2. QED
    BY <1>1, <2>1 DEF Places
<1>5. CASE Plan(p) \/ Connect(p) \/ SaveQuote(p) \/ RecordFailure(p) \/ EndOfList(p)
           \/ Interrupt(p)
  <2>1. pc[p] \in Places \ {"idle", "claimed"}
    <3>1. pc[p] \in {"prepared", "planned", "saving", "collecting", "asking"}
      BY <1>5 DEF Plan, Connect, SaveQuote, RecordFailure, EndOfList, Interrupt, Step
    <3>2. QED
      BY <3>1 DEF Places
  <2>2. job'[p].limit <= job[p].limit
    <3>1. ASSUME NEW o, job' = [job EXCEPT ![p] = Ended(@, o)]
          PROVE  job'[p].limit <= job[p].limit
      <4>1. job'[p] = Ended(job[p], o)
        BY <1>1, <3>1
      <4>2. Ended(job[p], o).limit = job[p].limit
        BY <1>1, JobFields
      <4>3. QED
        BY <1>1, <4>1, <4>2
    <3>2. CASE Plan(p)
      <4>1. ASSUME NEW n, job' = [job EXCEPT ![p].expected = n]
            PROVE  job'[p].limit = job[p].limit
        BY <1>1, <4>1 DEF RunObject
      <4>2. QED
        BY <1>1, <3>1, <3>2, <4>1 DEF Plan
    <3>3. CASE Connect(p)
      <4>1. ASSUME NEW m, NEW n,
                   job' = [job EXCEPT ![p] = [@ EXCEPT !.shared = TRUE, !.limit = m,
                                                       !.expected = n]]
            PROVE  job'[p].limit = m
        <5>1. job'[p] = [job[p] EXCEPT !.shared = TRUE, !.limit = m, !.expected = n]
          BY <1>1, <4>1
        <5>2. QED
          BY <1>1, <5>1 DEF RunObject
      <4>2. Smaller(job[p].limit, FALLBACK_ITEMS_PER_RUN) <= job[p].limit
        BY <1>1, MarketAssumption DEF Smaller
      <4>3. job' = job \/ job'[p].limit = Smaller(job[p].limit, FALLBACK_ITEMS_PER_RUN)
        <5>1. CASE job' # job
          <6>1. PICK available \in 0 .. MAX_ITEMS_PER_RUN :
                  LET limit == Smaller(job[p].limit, FALLBACK_ITEMS_PER_RUN) IN
                  job' = [job EXCEPT ![p] = [@ EXCEPT !.shared = TRUE, !.limit = limit,
                                                      !.expected = Smaller(limit, available)]]
            BY <3>3, <5>1 DEF Connect
          <6>2. QED
            BY <4>1, <6>1
        <5>2. QED
          BY <5>1
      <4>4. QED
        BY <1>1, <4>2, <4>3
    <3>4. CASE SaveQuote(p)
      <4>1. job'[p] = [job[p] EXCEPT !.success = job[p].success + 1]
        BY <1>1, <3>4 DEF SaveQuote
      <4>2. job'[p].limit = job[p].limit
        BY <1>1, <4>1 DEF RunObject
      <4>3. QED
        BY <1>1, <4>2
    <3>5. CASE RecordFailure(p)
      <4>1. \E e, o : job'[p] = Failed(job[p], e) \/ job'[p] = Ended(Failed(job[p], e), o)
        BY <1>1, <3>5 DEF RecordFailure
      <4>2. \A e, o : /\ Failed(job[p], e).limit = job[p].limit
                     /\ Ended(Failed(job[p], e), o).limit = job[p].limit
        BY <1>1 DEF Failed, Ended, RunObject
      <4>3. QED
        BY <1>1, <4>1, <4>2
    <3>6. CASE EndOfList(p)
      BY <3>1, <3>6 DEF EndOfList
    <3>7. CASE Interrupt(p)
      BY <3>1, <3>7 DEF Interrupt
    <3>8. QED
      BY <1>5, <3>2, <3>3, <3>4, <3>5, <3>6, <3>7
  <2>3. QED
    BY <2>1, <2>2
<1> QED
  BY <1>2, <1>3, <1>4, <1>5 DEF QuietStep

Reduced(q) ==
  pc[q] \in Places \ {"idle", "claimed"} /\ InFallback(config, now)
    => job[q].limit <= FALLBACK_ITEMS_PER_RUN \/ row[q].probe

LEMMA ReducedStep ==
  /\ TypeOK /\ ReadInPast /\ AtMostOneRunning /\ CreditInv /\ ClaimInv
  /\ ReducedWhileProtected /\ TypeOK' /\ ClaimInv' /\ [Next]_vars
  => ReducedWhileProtected'
<1> SUFFICES ASSUME TypeOK, ReadInPast, AtMostOneRunning, CreditInv, ClaimInv,
                    ReducedWhileProtected, TypeOK', ClaimInv', [Next]_vars
             PROVE  ReducedWhileProtected'
  OBVIOUS
<1>1. ReducedWhileProtected <=> \A q \in Running : Reduced(q)
  BY DEF ReducedWhileProtected, Reduced
<1>2. ReducedWhileProtected' <=> \A q \in Running' : Reduced(q)'
  BY DEF ReducedWhileProtected, Reduced
<1>3. /\ FALLBACK_ITEMS_PER_RUN \in Nat /\ now \in Nat /\ config.until \in Nat
      /\ config.maxItems \in Nat
      /\ \A q \in Pass : read[q] \in Nat /\ read[q] <= now
      /\ \A q \in Pass : job[q].limit \in Nat /\ job'[q].limit \in Nat
  <2>1. \A n \in 0 .. MAX_ITEMS_PER_RUN : n \in Nat
    BY MarketAssumption
  <2>2. /\ \A q \in Pass : job[q].limit \in 0 .. MAX_ITEMS_PER_RUN
        /\ \A q \in Pass : job'[q].limit \in 0 .. MAX_ITEMS_PER_RUN
    BY DEF TypeOK, RunObject
  <2>3. config.until \in Nat /\ config.maxItems \in {FALLBACK_ITEMS_PER_RUN, MAX_ITEMS_PER_RUN}
    BY DEF TypeOK, ConfigRow
  <2>4. QED
    BY <2>1, <2>2, <2>3, MarketAssumption DEF TypeOK, ReadInPast
<1>4. ASSUME NEW p \in Pass, QuietStep(p), NEW q \in Running' PROVE Reduced(q)'
  <2>1. Quiet /\ PassStep(p)
    BY <1>4, QuietSteps DEF QuietStep, PassStep
  <2>2. q \in Running /\ row'[q].probe = row[q].probe /\ now' = now /\ config' = config
    BY <1>4, <2>1 DEF Quiet, Running
  <2>3. CASE q # p
    <3>1. pc'[q] = pc[q] /\ job'[q] = job[q]
      BY <1>4, <2>1, <2>3, OwnSteps DEF Running
    <3>2. QED
      BY <1>1, <2>2, <3>1 DEF Reduced
  <2>4. CASE q = p
    <3>1. pc'[p] # "claiming"
      BY <1>4, <2>4 DEF ClaimInv
    <3>2. CASE pc'[p] = "idle"
      BY <2>4, <3>2 DEF Reduced
    <3>3. CASE pc[p] \in Places \ {"idle", "claimed"} /\ job'[p].limit <= job[p].limit
      <4>1. InFallback(config', now') => InFallback(config, now)
        BY <2>2 DEF InFallback
      <4>2. InFallback(config, now) => job[p].limit <= FALLBACK_ITEMS_PER_RUN \/ row[p].probe
        BY <1>1, <2>2, <2>4, <3>3 DEF Reduced
      <4>3. job[p].limit <= FALLBACK_ITEMS_PER_RUN => job'[p].limit <= FALLBACK_ITEMS_PER_RUN
        BY <1>3, <3>3
      <4>4. QED
        BY <2>2, <2>4, <4>1, <4>2, <4>3 DEF Reduced, InFallback
    <3>4. QED
      BY <1>4, <3>1, <3>2, <3>3, LimitStep
  <2>5. QED
    BY <2>3, <2>4
<1>5. ASSUME NEW p \in Pass, Claim(p), NEW q \in Running' PROVE Reduced(q)'
  BY <1>5, ClaimFacts DEF Reduced
<1>6. ASSUME NEW p \in Pass, Prepare(p), NEW q \in Running' PROVE Reduced(q)'
  <2>1. q = p
    <3>1. p \in Running /\ PassStep(p)
      BY <1>6, PrepareFacts DEF PassStep
    <3>2. q = p \/ q \in Running
      BY <1>6, <3>1, OthersRun
    <3>3. QED
      BY <3>1, <3>2 DEF AtMostOneRunning
  <2>2. now' = now /\ config'.until = config.until
    BY <1>6, PrepareFacts
  <2>3. CASE IsProbe(p)
    <3>1. row'[p].probe = TRUE
      BY <1>6, <2>3, PrepareFacts
    <3>2. QED
      BY <2>1, <3>1 DEF Reduced
  <2>4. CASE ~IsProbe(p)
    <3>1. job'[p].limit = EffectiveItems(config, read[p])
      BY <1>6, <2>4, PrepareFacts
    <3>2. InFallback(config, now) => job'[p].limit <= FALLBACK_ITEMS_PER_RUN
      BY <1>3, <3>1 DEF InFallback, EffectiveItems, Smaller
    <3>3. QED
      BY <2>1, <2>2, <3>2 DEF Reduced, InFallback
  <2>5. QED
    BY <2>3, <2>4
<1>7. ASSUME NEW p \in Pass, Finish(p), NEW q \in Running' PROVE Reduced(q)'
  BY <1>7, FinishFacts
<1>8. ASSUME \/ \E n \in {FALLBACK_ITEMS_PER_RUN, MAX_ITEMS_PER_RUN} : PatchCapacity(n)
             \/ \E on \in BOOLEAN : PatchSchedule(on),
             NEW q \in Running'
      PROVE  Reduced(q)'
  <2>1. UNCHANGED <<now, row, pc, job>> /\ config'.until \in {0, config.until}
    BY <1>8, EditFacts
  <2>2. q \in Running /\ Reduced(q)
    BY <1>1, <1>8, <2>1 DEF Running
  <2>3. InFallback(config', now') => InFallback(config, now)
    BY <1>3, <2>1 DEF InFallback
  <2>4. QED
    BY <2>1, <2>2, <2>3 DEF Reduced, InFallback
<1>9. ASSUME Tick \/ EnqueueManual \/ UNCHANGED vars, NEW q \in Running' PROVE Reduced(q)'
  <2>1. UNCHANGED <<config, row, pc, job>> /\ (now' = now \/ now' = now + 1)
    BY <1>9 DEF Tick, EnqueueManual, vars
  <2>2. q \in Running /\ Reduced(q)
    BY <1>1, <1>9, <2>1 DEF Running
  <2>3. InFallback(config', now') => InFallback(config, now)
    BY <1>3, <2>1 DEF InFallback
  <2>4. QED
    BY <2>1, <2>2, <2>3 DEF Reduced, InFallback
<1> QED
  <2>1. \A q \in Running' : Reduced(q)'
    BY <1>4, <1>5, <1>6, <1>7, <1>8, <1>9 DEF Next, PassStep, QuietStep
  <2>2. QED
    BY <1>2, <2>1

-----------------------------------------------------------------------------
(* The inductive invariant holds in every reachable state. *)
THEOREM Inductive == Spec => []IInv
<1>1. Init => IInv
  <2> SUFFICES ASSUME Init PROVE IInv
    OBVIOUS
  <2>1. /\ 0 \in 0 .. MAX_ITEMS_PER_RUN /\ now \in Nat
        /\ 1 + INTERVAL_MS \in Nat /\ 1 + FALLBACK_DURATION_MS \in Nat
        /\ CAPACITY_FAILURE_THRESHOLD \in Nat /\ RECOVERY_SUCCESS_THRESHOLD \in Nat
    BY MarketAssumption DEF Init
  <2>2. Fresh \in ConfigRow /\ Fresh.credit = 0 /\ Fresh.creditAt = 0
    BY <2>1, MarketAssumption DEF Fresh, ConfigRow, SessionStatus
  <2>3. Protected \in ConfigRow /\ Protected.credit = 0 /\ Protected.creditAt = 0
    <3> HIDE DEF Fresh
    <3>1. QED
      BY <2>1, <2>2 DEF Protected, ConfigRow, SessionStatus, Recoverable
  <2>4. config \in ConfigRow /\ config.credit = 0 /\ config.creditAt = 0
    BY <2>2, <2>3 DEF Init
  <2>5. TypeOK
    <3>1. row \in [Pass -> RunRow] /\ job \in [Pass -> RunObject]
      BY NoRowTyped, NoJobTyped DEF Init
    <3>2. \A p \in Pass : row[p].status = "running" <=> row[p].expires > 0
      BY DEF Init, NoRow
    <3>3. pc \in [Pass -> Places] /\ read \in [Pass -> Nat]
      BY DEF Init, Places
    <3>4. QED
      BY <2>1, <2>4, <3>1, <3>2, <3>3 DEF Init, TypeOK
  <2>6. Running = {}
    BY DEF Init, NoRow, Running
  <2>7. PlanInv
    <3>1. \A p \in Pass : job[p].success = 0 /\ job[p].failure = 0 /\ job[p].expected = 0
      BY DEF Init, NoJob
    <3>2. \A p \in Pass : pc[p] = "idle"
      BY DEF Init
    <3>3. QED
      BY <3>1, <3>2 DEF PlanInv, Within
  <2>8. ReadInPast /\ latest <= now /\ streak = 0 /\ probed = FALSE
    BY <2>1 DEF Init, ReadInPast
  <2>9. CreditInv
    <3>1. RecoveryCredit(config) = 0
      BY <2>1, <2>4 DEF RecoveryCredit, Smaller
    <3>2. config.updated \in Nat
      BY <2>4 DEF ConfigRow
    <3>3. QED
      BY <2>4, <2>8, <3>1, <3>2 DEF CreditInv
  <2>10. QED
    BY <2>5, <2>6, <2>7, <2>8, <2>9
    DEF IInv, ClaimInv, AtMostOneRunning, PriceInv, CoolInv, StopInv,
        ReducedWhileProtected, ProbeInv
<1>2. IInv /\ [Next]_vars => IInv'
  <2> SUFFICES ASSUME IInv, [Next]_vars PROVE IInv'
    OBVIOUS
  <2>1. TypeOK' /\ PlanInv' /\ ReadInPast'
    BY TypeStep, PlanStep, ReadStep DEF IInv
  <2>2. AtMostOneRunning' /\ CoolInv' /\ StopInv' /\ ProbeInv' /\ CreditInv'
    BY SharedStep DEF IInv, SharedInv
  <2>3. ClaimInv' /\ PriceInv'
    BY ClaimStep, PriceStep DEF IInv
  <2>4. ReducedWhileProtected'
    BY <2>1, <2>3, ReducedStep DEF IInv
  <2>5. QED
    BY <2>1, <2>2, <2>3, <2>4 DEF IInv
<1> QED
  BY <1>1, <1>2, PTL DEF Spec

(* Two collection runs are never recorded as running, however many workers; *)
(* every column, run object and history keeps its type.                     *)
THEOREM OneRun == Spec => []RunsSound
<1>1. IInv => RunsSound
  BY DEF IInv, RunsSound
<1> QED
  BY <1>1, Inductive, PTL

(* Under a fallback the running pass keeps to the reduced batch or probes.   *)
THEOREM Reduction == Spec => []ReducedWhileProtected
<1>1. IInv => ReducedWhileProtected
  BY DEF IInv
<1> QED
  BY <1>1, Inductive, PTL

(* Prices are stored in the order they were observed. *)
THEOREM PriceOrder == Spec => PricesMoveForward
<1>1. IInv /\ [Next]_vars => [latest' >= latest]_vars
  <2> SUFFICES ASSUME IInv, Next PROVE latest' >= latest
    OBVIOUS
  <2>1. TypeOK /\ latest \in Nat
    BY DEF IInv, TypeOK
  <2>2. ASSUME NEW p \in Pass, PassStep(p) PROVE latest' >= latest
    <3>1. CASE latest' = latest
      BY <2>1, <3>1
    <3>2. CASE SaveQuote(p)
      <4>1. p \in Running /\ pc[p] = "saving" /\ latest' = read[p]
        BY <2>1, <2>2, <3>2, WherePass
      <4>2. latest <= read[p] /\ read[p] \in Nat
        BY <2>1, <2>2, <4>1 DEF IInv, PriceInv, TypeOK
      <4>3. QED
        BY <2>1, <4>1, <4>2
    <3>3. QED
      BY <2>1, <2>2, <3>1, <3>2, WherePass
  <2>3. CASE OutsideStep
    BY <2>1, <2>3, Outside
  <2>4. QED
    BY <2>2, <2>3 DEF Next, OutsideStep
<1> QED
  BY <1>1, Inductive, PTL DEF Spec, PricesMoveForward

(* No RPC of any pass is authorised during a rate cooldown. *)
THEOREM CooldownHolds == Spec => NoRpcInCooldown
<1> DEFINE Cool == \A p \in Pass : pc[p] = "beating" /\ pc'[p] = "asking"
                     => ~InCooldown(config, now)
<1>1. IInv /\ [Next]_vars => [Cool]_vars
  <2> SUFFICES ASSUME IInv, Next, NEW p \in Pass, pc[p] = "beating", pc'[p] = "asking"
               PROVE  ~InCooldown(config, now)
    OBVIOUS
  <2>1. TypeOK /\ now \in Nat /\ config.cooldown \in Nat
    BY DEF IInv, TypeOK, ConfigRow
  <2>2. PassStep(p)
    <3>1. ~OutsideStep
      BY <2>1, Outside
    <3>2. ASSUME NEW q \in Pass, PassStep(q) PROVE q = p
      BY <2>1, <3>2, OwnSteps
    <3>3. QED
      BY <3>1, <3>2 DEF Next, OutsideStep
  <2>3. p \in Running
    <3>1. CASE Heartbeat(p)
      BY <3>1 DEF Heartbeat, HoldsLease, Running
    <3>2. CASE LeaseLost(p) \/ Crash(p)
      <4>1. Leave(p)
        BY <3>2 DEF LeaseLost, Crash
      <4>2. pc'[p] = "idle"
        BY <2>1, <4>1 DEF Leave, TypeOK
      <4>3. QED
        BY <4>2
    <3>3. QED
      BY <2>2, <3>1, <3>2 DEF PassStep, StartPass, ClaimRefused, Claim, Prepare, Plan, Connect,
         BeforeRpc, Answer, SaveQuote, RecordFailure, EndOfList, Interrupt, Finish, Step
  <2>4. config.cooldown <= now
    BY <2>3 DEF IInv, CoolInv
  <2>5. QED
    BY <2>1, <2>4 DEF InCooldown
<1> QED
  BY <1>1, Inductive, PTL DEF Spec, NoRpcInCooldown

(* Which steps may change the session status or make a probe. *)
LEMMA StatusKept ==
  ASSUME IInv, Next, config'.status # config.status
  PROVE  \E p \in Pass : Finish(p)
<1>1. TypeOK /\ ReadInPast /\ CreditInv
  BY DEF IInv
<1>2. ASSUME NEW p \in Pass, PassStep(p), ~Finish(p) PROVE config'.status = config.status
  <2>1. CASE QuietStep(p)
    BY <1>1, <2>1, QuietSteps DEF Quiet
  <2>2. CASE Claim(p)
    BY <1>1, <2>2, ClaimFacts
  <2>3. CASE Prepare(p)
    BY <1>1, <2>3, PrepareFacts
  <2>4. QED
    BY <1>2, <2>1, <2>2, <2>3 DEF PassStep, QuietStep
<1>3. ASSUME OutsideStep PROVE config'.status = config.status
  <2>1. CASE EnqueueManual \/ Tick
    BY <2>1 DEF EnqueueManual, Tick
  <2>2. QED
    BY <1>1, <1>3, <2>1, EditFacts DEF OutsideStep
<1> QED
  BY <1>2, <1>3 DEF Next, OutsideStep

LEMMA ProbeKept ==
  ASSUME IInv, Next, NEW p \in Pass, BecomesProbe(p)
  PROVE  Prepare(p) /\ IsProbe(p)
<1>1. TypeOK /\ ReadInPast /\ CreditInv /\ AtMostOneRunning
  BY DEF IInv
<1>2. row[p].probe = FALSE /\ row'[p].probe # FALSE
  BY <1>1 DEF BecomesProbe, TypeOK, RunRow
<1>3. row'[p].probe # row[p].probe
  BY <1>2
<1>4. ASSUME NEW q \in Pass, PassStep(q) PROVE Prepare(q) /\ q = p /\ IsProbe(p)
  <2>1. ~QuietStep(q)
    BY <1>1, <1>3, QuietSteps DEF Quiet
  <2>2. ~Claim(q)
    <3>1. ASSUME Claim(q) PROVE row'[p].probe \in {FALSE, row[p].probe}
      <4> DEFINE dead == {x \in Running : Expired(x, read[q])}
                 failed == [x \in Pass |-> IF x \in dead THEN Closed(row[x]) ELSE row[x]]
                 claimed == [status |-> "running", expires |-> read[q] + LEASE_MS,
                             probe |-> FALSE,
                             trigger |-> IF queued THEN "manual" ELSE "scheduled"]
      <4>1. row' = [failed EXCEPT ![q] = claimed] \/ row' = failed
        BY <3>1 DEF Claim
      <4>2. failed[p].probe \in {FALSE, row[p].probe} /\ claimed.probe = FALSE
        BY DEF Closed, NoRow
      <4> HIDE DEF failed, claimed
      <4>3. DOMAIN failed = Pass
        BY DEF failed
      <4>4. row'[p] = claimed \/ row'[p] = failed[p]
        BY <4>1, <4>3
      <4>5. QED
        BY <4>2, <4>4
    <3>2. QED
      BY <1>2, <3>1
  <2>3. ~Finish(q)
    <3>1. ASSUME Finish(q) PROVE row'[p].probe \in {FALSE, row[p].probe}
      <4>1. row' = [row EXCEPT ![q] = NoRow]
        BY <3>1 DEF Finish, Closed
      <4>2. row'[p] = NoRow \/ row'[p] = row[p]
        BY <1>1, <4>1 DEF TypeOK
      <4>3. NoRow.probe = FALSE
        BY DEF NoRow
      <4>4. row'[p].probe = NoRow.probe \/ row'[p].probe = row[p].probe
        BY <4>2
      <4>5. QED
        BY <4>3, <4>4
    <3>2. QED
      BY <1>2, <3>1
  <2>4. Prepare(q)
    BY <1>4, <2>1, <2>2, <2>3 DEF PassStep, QuietStep
  <2>5. q = p
    BY <1>1, <1>3, <2>4, PrepareFacts DEF MarksRow
  <2>6. IsProbe(p)
    BY <1>1, <1>2, <2>4, <2>5, PrepareFacts
  <2>7. QED
    BY <2>4, <2>5, <2>6
<1>5. ~OutsideStep
  BY <1>1, <1>3, Outside
<1> QED
  BY <1>4, <1>5 DEF Next, OutsideStep

(* Only the end of a manual run lifts a stop. *)
THEOREM StopHolds == Spec => OnlyManualRunLiftsStop
<1> DEFINE Lift == config.status \in Stopped /\ config'.status \notin Stopped
                     => \E p \in Running : row'[p].status = "none" /\ row[p].trigger = "manual"
<1>1. IInv /\ [Next]_vars => [Lift]_vars
  <2> SUFFICES ASSUME IInv, Next, config.status \in Stopped, config'.status \notin Stopped
               PROVE  \E p \in Running : row'[p].status = "none" /\ row[p].trigger = "manual"
    OBVIOUS
  <2>1. PICK p \in Pass : Finish(p)
    BY StatusKept
  <2>2. p \in Running /\ row'[p].status = "none"
    BY <2>1, FinishFacts DEF IInv
  <2>3. row[p].trigger \in {"scheduled", "manual"}
    BY DEF IInv, TypeOK, RunRow, Triggers
  <2>4. row[p].trigger # "scheduled"
    BY <2>2 DEF IInv, StopInv
  <2>5. QED
    BY <2>2, <2>3, <2>4
<1> QED
  BY <1>1, Inductive, PTL DEF Spec, OnlyManualRunLiftsStop

(* The refusal that stops a session leaves no pass on record: the manual run  *)
(* that lifts the stop was claimed after it, and an older one that comes back  *)
(* late cannot lift it (_check_lease in _finish_run).                          *)
StopLeavesNoPass ==
  [][config.status \notin Stopped /\ config'.status \in Stopped => Running' = {}]_vars

(* Nobody who was at work when a session was stopped can lift the stop. *)
THEOREM StopEndsEveryPass == Spec => StopLeavesNoPass
<1> DEFINE Ends == config.status \notin Stopped /\ config'.status \in Stopped
                     => Running' = {}
<1>1. IInv /\ [Next]_vars => [Ends]_vars
  <2> SUFFICES ASSUME IInv, Next, config.status # config'.status PROVE Running' = {}
    OBVIOUS
  <2>1. PICK p \in Pass : Finish(p)
    BY StatusKept
  <2>2. QED
    BY <2>1, FinishFacts DEF IInv
<1>2. QED
  BY <1>1, Inductive, PTL DEF Spec, StopLeavesNoPass

(* A probe follows a full row of complete reduced scheduled passes. *)
THEOREM ProbeEarned == Spec => ProbeIsEarned
<1> DEFINE Earned == \A p \in Pass : BecomesProbe(p) => streak >= RECOVERY_SUCCESS_THRESHOLD
<1>1. IInv /\ [Next]_vars => [Earned]_vars
  <2> SUFFICES ASSUME IInv, Next, NEW p \in Pass, BecomesProbe(p)
               PROVE  streak >= RECOVERY_SUCCESS_THRESHOLD
    OBVIOUS
  <2>1. RecoveryCredit(config) >= RECOVERY_SUCCESS_THRESHOLD
    BY ProbeKept DEF IsProbe
  <2>2. RecoveryCredit(config) <= streak
    BY DEF IInv, CreditInv
  <2>3. RecoveryCredit(config) \in Nat /\ streak \in Nat /\ RECOVERY_SUCCESS_THRESHOLD \in Nat
    <3>1. config.credit \in Nat /\ streak \in Nat
      BY DEF IInv, TypeOK, ConfigRow
    <3>2. QED
      BY <3>1, MarketAssumption DEF RecoveryCredit, Smaller
  <2>4. QED
    BY <2>1, <2>2, <2>3
<1> QED
  BY <1>1, Inductive, PTL DEF Spec, ProbeIsEarned

(* A protected period sees at most one probe. *)
THEOREM OneProbe == Spec => OneProbePerProtection
<1> DEFINE Once == \A p \in Pass : BecomesProbe(p) => ~probed
<1>1. IInv /\ [Next]_vars => [Once]_vars
  <2> SUFFICES ASSUME IInv, Next, NEW p \in Pass, BecomesProbe(p) PROVE ~probed
    OBVIOUS
  <2>1. ~config.attempted
    BY ProbeKept DEF IsProbe, RecoveryEligible
  <2>2. QED
    BY <2>1 DEF IInv, ProbeInv
<1> QED
  BY <1>1, Inductive, PTL DEF Spec, OneProbePerProtection

-----------------------------------------------------------------------------
(* The config row keeps the promise of BatchProtection.                     *)

(* What each helper makes of the protection recorded in a config row. *)
Protects(d, t) == d.until = t + FALLBACK_DURATION_MS
Lifted(d) == d.until = 0 /\ d.reason = "" /\ d.attempted = FALSE /\ d.credit = 0
SameProtection(c, d) ==
  d.until = c.until /\ d.reason = c.reason /\ d.attempted = c.attempted
SameCredit(c, d) == d.credit = c.credit /\ d.creditAt = c.creditAt /\ d.updated = c.updated

LEMMA CreditTyped ==
  ASSUME NEW c \in ConfigRow
  PROVE  /\ RecoveryCredit(c) \in Nat /\ RecoveryCredit(c) <= RECOVERY_SUCCESS_THRESHOLD
         /\ c.credit = 0 => RecoveryCredit(c) = 0
<1>1. c.credit \in Nat /\ RECOVERY_SUCCESS_THRESHOLD \in Nat
  BY MarketAssumption DEF ConfigRow
<1> QED
  BY <1>1 DEF RecoveryCredit, Smaller

LEMMA ClearLifts == ASSUME NEW c \in ConfigRow PROVE Lifted(ClearFallback(c))
<1>1. ResetRecovery(c) \in ConfigRow /\ ResetRecovery(c).credit = 0
  BY ResetConfig
<1> QED
  BY <1>1 DEF ClearFallback, ConfigRow, Lifted

LEMMA RatedProtection ==
  ASSUME NEW c \in ConfigRow, NEW j \in RunObject, NEW t \in Nat, NEW retry \in Nat
  PROVE  LET d == AfterCapacity(AfterRate(c, j, t, retry), j) IN
         /\ d \in ConfigRow /\ SameProtection(c, d) /\ SameCredit(c, d)
         /\ j.error = "" => d.capacity = 0
<1> DEFINE r == AfterRate(c, j, t, retry)
           d == AfterCapacity(r, j)
<1>1. d \in ConfigRow /\ d.updated = c.updated /\ d.attempted = c.attempted
      /\ d.until = c.until /\ d.credit = c.credit /\ d.creditAt = c.creditAt
  BY RatedConfig
<1>2. r.reason = c.reason /\ DOMAIN r = DOMAIN c
  BY DEF AfterRate, ConfigRow
<1>3. d.reason = c.reason
  BY <1>2 DEF AfterCapacity, ConfigRow
<1>4. j.error = "" => d.capacity = 0
  BY <1>2 DEF AfterCapacity, CapacityErrors, Recoverable, ConfigRow
<1> QED
  BY <1>1, <1>3, <1>4 DEF SameProtection, SameCredit

LEMMA FallbackProtection ==
  ASSUME NEW c \in ConfigRow, NEW j \in RunObject, NEW t \in Nat, NEW probe \in BOOLEAN
  PROVE  LET d == AfterFallback(c, j, t, probe) IN
         /\ d \in ConfigRow
         /\ probe => \/ FullProbe(j) /\ Lifted(d)
                     \/ Protects(d, t) /\ d.attempted = TRUE /\ d.credit = 0
         /\ ~probe =>
              \/ SameProtection(c, d) /\ SameCredit(c, d)
              \/ Protects(d, t) /\ d.attempted = c.attempted /\ FallbackReason(c, j) # ""
              \/ c.until # 0 /\ c.until <= t /\ Lifted(d)
<1> DEFINE reason == FallbackReason(c, j)
           d == AfterFallback(c, j, t, probe)
<1>0. d \in ConfigRow
  BY FallbackConfig
<1>1. CASE probe /\ FullProbe(j)
  <2>1. d = ClearFallback(c)
    BY <1>1 DEF AfterFallback
  <2>2. QED
    BY <1>0, <1>1, <2>1, ClearLifts
<1>2. CASE probe /\ ~FullProbe(j)
  <2> DEFINE e == IF reason # "" THEN reason ELSE IF j.error # "" THEN j.error ELSE "other"
             b == [ResetRecovery(c) EXCEPT !.attempted = TRUE]
  <2>1. d = Protect(b, t, e)
    BY <1>2 DEF AfterFallback, FailedProbe
  <2>2. b \in ConfigRow /\ b.attempted = TRUE /\ b.credit = 0
    <3>1. ResetRecovery(c) \in ConfigRow /\ ResetRecovery(c).credit = 0
      BY ResetConfig
    <3>2. QED
      BY <3>1 DEF ConfigRow
  <2> HIDE DEF b, e
  <2>3. d.attempted = TRUE /\ d.credit = 0
    BY <2>1, <2>2, ProtectConfig
  <2>4. Protects(d, t)
    BY <2>1, <2>2 DEF Protect, ConfigRow, Protects
  <2>5. QED
    BY <1>0, <1>2, <2>3, <2>4
<1>3. CASE ~probe /\ reason # ""
  <2>1. d = Protect(c, t, reason)
    BY <1>3 DEF AfterFallback
  <2> HIDE DEF reason
  <2>2. d.attempted = c.attempted /\ Protects(d, t)
    BY <2>1 DEF Protect, ConfigRow, Protects
  <2>3. QED
    BY <1>0, <1>3, <2>2 DEF reason
<1>4. CASE ~probe /\ reason = "" /\ c.until # 0 /\ c.until <= t
  <2>1. d = ClearFallback(c)
    BY <1>4 DEF AfterFallback
  <2>2. QED
    BY <1>0, <1>4, <2>1, ClearLifts
<1>5. CASE ~probe /\ reason = "" /\ ~(c.until # 0 /\ c.until <= t)
  <2>1. d = c
    BY <1>5 DEF AfterFallback
  <2>2. QED
    BY <1>5, <2>1 DEF SameProtection, SameCredit
<1> QED
  BY <1>1, <1>2, <1>3, <1>4, <1>5

(* The way a finished pass leaves the protection: the pass was the probe, or *)
(* it was healthy and adds to the credit, or it voids it.                    *)
LEMMA FinishedProtection ==
  ASSUME TypeOK, NEW p \in Pass, Finish(p)
  PROVE  /\ row[p].probe =>
              /\ RecoveryCredit(config') = 0
              /\ \/ job[p].success = MAX_ITEMS_PER_RUN /\ Lifted(config')
                 \/ Protects(config', read[p]) /\ config'.attempted = TRUE
         /\ ~row[p].probe =>
              \/ /\ job[p].success = FALLBACK_ITEMS_PER_RUN
                 /\ config.until # 0 /\ config.reason \in Recoverable /\ ~config.attempted
                 /\ SameProtection(config, config')
                 /\ RecoveryCredit(config') =
                      IF RecoveryCredit(config) < RECOVERY_SUCCESS_THRESHOLD
                      THEN RecoveryCredit(config) + 1 ELSE RecoveryCredit(config)
              \/ /\ RecoveryCredit(config') = 0
                 /\ \/ SameProtection(config, config')
                    \/ Protects(config', read[p]) /\ config'.attempted = config.attempted
                    \/ config.until # 0 /\ config.until <= read[p] /\ Lifted(config')
<1>1. PICK retry \in {0, read[p] + 3 * RATE_STEP_MS} :
        LET t == read[p]
            j == job[p]
            charged == AfterCapacity(AfterRate(config, j, t, retry), j)
            protected == AfterFallback(charged, j, t, row[p].probe)
            c == AfterRecovery(protected, p, t) IN
        config' = [c EXCEPT !.status = j.session, !.updated = t, !.due = Scheduled(c, j, t)]
  BY DEF Finish
<1> DEFINE t == read[p]
           j == job[p]
           charged == AfterCapacity(AfterRate(config, j, t, retry), j)
           protected == AfterFallback(charged, j, t, row[p].probe)
           c == AfterRecovery(protected, p, t)
<1>2. retry \in Nat /\ t \in Nat /\ j \in RunObject /\ row[p].probe \in BOOLEAN
      /\ config \in ConfigRow
  BY MarketAssumption DEF TypeOK, RunRow
<1>3. /\ charged \in ConfigRow /\ SameProtection(config, charged)
      /\ SameCredit(config, charged)
      /\ j.error = "" => charged.capacity = 0
  BY <1>2, RatedProtection
<1>4. config' = [c EXCEPT !.status = j.session, !.updated = t, !.due = Scheduled(c, j, t)]
  BY <1>1
<1> HIDE DEF charged
<1>5. /\ protected \in ConfigRow
      /\ row[p].probe => \/ FullProbe(j) /\ Lifted(protected)
                         \/ /\ Protects(protected, t)
                            /\ protected.attempted = TRUE /\ protected.credit = 0
      /\ ~row[p].probe =>
           \/ SameProtection(charged, protected) /\ SameCredit(charged, protected)
           \/ /\ Protects(protected, t) /\ protected.attempted = charged.attempted
              /\ FallbackReason(charged, j) # ""
           \/ charged.until # 0 /\ charged.until <= t /\ Lifted(protected)
  BY <1>2, <1>3, FallbackProtection
<1> HIDE DEF protected
<1>6. /\ c \in ConfigRow
      /\ c.attempted = protected.attempted /\ c.until = protected.until
      /\ \/ row[p].probe /\ c = protected
         \/ /\ ~row[p].probe /\ Healthy(protected, p, t)
            /\ c.credit = Smaller(RecoveryCredit(protected) + 1, RECOVERY_SUCCESS_THRESHOLD)
            /\ c.creditAt = t
         \/ ~row[p].probe /\ ~Healthy(protected, p, t) /\ c.credit = 0 /\ c.creditAt = 0
  BY <1>2, <1>5, RecoveryConfig
<1>7. c.reason = protected.reason
  BY <1>5 DEF AfterRecovery, ResetRecovery, ConfigRow
<1> HIDE DEF c
<1>8. /\ config'.until = c.until /\ config'.reason = c.reason
      /\ config'.attempted = c.attempted /\ config'.credit = c.credit
      /\ config'.creditAt = c.creditAt /\ config'.updated = t
  BY <1>4, <1>6 DEF ConfigRow
<1>9. c.credit = 0 => RecoveryCredit(config') = 0
  BY <1>8, MarketAssumption DEF RecoveryCredit, Smaller
<1>10. CASE row[p].probe
  <2>1. c = protected
    BY <1>6, <1>10
  <2>2. FullProbe(j) => j.success = MAX_ITEMS_PER_RUN
    BY DEF FullProbe, Complete
  <2>3. Lifted(protected) => Lifted(config')
    BY <1>8, <2>1 DEF Lifted
  <2>4. Protects(protected, t) => Protects(config', t)
    BY <1>8, <2>1 DEF Protects
  <2>5. c.credit = 0
    BY <1>5, <1>10, <2>1 DEF Lifted
  <2>6. QED
    BY <1>5, <1>8, <1>9, <1>10, <2>1, <2>2, <2>3, <2>4, <2>5
<1>11. CASE ~row[p].probe /\ Healthy(protected, p, t)
  <2>1. /\ j.success = FALLBACK_ITEMS_PER_RUN /\ j.error = "" /\ ~j.shared
        /\ protected.until > t /\ protected.reason \in Recoverable /\ ~protected.attempted
    BY <1>11 DEF Healthy, Complete, RecoveryEligible, InFallback
  <2>2. FallbackReason(charged, j) = ""
    <3>1. charged.capacity = 0 /\ CAPACITY_FAILURE_THRESHOLD \in Nat \ {0}
      BY <1>3, <2>1, MarketAssumption
    <3>2. ~(charged.capacity >= CAPACITY_FAILURE_THRESHOLD)
      BY <3>1
    <3>3. j.error # "runtime_budget"
      BY <2>1
    <3>4. QED
      BY <2>1, <3>2, <3>3, Zenon DEF FallbackReason
  <2>3. protected.until # 0
    <3>1. protected.until \in Nat
      BY <1>5 DEF ConfigRow
    <3>2. t \in Nat /\ protected.until > t
      BY <1>2, <2>1
    <3> HIDE DEF t
    <3>3. QED
      BY <3>1, <3>2
  <2>4. SameProtection(config, protected) /\ SameCredit(config, protected)
    BY <1>3, <1>5, <1>11, <2>2, <2>3 DEF SameProtection, SameCredit, Lifted
  <2>5. RecoveryCredit(protected) = RecoveryCredit(config)
    BY <2>4 DEF RecoveryCredit, SameCredit
  <2>6. /\ RecoveryCredit(config) \in Nat
        /\ RecoveryCredit(config) <= RECOVERY_SUCCESS_THRESHOLD
        /\ RECOVERY_SUCCESS_THRESHOLD \in Nat
    BY <1>2, CreditTyped, MarketAssumption
  <2>7. config'.creditAt = config'.updated
        /\ config'.credit = Smaller(RecoveryCredit(config) + 1, RECOVERY_SUCCESS_THRESHOLD)
    BY <1>6, <1>8, <1>11, <2>5
  <2>8. RecoveryCredit(config') =
          IF RecoveryCredit(config) < RECOVERY_SUCCESS_THRESHOLD
          THEN RecoveryCredit(config) + 1 ELSE RecoveryCredit(config)
    <3> DEFINE x == RecoveryCredit(config)
    <3>1. RecoveryCredit(config')
            = Smaller(Smaller(x + 1, RECOVERY_SUCCESS_THRESHOLD), RECOVERY_SUCCESS_THRESHOLD)
      BY <2>7 DEF RecoveryCredit
    <3> HIDE DEF x
    <3>2. x \in Nat /\ x <= RECOVERY_SUCCESS_THRESHOLD
      BY <2>6 DEF x
    <3>3. Smaller(Smaller(x + 1, RECOVERY_SUCCESS_THRESHOLD), RECOVERY_SUCCESS_THRESHOLD)
            = IF x < RECOVERY_SUCCESS_THRESHOLD THEN x + 1 ELSE x
      BY <2>6, <3>2 DEF Smaller
    <3>4. QED
      BY <3>1, <3>3 DEF x
  <2>9. SameProtection(config, config')
    BY <1>6, <1>7, <1>8, <2>4 DEF SameProtection
  <2>10. config.until # 0 /\ config.reason \in Recoverable /\ ~config.attempted
    BY <2>1, <2>3, <2>4 DEF SameProtection
  <2>11. QED
    BY <1>11, <2>1, <2>8, <2>9, <2>10
<1>12. CASE ~row[p].probe /\ ~Healthy(protected, p, t)
  <2>1. c.credit = 0
    BY <1>6, <1>12
  <2>2. SameProtection(charged, protected) => SameProtection(config, config')
    BY <1>3, <1>6, <1>7, <1>8 DEF SameProtection
  <2>3. Protects(protected, t) /\ protected.attempted = charged.attempted
          => Protects(config', t) /\ config'.attempted = config.attempted
    BY <1>3, <1>6, <1>8 DEF SameProtection, Protects
  <2>4. charged.until # 0 /\ charged.until <= t /\ Lifted(protected)
          => config.until # 0 /\ config.until <= t /\ Lifted(config')
    BY <1>3, <1>6, <1>7, <1>8, <2>1 DEF SameProtection, Lifted
  <2>5. QED
    BY <1>5, <1>9, <1>12, <2>1, <2>2, <2>3, <2>4
<1> QED
  BY <1>2, <1>10, <1>11, <1>12

(* A claimed row is not yet marked as a probe. *)
FreshInv == \A p \in Running : pc[p] = "claimed" => row[p].probe = FALSE

LEMMA ClaimProtection ==
  ASSUME TypeOK, ReadInPast, NEW p \in Pass, Claim(p)
  PROVE  /\ Running' \subseteq {p}
         /\ p \in Running' => row'[p].probe = FALSE
         /\ now' = now
         /\ Running # {} =>
              /\ Protects(config', read[p]) /\ config'.reason = "other"
              /\ config'.attempted = config.attempted /\ RecoveryCredit(config') = 0
         /\ Running = {} =>
              \/ config' = config
              \/ config.until # 0 /\ config.until <= read[p] /\ Lifted(config')
<1> DEFINE t == read[p]
           dead == {q \in Running : Expired(q, t)}
           c == Recovered(config, t, dead)
           failed == [q \in Pass |-> IF q \in dead THEN Closed(row[q]) ELSE row[q]]
           claimed == [status |-> "running", expires |-> t + LEASE_MS, probe |-> FALSE,
                       trigger |-> IF queued THEN "manual" ELSE "scheduled"]
<1>1. t \in Nat /\ config \in ConfigRow /\ now' = now /\ config' = c
  BY DEF TypeOK, Claim
<1>2. Running = dead
  <2>1. \A q \in Running : ~LeaseLive(q, t)
    BY DEF Claim
  <2>2. \A q \in Running : row[q].expires \in Nat
    BY DEF TypeOK, RunRow, Running
  <2>3. QED
    BY <1>1, <2>1, <2>2 DEF LeaseLive, Expired
<1>3. Running' \subseteq {p} /\ (p \in Running' => row'[p].probe = FALSE)
  <2>1. Running' \subseteq {p}
    BY ClaimFacts
  <2>2. CASE row' = [failed EXCEPT ![p] = claimed]
    <3>1. row'[p] = claimed
      BY <2>2
    <3>2. QED
      BY <2>1, <3>1
  <2>3. CASE row' = failed
    <3>1. p \notin Running'
      BY <1>2, <2>3 DEF Running, Closed, NoRow
    <3>2. QED
      BY <2>1, <3>1
  <2>4. QED
    BY <2>2, <2>3 DEF Claim
<1>4. CASE Running # {}
  <2> DEFINE a == Protect(config, t, "lease_expired")
             b == ResetRecovery(a)
  <2>1. c = [b EXCEPT !.capacity = 0]
    BY <1>2, <1>4 DEF Recovered
  <2>2. a \in ConfigRow /\ a.attempted = config.attempted
    BY <1>1, ProtectConfig
  <2>3. a.until = t + FALLBACK_DURATION_MS /\ a.reason = "other"
    BY <1>1 DEF Protect, Reason, Recoverable, ConfigRow
  <2> HIDE DEF a
  <2>4. b \in ConfigRow /\ b.until = a.until /\ b.attempted = a.attempted /\ b.credit = 0
    BY <2>2, ResetConfig
  <2>5. b.reason = a.reason
    BY <2>2 DEF ResetRecovery, ConfigRow
  <2> HIDE DEF b
  <2>6. /\ c \in ConfigRow /\ c.until = b.until /\ c.reason = b.reason
        /\ c.attempted = b.attempted /\ c.credit = 0
    BY <2>1, <2>4 DEF ConfigRow
  <2>7. RecoveryCredit(c) = 0
    BY <2>6, CreditTyped
  <2>8. QED
    BY <1>1, <1>3, <1>4, <2>2, <2>3, <2>4, <2>5, <2>6, <2>7 DEF Protects
<1>5. CASE Running = {} /\ config.until # 0 /\ config.until <= t
  <2> DEFINE b == ClearFallback(config)
  <2>1. c = [b EXCEPT !.capacity = 0]
    BY <1>2, <1>5 DEF Recovered
  <2>2. b \in ConfigRow /\ Lifted(b)
    BY <1>1, ClearLifts, ClearConfig
  <2> HIDE DEF b
  <2>3. Lifted(c)
    BY <2>1, <2>2 DEF Lifted, ConfigRow
  <2>4. QED
    BY <1>1, <1>3, <1>5, <2>3
<1>6. CASE Running = {} /\ ~(config.until # 0 /\ config.until <= t)
  <2>1. c = config
    BY <1>2, <1>6 DEF Recovered
  <2>2. QED
    BY <1>1, <1>3, <1>6, <2>1
<1> QED
  BY <1>4, <1>5, <1>6

LEMMA FreshStep == IInv /\ FreshInv /\ [Next]_vars => FreshInv'
<1> SUFFICES ASSUME IInv, FreshInv, [Next]_vars PROVE FreshInv'
  OBVIOUS
<1>1. TypeOK /\ ReadInPast /\ CreditInv /\ AtMostOneRunning
  BY DEF IInv
<1>2. ASSUME NEW p \in Pass, Claim(p) PROVE FreshInv'
  BY <1>1, <1>2, ClaimProtection DEF FreshInv
<1>3. ASSUME NEW p \in Pass, Prepare(p) PROVE FreshInv'
  <2>0. MarksRow(p) /\ pc'[p] = "prepared"
    BY <1>1, <1>3, PrepareFacts
  <2>1. Running' = Running /\ pc'[p] = "prepared"
    BY <2>0 DEF MarksRow, Running
  <2>2. \A q \in Running \ {p} : pc'[q] = pc[q] /\ row'[q].probe = row[q].probe
    <3>1. \A q \in Pass \ {p} : pc'[q] = pc[q]
      <4>1. PassStep(p)
        BY <1>3 DEF PassStep
      <4> QED
        BY <1>1, <4>1, OwnSteps
    <3>2. \A q \in Pass \ {p} : row'[q].probe = row[q].probe
      BY <2>0 DEF MarksRow
    <3> QED
      BY <3>1, <3>2 DEF Running
  <2>3. QED
    BY <2>1, <2>2 DEF FreshInv
<1>4. ASSUME NEW p \in Pass, Finish(p) PROVE FreshInv'
  BY <1>1, <1>4, FinishFacts DEF FreshInv
<1>5. ASSUME NEW p \in Pass, QuietStep(p) PROVE FreshInv'
  <2>1. /\ Running' = Running
        /\ \A q \in Running : row'[q].probe = row[q].probe
    BY <1>1, <1>5, QuietSteps DEF Quiet, Running
  <2>2. \A q \in Running \ {p} : pc'[q] = pc[q]
    BY <1>1, <1>5, OwnSteps DEF Running, PassStep, QuietStep
  <2>3. pc'[p] # "claimed"
    <3>1. ASSUME NEW x, pc' = [pc EXCEPT ![p] = x] PROVE pc'[p] = x
      BY <1>1, <3>1 DEF TypeOK
    <3>2. CASE ClaimRefused(p) \/ LeaseLost(p) \/ Crash(p)
      BY <3>1, <3>2 DEF ClaimRefused, LeaseLost, Crash, Leave
    <3>3. CASE StartPass(p) \/ Connect(p) \/ BeforeRpc(p) \/ Heartbeat(p) \/ SaveQuote(p)
               \/ EndOfList(p)
      BY <3>1, <3>3 DEF StartPass, Connect, BeforeRpc, Heartbeat, SaveQuote, EndOfList, Step
    <3>4. CASE Plan(p) \/ Answer(p) \/ RecordFailure(p) \/ Interrupt(p)
      BY <3>1, <3>4 DEF Plan, Answer, RecordFailure, Interrupt, Step
    <3>5. QED
      BY <1>5, <3>2, <3>3, <3>4 DEF QuietStep
  <2>4. QED
    BY <2>1, <2>2, <2>3 DEF FreshInv
<1>6. CASE OutsideStep \/ UNCHANGED vars
  BY <1>1, <1>6, Outside DEF vars, FreshInv, Running
<1>7. ASSUME NEW p \in Pass, PassStep(p) PROVE FreshInv'
  BY <1>2, <1>3, <1>4, <1>5, <1>7 DEF PassStep, QuietStep
<1> QED
  BY <1>6, <1>7 DEF Next, OutsideStep

(* The pass that writes is the one on record. *)
LEMMA WhoIsOnRecord ==
  /\ Running = {} => OnRecord = "none"
  /\ AtMostOneRunning =>
       \A p \in Running : /\ OnRecord = IF row[p].probe THEN "probe" ELSE "open"
                          /\ Collected = job[p].success
<1>1. Running = {} => OnRecord = "none"
  BY DEF OnRecord
<1>2. ASSUME AtMostOneRunning, NEW p \in Running
      PROVE  /\ OnRecord = IF row[p].probe THEN "probe" ELSE "open"
             /\ Collected = job[p].success
  <2>1. Running = {p}
    BY <1>2 DEF AtMostOneRunning
  <2>2. OnRecord = IF row[p].probe THEN "probe" ELSE "open"
    BY <2>1 DEF OnRecord
  <2>3. (CHOOSE q \in Running : TRUE) = p
    BY <2>1
  <2>4. QED
    BY <2>1, <2>2, <2>3 DEF Collected
<1> QED
  BY <1>1, <1>2

LEMMA LiftedIsNotTransient ==
  ASSUME NEW d, Lifted(d) PROVE (d.reason \in Recoverable) = FALSE
<1>1. d.reason \notin Recoverable
  BY DEF Lifted, Recoverable
<1> QED
  BY <1>1

LEMMA ClaimKeepsProtection ==
  ASSUME IInv, NEW p \in Pass, Claim(p)
  PROVE  Protection!Begin \/ Protection!TakeOver
<1>1. TypeOK /\ ReadInPast /\ AtMostOneRunning /\ config \in ConfigRow
      /\ read[p] \in Nat /\ now \in Nat /\ read[p] <= now /\ config.until \in Nat
  BY DEF IInv, TypeOK, ReadInPast, ConfigRow
<1>2. /\ Running' \subseteq {p}
      /\ p \in Running' => row'[p].probe = FALSE
      /\ now' = now
      /\ Running # {} =>
           /\ Protects(config', read[p]) /\ config'.reason = "other"
           /\ config'.attempted = config.attempted /\ RecoveryCredit(config') = 0
      /\ Running = {} =>
           \/ config' = config
           \/ config.until # 0 /\ config.until <= read[p] /\ Lifted(config')
  BY <1>1, ClaimProtection
<1>3. OnRecord' \in {"none", "open"}
  BY <1>2 DEF OnRecord
<1>4. read[p] \in 0 .. now
  BY <1>1
<1>5. CASE Running # {}
  <2>1. OnRecord # "none"
    BY <1>5 DEF OnRecord
  <2>2. (config'.reason \in Recoverable) \in {FALSE}
    <3>1. config'.reason \notin Recoverable
      BY <1>2, <1>5 DEF Recoverable
    <3>2. (config'.reason \in Recoverable) = FALSE
      BY <3>1
    <3>3. QED
      BY <3>2
  <2>3. config'.until = read[p] + FALLBACK_DURATION_MS
    BY <1>2, <1>5 DEF Protects
  <2>4. Protection!TakeOver
    BY <1>2, <1>3, <1>4, <1>5, <2>1, <2>2, <2>3 DEF Protection!TakeOver, Protection!Raise
  <2>5. QED
    BY <2>4
<1>6. CASE Running = {} /\ config' = config
  <2>1. OnRecord = "none"
    BY <1>6, WhoIsOnRecord
  <2>2. RecoveryCredit(config') = RecoveryCredit(config)
    BY <1>6
  <2>3. Protection!Begin
    BY <1>2, <1>3, <1>6, <2>1, <2>2 DEF Protection!Begin, Protection!protection
  <2>4. QED
    BY <2>3
<1>7. CASE Running = {} /\ config' # config
  <2>1. OnRecord = "none"
    BY <1>7, WhoIsOnRecord
  <2>2. config.until # 0 /\ config.until <= now /\ Lifted(config')
    BY <1>1, <1>2, <1>7
  <2>3. config' \in ConfigRow
    BY <1>1, ClaimFacts
  <2>4. RecoveryCredit(config') = 0
    BY <2>2, <2>3, CreditTyped DEF Lifted
  <2>5. (config'.reason \in Recoverable) = FALSE
    BY <2>2, LiftedIsNotTransient
  <2>6. Protection!Begin
    BY <1>2, <1>3, <2>1, <2>2, <2>4, <2>5
    DEF Protection!Begin, Protection!Expire, Protection!Lift, Lifted
  <2>7. QED
    BY <2>6
<1> QED
  BY <1>5, <1>6, <1>7

LEMMA PrepareKeepsProtection ==
  ASSUME IInv, FreshInv, NEW p \in Pass, Prepare(p)
  PROVE  \/ Protection!Probe \/ Protection!Void
         \/ UNCHANGED <<now, config, OnRecord>>
<1>1. TypeOK /\ AtMostOneRunning /\ config \in ConfigRow /\ read[p] \in Nat
      /\ config.until \in Nat
  BY DEF IInv, TypeOK, ConfigRow
<1>2. /\ p \in Running /\ now' = now /\ pc[p] = "claimed" /\ MarksRow(p)
      /\ IsProbe(p) => row'[p].probe = TRUE /\ config'.attempted = TRUE
      /\ ~IsProbe(p) => row'[p].probe = FALSE /\ config'.attempted = config.attempted
      /\ config' \in ConfigRow /\ config'.until = config.until
      /\ config' = config \/ (config'.credit = 0 /\ config'.creditAt = 0)
  BY <1>1, PrepareFacts
<1>3. Running' = Running /\ Running = {p}
  BY <1>1, <1>2 DEF MarksRow, Running, AtMostOneRunning
<1>4. config'.reason = config.reason
  BY <1>1 DEF Prepare, ResetRecovery, ConfigRow
<1>5. OnRecord = "open"
  BY <1>1, <1>2, WhoIsOnRecord DEF FreshInv
<1>6. CASE IsProbe(p)
  <2>1. OnRecord' = "probe"
    BY <1>2, <1>3, <1>6 DEF OnRecord
  <2>2. /\ RecoveryCredit(config) >= RECOVERY_SUCCESS_THRESHOLD
        /\ config.until > read[p] /\ config.reason \in Recoverable /\ ~config.attempted
    BY <1>6 DEF IsProbe, RecoveryEligible, InFallback
  <2>3. config.until # 0
    BY <1>1, <2>2
  <2>4. config'.credit = 0
    <3>1. config' # config
      BY <1>2, <1>6, <2>2
    <3>2. QED
      BY <1>2, <3>1
  <2>5. RecoveryCredit(config') = 0
    BY <1>2, <2>4, CreditTyped
  <2>6. Protection!Probe
    BY <1>2, <1>4, <1>5, <1>6, <2>1, <2>2, <2>3, <2>5
    DEF Protection!Probe, Protection!Earnable, Protection!protection
  <2>7. QED
    BY <2>6
<1>7. CASE ~IsProbe(p)
  <2>1. OnRecord' = "open"
    BY <1>2, <1>3, <1>7 DEF OnRecord
  <2>2. CASE config' = config
    BY <1>2, <1>5, <2>1, <2>2
  <2>3. CASE config'.credit = 0
    <3>1. RecoveryCredit(config') = 0
      BY <1>2, <2>3, CreditTyped
    <3>2. Protection!Void
      BY <1>2, <1>4, <1>5, <1>7, <2>1, <3>1 DEF Protection!Void, Protection!protection
    <3>3. QED
      BY <3>2
  <2>4. QED
    BY <1>2, <2>2, <2>3
<1> QED
  BY <1>6, <1>7

LEMMA FinishKeepsProtection ==
  ASSUME IInv, NEW p \in Pass, Finish(p)
  PROVE  Protection!EndHealthy \/ Protection!EndOtherwise \/ Protection!EndProbe
<1>1. /\ TypeOK /\ AtMostOneRunning /\ CreditInv /\ row[p].probe \in BOOLEAN
      /\ read[p] \in Nat /\ now \in Nat /\ read[p] <= now
      /\ config \in ConfigRow /\ config.until \in Nat
  BY DEF IInv, TypeOK, ReadInPast, RunRow, ConfigRow
<1>2. p \in Running /\ Running' = {} /\ now' = now
  BY <1>1, FinishFacts
<1>3. OnRecord' = "none"
  BY <1>2 DEF OnRecord
<1>4. Collected = job[p].success
  BY <1>1, <1>2, WhoIsOnRecord
<1>5. Lifted(config') => (config'.reason \in Recoverable) = FALSE
  BY LiftedIsNotTransient
<1>6. (config'.reason \in Recoverable) \in BOOLEAN
  OBVIOUS
<1>7. Protects(config', read[p]) => Protection!Raise(BOOLEAN)
  BY <1>1, <1>6 DEF Protects, Protection!Raise
<1>8. Lifted(config') => Protection!Lift /\ config'.attempted = FALSE
  BY <1>5 DEF Lifted, Protection!Lift
<1>9. CASE row[p].probe
  <2>1. OnRecord = "probe"
    BY <1>1, <1>2, <1>9, WhoIsOnRecord
  <2>2. /\ RecoveryCredit(config') = 0
        /\ \/ job[p].success = MAX_ITEMS_PER_RUN /\ Lifted(config')
           \/ Protects(config', read[p]) /\ config'.attempted = TRUE
    BY <1>1, <1>9, FinishedProtection
  <2>3. Protection!EndProbe
    BY <1>2, <1>3, <1>4, <1>7, <1>8, <2>1, <2>2 DEF Protection!EndProbe
  <2>4. QED
    BY <2>3
<1>10. CASE ~row[p].probe
  <2>1. OnRecord = "open"
    BY <1>1, <1>2, <1>10, WhoIsOnRecord
  <2>2. \/ /\ job[p].success = FALLBACK_ITEMS_PER_RUN
           /\ config.until # 0 /\ config.reason \in Recoverable /\ ~config.attempted
           /\ SameProtection(config, config')
           /\ RecoveryCredit(config') =
                IF RecoveryCredit(config) < RECOVERY_SUCCESS_THRESHOLD
                THEN RecoveryCredit(config) + 1 ELSE RecoveryCredit(config)
        \/ /\ RecoveryCredit(config') = 0
           /\ \/ SameProtection(config, config')
              \/ Protects(config', read[p]) /\ config'.attempted = config.attempted
              \/ config.until # 0 /\ config.until <= read[p] /\ Lifted(config')
    BY <1>1, <1>10, FinishedProtection
  <2>3. SameProtection(config, config')
          => /\ UNCHANGED Protection!protection
             /\ config'.attempted = config.attempted
    BY DEF SameProtection, Protection!protection
  <2>4. CASE /\ job[p].success = FALLBACK_ITEMS_PER_RUN
             /\ config.until # 0 /\ config.reason \in Recoverable /\ ~config.attempted
             /\ SameProtection(config, config')
             /\ RecoveryCredit(config') =
                  IF RecoveryCredit(config) < RECOVERY_SUCCESS_THRESHOLD
                  THEN RecoveryCredit(config) + 1 ELSE RecoveryCredit(config)
    BY <1>2, <1>3, <1>4, <2>1, <2>3, <2>4 DEF Protection!EndHealthy, Protection!Earnable
  <2>5. CASE RecoveryCredit(config') = 0 /\ SameProtection(config, config')
    BY <1>2, <1>3, <2>1, <2>3, <2>5 DEF Protection!EndOtherwise
  <2>6. CASE /\ RecoveryCredit(config') = 0
             /\ Protects(config', read[p]) /\ config'.attempted = config.attempted
    BY <1>2, <1>3, <1>7, <2>1, <2>6 DEF Protection!EndOtherwise
  <2>7. CASE /\ RecoveryCredit(config') = 0
             /\ config.until # 0 /\ config.until <= read[p] /\ Lifted(config')
    <3>1. config.until <= now
      BY <1>1, <2>7
    <3>2. Protection!Expire
      BY <1>8, <2>7, <3>1 DEF Protection!Expire
    <3>3. QED
      BY <1>2, <1>3, <2>1, <2>7, <3>2 DEF Protection!EndOtherwise
  <2>8. QED
    BY <2>2, <2>4, <2>5, <2>6, <2>7
<1> QED
  BY <1>1, <1>9, <1>10

LEMMA OutsideKeepsProtection ==
  ASSUME IInv, OutsideStep
  PROVE  \/ Protection!Reset \/ Protection!Void \/ Protection!Tick
         \/ UNCHANGED <<now, config, OnRecord>>
<1>1. TypeOK /\ CreditInv /\ config \in ConfigRow /\ now \in Nat
  BY DEF IInv, TypeOK
<1>2. row' = row
  BY <1>1, Outside
<1>3. OnRecord' = OnRecord
  BY <1>2 DEF OnRecord, Running
<1>4. ASSUME \/ \E n \in {FALLBACK_ITEMS_PER_RUN, MAX_ITEMS_PER_RUN} : PatchCapacity(n)
             \/ \E on \in BOOLEAN : PatchSchedule(on)
      PROVE  now' = now /\ EditsRow /\ RecoveryCredit(config') = 0
  <2>1. now' = now /\ now > config.updated
    BY <1>4 DEF PatchCapacity, PatchSchedule
  <2>2. ASSUME NEW n \in {FALLBACK_ITEMS_PER_RUN, MAX_ITEMS_PER_RUN}, PatchCapacity(n)
        PROVE  EditsRow
    BY <1>1, <2>2 DEF PatchCapacity, ConfigRow, EditsRow
  <2>3. ASSUME NEW on \in BOOLEAN, PatchSchedule(on)
        PROVE  EditsRow
    BY <1>1, <2>3 DEF PatchSchedule, ConfigRow, EditsRow
  <2>4. EditsRow
    BY <1>4, <2>2, <2>3
  <2>5. config'.creditAt # config'.updated
    <3>1. config.creditAt \in Nat /\ config.updated \in Nat
      BY <1>1 DEF ConfigRow
    <3>2. config.creditAt < now
      BY <1>1, <2>1, <3>1 DEF CreditInv
    <3>3. QED
      BY <1>1, <2>4, <3>1, <3>2 DEF EditsRow
  <2>6. QED
    BY <2>1, <2>4, <2>5 DEF RecoveryCredit
<1>5. CASE \E n \in {FALLBACK_ITEMS_PER_RUN, MAX_ITEMS_PER_RUN} : PatchCapacity(n)
  <2>1. config'.until = 0 /\ config'.reason = ""
    BY <1>1, <1>5 DEF PatchCapacity, ConfigRow
  <2>2. config'.reason \notin Recoverable
    BY <2>1 DEF Recoverable
  <2>3. (config'.reason \in Recoverable) = FALSE
    BY <2>2
  <2>4. Protection!Reset
    BY <1>3, <1>4, <1>5, <2>1, <2>3 DEF Protection!Reset, Protection!Lift, EditsRow
  <2>5. QED
    BY <2>4
<1>6. CASE \E on \in BOOLEAN : PatchSchedule(on)
  <2>1. config'.until = config.until /\ config'.reason = config.reason
    BY <1>1, <1>6 DEF PatchSchedule, ConfigRow
  <2>2. Protection!Void
    BY <1>3, <1>4, <1>6, <2>1 DEF Protection!Void, Protection!protection, EditsRow
  <2>3. QED
    BY <2>2
<1>7. CASE EnqueueManual
  BY <1>3, <1>7 DEF EnqueueManual
<1>8. CASE Tick
  <2>1. now' = now + 1 /\ config' = config
    BY <1>8 DEF Tick
  <2>2. RecoveryCredit(config') = RecoveryCredit(config)
    BY <2>1
  <2>3. Protection!Tick
    BY <1>3, <2>1, <2>2 DEF Protection!Tick, Protection!protection
  <2>4. QED
    BY <2>3
<1> QED
  BY <1>5, <1>6, <1>7, <1>8 DEF OutsideStep

(* The worker implements the promise about its batch size: a protection ends *)
(* by expiry, by a complete full batch or by the administrator; the full     *)
(* batch is earned by an unbroken row of healthy passes and, once tried,      *)
(* never given back within the protection, for any number of overlapping,     *)
(* crashing and superseded passes (_claim_run, _prepare_batch_policy and      *)
(* _finish_run of worker.py, the PATCH of views.py).                         *)
THEOREM ProtectionKept == Spec => KeepsProtection
<1>1. Spec => []FreshInv
  <2>1. Init => FreshInv
    BY DEF Init, NoRow, Running, FreshInv
  <2>2. IInv /\ FreshInv /\ [Next]_vars => FreshInv'
    BY FreshStep
  <2>3. QED
    BY <2>1, <2>2, Inductive, PTL DEF Spec
<1>2. Init => Protection!Init
  <2> SUFFICES ASSUME Init PROVE Protection!Init
    OBVIOUS
  <2>1. now \in Nat /\ 1 \in 0 .. now
    BY MarketAssumption DEF Init
  <2>2. /\ config.until = 0 \/ config.until = 1 + FALLBACK_DURATION_MS
        /\ config.credit = 0 /\ config.attempted = FALSE /\ config.creditAt = 0
    <3>1. /\ Fresh.until = 0 /\ Fresh.credit = 0 /\ Fresh.attempted = FALSE
          /\ Fresh.creditAt = 0
      BY DEF Fresh
    <3>2. /\ Protected.until = 1 + FALLBACK_DURATION_MS /\ Protected.credit = 0
          /\ Protected.attempted = FALSE /\ Protected.creditAt = 0
      BY DEF Protected, Fresh
    <3>3. config = Fresh \/ config = Protected
      BY DEF Init
    <3> HIDE DEF Fresh, Protected
    <3>4. QED
      BY <3>1, <3>2, <3>3
  <2>3. RecoveryCredit(config) = 0
    BY <2>2, MarketAssumption DEF RecoveryCredit, Smaller
  <2>4. OnRecord = "none"
    <3>1. Running = {}
      BY DEF Init, NoRow, Running
    <3>2. QED
      BY <3>1, WhoIsOnRecord
  <2>5. QED
    BY <2>1, <2>2, <2>3, <2>4 DEF Protection!Init
<1>3. IInv /\ FreshInv /\ [Next]_vars
        => [Protection!Next]_<<now, Protection!protection, RecoveryCredit(config),
                               config.attempted, OnRecord>>
  <2> SUFFICES ASSUME IInv, FreshInv, [Next]_vars
               PROVE  \/ Protection!Next
                      \/ UNCHANGED <<now, Protection!protection, RecoveryCredit(config),
                                     config.attempted, OnRecord>>
    OBVIOUS
  <2>1. UNCHANGED <<now, config, OnRecord>>
          => UNCHANGED <<now, Protection!protection, RecoveryCredit(config),
                         config.attempted, OnRecord>>
    BY DEF Protection!protection
  <2>2. ASSUME NEW p \in Pass, QuietStep(p) PROVE UNCHANGED <<now, config, OnRecord>>
    <3>1. Quiet
      BY <2>2, QuietSteps DEF IInv
    <3>2. /\ Running' = Running
          /\ \A q \in Running : row'[q].probe = row[q].probe
      BY <3>1 DEF Quiet, Running
    <3>3. QED
      BY <3>1, <3>2 DEF Quiet, OnRecord
  <2>3. ASSUME NEW p \in Pass, Claim(p) PROVE Protection!Next
    BY <2>3, ClaimKeepsProtection DEF Protection!Next
  <2>4. ASSUME NEW p \in Pass, Prepare(p)
        PROVE  Protection!Next \/ UNCHANGED <<now, config, OnRecord>>
    BY <2>4, PrepareKeepsProtection DEF Protection!Next
  <2>5. ASSUME NEW p \in Pass, Finish(p) PROVE Protection!Next
    BY <2>5, FinishKeepsProtection DEF Protection!Next
  <2>6. ASSUME OutsideStep PROVE Protection!Next \/ UNCHANGED <<now, config, OnRecord>>
    BY <2>6, OutsideKeepsProtection DEF Protection!Next
  <2>7. ASSUME UNCHANGED vars PROVE UNCHANGED <<now, config, OnRecord>>
    BY <2>7 DEF vars, OnRecord, Running
  <2>8. ASSUME NEW p \in Pass, PassStep(p)
        PROVE  Protection!Next \/ UNCHANGED <<now, config, OnRecord>>
    BY <2>2, <2>3, <2>4, <2>5, <2>8 DEF PassStep, QuietStep
  <2>9. QED
    BY <2>1, <2>6, <2>7, <2>8 DEF Next, OutsideStep
<1> QED
  BY <1>1, <1>2, <1>3, Inductive, PTL DEF Spec, KeepsProtection, Protection!Spec
=============================================================================
