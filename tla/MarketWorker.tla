---------------------------- MODULE MarketWorker ----------------------------
(***************************************************************************)
(* The Market collection worker of backend/Market/worker.py and the admin  *)
(* endpoints of backend/Market/views.py that share its singleton config    *)
(* row.  A pass is one call of collect_due: it claims a CollectionRun row  *)
(* under a 12 minute lease, fixes its batch size, plans, queries items one *)
(* by one and finishes, writing the schedule, the session status and the   *)
(* batch fallback / recovery-probe policy back to the config row.          *)
(*                                                                         *)
(* Every database transaction locks the config row first and is one step.  *)
(* The clock is read before the transaction, so a pass may act on an old   *)
(* reading; it may also die anywhere and leave its row "running".          *)
(***************************************************************************)
EXTENDS Integers, FiniteSets

CONSTANTS
  Pass,               \* worker slots: each makes one pass after another
  MaxLive,            \* of which this many at a time: 1 where every collector
                      \* runs under the exclusive flock of deploy_guard.py
  LEASE_MS,
  FALLBACK_DURATION_MS,
  INTERVAL_MS,        \* from a finish to the next automatic pass
  RATE_STEP_MS,       \* first rate cooldown
  MAX_ITEMS_PER_RUN, FALLBACK_ITEMS_PER_RUN,
  CAPACITY_FAILURE_THRESHOLD, RECOVERY_SUCCESS_THRESHOLD,
  EditTimes,          \* bound of the model: administrators edit only then
  MaxTime             \* bound of the model: the clock stops here

ASSUME MarketAssumption ==
  /\ {LEASE_MS, FALLBACK_DURATION_MS, INTERVAL_MS, RATE_STEP_MS} \subseteq Nat \ {0}
  /\ FALLBACK_ITEMS_PER_RUN \in Nat \ {0}
  /\ MAX_ITEMS_PER_RUN \in Nat /\ FALLBACK_ITEMS_PER_RUN < MAX_ITEMS_PER_RUN
  /\ {CAPACITY_FAILURE_THRESHOLD, RECOVERY_SUCCESS_THRESHOLD} \subseteq Nat \ {0}
  /\ INTERVAL_MS < FALLBACK_DURATION_MS
  /\ MaxLive \in Nat \ {0} /\ MaxTime \in Nat /\ EditTimes \subseteq Nat

VARIABLES
  now,
  config,    \* the MarketConfig row
  queued,    \* a manual CollectionRun waits in status queued
  row,       \* the CollectionRun row a slot's pass has claimed, until closed
  pc, read,  \* where a pass is, and its last clock reading
  job,       \* its in-memory run object: plan, counters, outcome
  latest,    \* LatestPrice.updated_at_ms of the price written last
  streak,    \* history: healthy scheduled reduced passes in a row
  probed     \* history: a probe was made since the fallback was last clear

vars == <<now, config, queued, row, pc, read, job, latest, streak, probed>>

Stopped == {"needs_auth", "blocked"}
Recoverable == {"network_error"}
CapacityErrors == Recoverable \cup {"budget_exhausted"}
Errors == CapacityErrors \cup {"runtime_budget", "other"}
(* Why a fallback is in force: a transient network error, which can be      *)
(* earned away, or anything else (runtime_budget, budget_exhausted,          *)
(* shared_budget, lease_expired, incomplete_run), which cannot.              *)
Reason(error) == IF error \in Recoverable THEN error ELSE "other"

Smaller(x, y) == IF x < y THEN x ELSE y
Later(x, y) == IF x < y THEN y ELSE x

(* A time of 0 stands for NULL: the clock is past it. *)
SessionStatus == Stopped \cup {"unconfigured", "ready", "error", "cooldown"}
ConfigRow ==
  [enabled: BOOLEAN, status: SessionStatus,
   due: Nat, updated: Nat, cooldown: Nat, rateFailures: Nat,
   maxItems: {FALLBACK_ITEMS_PER_RUN, MAX_ITEMS_PER_RUN},
   until: Nat, reason: Recoverable \cup {"", "other"}, capacity: Nat,
   credit: Nat, attempted: BOOLEAN, creditAt: Nat]

Places == {"idle", "claiming", "claimed", "prepared", "planned", "collecting",
           "beating", "asking", "saving", "finishing"}
Triggers == {"scheduled", "manual"}
RunRow == [status: {"none", "running"}, trigger: Triggers, expires: Nat, probe: BOOLEAN]
RunObject ==
  [limit: 0 .. MAX_ITEMS_PER_RUN, configured: 0 .. MAX_ITEMS_PER_RUN,
   expected: 0 .. MAX_ITEMS_PER_RUN, success: 0 .. MAX_ITEMS_PER_RUN,
   failure: 0 .. MAX_ITEMS_PER_RUN, error: Errors \cup {""}, shared: BOOLEAN,
   session: SessionStatus,
   status: {"", "succeeded", "partial", "failed", "needs_auth", "rate_limited"}]

TypeOK ==
  /\ now \in Nat
  /\ config \in ConfigRow
  /\ queued \in BOOLEAN
  /\ row \in [Pass -> RunRow]
  /\ \A p \in Pass : row[p].status = "running" <=> row[p].expires > 0
  /\ pc \in [Pass -> Places]
  /\ read \in [Pass -> Nat]
  /\ job \in [Pass -> RunObject]
  /\ latest \in Nat
  /\ streak \in Nat
  /\ probed \in BOOLEAN

(* The config row is either fresh or was left in network fallback by two    *)
(* failed passes, the second of which finished INTERVAL_MS ago.              *)
Fresh ==
  [enabled |-> TRUE, status |-> "unconfigured", due |-> 0, updated |-> 0,
   cooldown |-> 0, rateFailures |-> 0, maxItems |-> MAX_ITEMS_PER_RUN,
   until |-> 0, reason |-> "", capacity |-> 0,
   credit |-> 0, attempted |-> FALSE, creditAt |-> 0]
Protected ==
  [Fresh EXCEPT !.status = "error", !.due = 1 + INTERVAL_MS, !.updated = 1,
                !.until = 1 + FALLBACK_DURATION_MS, !.reason = "network_error",
                !.capacity = CAPACITY_FAILURE_THRESHOLD]

NoJob == [limit |-> 0, configured |-> 0, expected |-> 0, success |-> 0, failure |-> 0,
          error |-> "", shared |-> FALSE, session |-> "ready", status |-> ""]
NoRow == [status |-> "none", trigger |-> "scheduled", expires |-> 0, probe |-> FALSE]

Init ==
  /\ now = 1 + INTERVAL_MS
  /\ config \in {Fresh, Protected}
  /\ queued = FALSE
  /\ row = [p \in Pass |-> NoRow]
  /\ pc = [p \in Pass |-> "idle"]
  /\ read = [p \in Pass |-> 0]
  /\ job = [p \in Pass |-> NoJob]
  /\ latest = 0
  /\ streak = 0
  /\ probed = FALSE

(***************************************************************************)
(* Policy helpers.  An operator named Bad... is a plausible mistake in the *)
(* one after it, used only to show that a property notices the mistake.    *)
(***************************************************************************)
Step(p, from, to) == pc[p] = from /\ pc' = [pc EXCEPT ![p] = to]
ReadClock(p) == read' = [read EXCEPT ![p] = now]

(* The process is gone, and its memory with it.                             *)
Leave(p) ==
  /\ pc' = [pc EXCEPT ![p] = "idle"]
  /\ read' = [read EXCEPT ![p] = 0]
  /\ job' = [job EXCEPT ![p] = NoJob]

Alive == {p \in Pass : pc[p] # "idle"}
Running == {p \in Pass : row[p].status = "running"}

(* _check_lease, at the pass's own clock reading. *)
HoldsLease(p) == row[p].status = "running" /\ row[p].expires > read[p]

Renew(p) == row' = [row EXCEPT ![p].expires = read[p] + LEASE_MS]

(* What a finished row holds is not read again, except for its lease.       *)
Closed(r) == NoRow

ResetRecovery(c) == [c EXCEPT !.credit = 0, !.creditAt = 0]
ClearFallback(c) ==
  [ResetRecovery(c) EXCEPT !.until = 0, !.reason = "", !.attempted = FALSE]
Protect(c, t, reason) == [c EXCEPT !.until = t + FALLBACK_DURATION_MS, !.reason = Reason(reason)]

InCooldown(c, t) == c.cooldown > t
InFallback(c, t) == c.until > t

RecoveryEligible(c, t, session) ==
  /\ c.enabled /\ c.maxItems = MAX_ITEMS_PER_RUN /\ session = "ready"
  /\ ~InCooldown(c, t) /\ InFallback(c, t)
  /\ c.reason \in Recoverable /\ ~c.attempted

(* Credit counts only while nothing else has written the row since. *)
BadRecoveryCredit(c) == Smaller(c.credit, RECOVERY_SUCCESS_THRESHOLD)
RecoveryCredit(c) ==
  IF c.creditAt # c.updated THEN 0 ELSE Smaller(c.credit, RECOVERY_SUCCESS_THRESHOLD)

BadEffectiveItems(c, t) == c.maxItems
EffectiveItems(c, t) ==
  IF InFallback(c, t) THEN Smaller(c.maxItems, FALLBACK_ITEMS_PER_RUN) ELSE c.maxItems

RateCooldown(n) == IF n = 1 THEN RATE_STEP_MS
                   ELSE IF n = 2 THEN 2 * RATE_STEP_MS ELSE 4 * RATE_STEP_MS

(* What a claim makes of the fallback before it looks for work. *)
Recovered(c, t, dead) ==
  IF dead # {} THEN [ResetRecovery(Protect(c, t, "lease_expired")) EXCEPT !.capacity = 0]
  ELSE IF c.until # 0 /\ c.until <= t THEN [ClearFallback(c) EXCEPT !.capacity = 0]
  ELSE c

BadDue(c, t) == c.enabled /\ c.due <= t
Due(c, t) == c.enabled /\ c.status \notin Stopped /\ c.due <= t

(* How the try block of a pass ended, and what that leaves in its run object. *)
Outcome(session, status, error) == [session |-> session, status |-> status, error |-> error]
Ended(j, o) == [j EXCEPT !.session = o.session, !.status = o.status, !.error = o.error]

(***************************************************************************)
(* A pass.  The slot of a dead process is not used again while its row is  *)
(* running: the row is all that is left of that pass.                       *)
(***************************************************************************)
StartPass(p) ==
  /\ Cardinality(Alive) < MaxLive
  /\ row[p].status = "none"
  /\ Step(p, "idle", "claiming")
  /\ ReadClock(p)
  /\ UNCHANGED <<now, config, queued, row, job, latest, streak, probed>>

(* _claim_run: a live lease turns the pass away; otherwise dead rows fail,  *)
(* the fallback is brought up to date, and the queued row or a due           *)
(* scheduled one is claimed.                                                 *)
BadLeaseLive(q, t) == row[q].expires > t + 1
LeaseLive(q, t) == row[q].expires > t
Expired(q, t) == row[q].expires <= t

BadWork(c, t) == queued \/ (~InCooldown(c, t) /\ Due(c, t))
Work(c, t) == ~InCooldown(c, t) /\ (queued \/ Due(c, t))

ClaimRefused(p) ==
  /\ pc[p] = "claiming"
  /\ \E q \in Running : LeaseLive(q, read[p])
  /\ Leave(p)
  /\ UNCHANGED <<now, config, queued, row, latest, streak, probed>>

Claim(p) ==
  LET t == read[p]
      dead == {q \in Running : Expired(q, t)}
      c == Recovered(config, t, dead)
      failed == [q \in Pass |-> IF q \in dead THEN Closed(row[q]) ELSE row[q]]
      claimed == [status |-> "running", expires |-> t + LEASE_MS, probe |-> FALSE,
                  trigger |-> IF queued THEN "manual" ELSE "scheduled"] IN
  /\ pc[p] = "claiming"
  /\ \A q \in Running : ~LeaseLive(q, t)
  /\ config' = c
  /\ streak' = IF c = config THEN streak ELSE 0
  /\ probed' = (probed /\ c.until # 0)
  /\ \/ /\ Work(c, t)
        /\ row' = [failed EXCEPT ![p] = claimed]
        /\ queued' = FALSE
        /\ pc' = [pc EXCEPT ![p] = "claimed"]
        /\ UNCHANGED <<read, job>>
     \/ /\ ~Work(c, t)
        /\ row' = failed
        /\ Leave(p)
        /\ UNCHANGED queued
  /\ UNCHANGED <<now, latest>>

(* _prepare_batch_policy: the one probe is consumed before any network use. *)
IsProbe(p) ==
  /\ row[p].trigger = "scheduled"
  /\ RecoveryEligible(config, read[p], config.status)
  /\ RecoveryCredit(config) >= RECOVERY_SUCCESS_THRESHOLD

Prepare(p) ==
  LET keeps == /\ RecoveryCredit(config) > 0
               /\ RecoveryEligible(config, read[p], config.status)
               /\ row[p].trigger = "scheduled" IN
  /\ Step(p, "claimed", "prepared")
  /\ HoldsLease(p)
  /\ config' = IF IsProbe(p) THEN [ResetRecovery(config) EXCEPT !.attempted = TRUE]
               ELSE IF keeps THEN config ELSE ResetRecovery(config)
  /\ row' = [row EXCEPT ![p].probe = IsProbe(p)]
  /\ job' = [job EXCEPT ![p] =
       [@ EXCEPT !.limit = IF IsProbe(p) THEN MAX_ITEMS_PER_RUN
                           ELSE EffectiveItems(config, read[p]),
                 !.configured = config.maxItems]]
  /\ probed' = (probed \/ IsProbe(p))
  /\ UNCHANGED <<now, queued, read, latest, streak>>

(* _select_items and _save_plan: available is the number of enabled items.  *)
(* An empty plan ends the pass and keeps the session status it finds.        *)
Plan(p) ==
  /\ pc[p] = "prepared"
  /\ HoldsLease(p)
  /\ \E available \in 0 .. MAX_ITEMS_PER_RUN :
       LET n == Smaller(job[p].limit, available) IN
       \/ /\ n > 0
          /\ job' = [job EXCEPT ![p].expected = n]
          /\ pc' = [pc EXCEPT ![p] = "planned"]
          /\ UNCHANGED read
       \/ /\ n = 0
          /\ job' = [job EXCEPT ![p] = Ended(@, Outcome(config.status, "failed", "other"))]
          /\ pc' = [pc EXCEPT ![p] = "finishing"]
          /\ ReadClock(p)
  /\ UNCHANGED <<now, config, queued, row, latest, streak, probed>>

(* _select_bundle and the account lease: an account shared with other       *)
(* collectors caps a larger configured batch at the fallback size and the   *)
(* items are selected again.                                                 *)
Connect(p) ==
  /\ Step(p, "planned", "collecting")
  /\ HoldsLease(p)
  /\ \/ UNCHANGED job
     \/ /\ job[p].configured > FALLBACK_ITEMS_PER_RUN
        /\ \E available \in 0 .. MAX_ITEMS_PER_RUN :
             LET limit == Smaller(job[p].limit, FALLBACK_ITEMS_PER_RUN) IN
             job' = [job EXCEPT ![p] = [@ EXCEPT !.shared = TRUE, !.limit = limit,
                                                 !.expected = Smaller(limit, available)]]
  /\ UNCHANGED <<now, config, queued, row, read, latest, streak, probed>>

(* before_rpc, for an item of the plan or an authentication call: the clock *)
(* is read, then the row's lease is renewed under that reading.  A plan that *)
(* was emptied when the items were selected again asks for nothing.          *)
Attempted(p) == job[p].success + job[p].failure

BeforeRpc(p) ==
  /\ Step(p, "collecting", "beating")
  /\ Attempted(p) < job[p].expected
  /\ ReadClock(p)
  /\ UNCHANGED <<now, config, queued, row, job, latest, streak, probed>>

Heartbeat(p) ==
  /\ Step(p, "beating", "asking")
  /\ HoldsLease(p)
  /\ Renew(p)
  /\ UNCHANGED <<now, config, queued, read, job, latest, streak, probed>>

(* The answer to an authentication call, or to an item query, which is      *)
(* stamped with the clock before it is recorded.                             *)
Answer(p) ==
  /\ pc[p] = "asking"
  /\ \/ /\ Attempted(p) = 0
        /\ pc' = [pc EXCEPT ![p] = "collecting"]
        /\ UNCHANGED read
     \/ /\ pc' = [pc EXCEPT ![p] = "saving"]
        /\ ReadClock(p)
  /\ UNCHANGED <<now, config, queued, row, job, latest, streak, probed>>

BadSaveQuote(p) ==
  /\ Step(p, "saving", "collecting")
  /\ latest' = read[p]
  /\ job' = [job EXCEPT ![p].success = @ + 1]
  /\ UNCHANGED <<now, config, queued, row, read, streak, probed>>
SaveQuote(p) ==
  /\ Step(p, "saving", "collecting")
  /\ HoldsLease(p)
  /\ latest' = read[p]
  /\ job' = [job EXCEPT ![p].success = @ + 1]
  /\ Renew(p)
  /\ UNCHANGED <<now, config, queued, read, streak, probed>>

(* An item failed and the pass goes on, or the connection is lost and the   *)
(* try block ends; a network error also marks the session.                   *)
Some(p) == IF job[p].success > 0 THEN "partial" ELSE "failed"
Failed(j, error) == [j EXCEPT !.failure = @ + 1, !.error = error]

RecordFailure(p) ==
  /\ pc[p] = "saving"
  /\ HoldsLease(p)
  /\ Renew(p)
  /\ \/ /\ job' = [job EXCEPT ![p] = Failed(@, "other")]
        /\ pc' = [pc EXCEPT ![p] = "collecting"]
        /\ UNCHANGED read
     \/ /\ \E error \in {"other", "network_error"} :
             LET session == IF error = "other" /\ Some(p) = "partial" THEN job[p].session
                            ELSE "error" IN
             job' = [job EXCEPT ![p] = Ended(Failed(@, error), Outcome(session, Some(p), error))]
        /\ pc' = [pc EXCEPT ![p] = "finishing"]
        /\ ReadClock(p)
  /\ UNCHANGED <<now, config, queued, latest, streak, probed>>

Complete(j) == j.success = j.expected /\ j.failure = 0 /\ j.error = ""

(* The whole plan was tried: a ready session that gained nothing is in error. *)
EndOfList(p) ==
  LET ended == IF Complete(job[p]) THEN "succeeded" ELSE Some(p)
      session == IF ended = "failed" THEN "error" ELSE job[p].session IN
  /\ Step(p, "collecting", "finishing")
  /\ Attempted(p) = job[p].expected
  /\ job' = [job EXCEPT ![p] = Ended(@, Outcome(session, ended, job[p].error))]
  /\ ReadClock(p)
  /\ UNCHANGED <<now, config, queued, row, latest, streak, probed>>

(* The except clauses of collect_due: the session status, the run status    *)
(* and the error code each kind of exception leaves.                         *)
Outcomes(p) ==
  { Outcome("needs_auth", "needs_auth", "other"),
    Outcome("cooldown", "rate_limited", "other"),
    Outcome("blocked", "failed", "other"),
    Outcome("blocked", Some(p), "other"),
    Outcome(IF Some(p) = "failed" THEN "error" ELSE job[p].session, Some(p), "other") }
  \cup { Outcome("error", Some(p), error) : error \in Errors }

Interrupt(p) ==
  /\ pc[p] \in {"planned", "collecting", "asking"}
  /\ pc' = [pc EXCEPT ![p] = "finishing"]
  /\ \E o \in Outcomes(p) :
       job' = [job EXCEPT ![p] = Ended(@, o)]
  /\ ReadClock(p)
  /\ UNCHANGED <<now, config, queued, row, latest, streak, probed>>

(* The rate, capacity and fallback parts of _finish_run, in its order.      *)
(* Counters are kept only as far as a comparison can tell them apart.  An    *)
(* account pause of the coordinator can only lengthen the rate cooldown.     *)
AfterRate(c, j, t, retry) ==
  IF j.status = "rate_limited"
  THEN [c EXCEPT !.rateFailures = Smaller(@ + 1, 3),
                 !.cooldown = Later(t + RateCooldown(c.rateFailures + 1), retry)]
  ELSE IF j.status = "succeeded" THEN [c EXCEPT !.rateFailures = 0, !.cooldown = 0]
  ELSE c

AfterCapacity(c, j) ==
  [c EXCEPT !.capacity = IF j.error \in CapacityErrors
                         THEN Smaller(@ + 1, CAPACITY_FAILURE_THRESHOLD) ELSE 0]

FallbackReason(c, j) ==
  IF j.error = "runtime_budget" THEN "runtime_budget"
  ELSE IF c.capacity >= CAPACITY_FAILURE_THRESHOLD THEN j.error
  ELSE IF j.shared THEN "shared_budget" ELSE ""

FullProbe(j) ==
  /\ j.status = "succeeded" /\ j.session = "ready" /\ j.limit = MAX_ITEMS_PER_RUN
  /\ j.expected = MAX_ITEMS_PER_RUN /\ Complete(j) /\ ~j.shared

BadFailedProbe(c, t, reason) == Protect(ClearFallback(c), t, reason)
FailedProbe(c, t, reason) ==
  Protect([ResetRecovery(c) EXCEPT !.attempted = TRUE], t, reason)

AfterFallback(c, j, t, probe) ==
  LET reason == FallbackReason(c, j) IN
  IF probe /\ FullProbe(j) THEN ClearFallback(c)
  ELSE IF probe THEN FailedProbe(c, t, IF reason # "" THEN reason
                                       ELSE IF j.error # "" THEN j.error ELSE "other")
  ELSE IF reason # "" THEN Protect(c, t, reason)
  ELSE IF c.until # 0 /\ c.until <= t THEN ClearFallback(c)
  ELSE c

(* A complete scheduled batch of exactly the fallback size, unconstrained   *)
(* by a shared account, while the protection can still be earned away.       *)
Healthy(c, p, t) ==
  LET j == job[p] IN
  /\ row[p].trigger = "scheduled" /\ j.status = "succeeded"
  /\ j.limit = FALLBACK_ITEMS_PER_RUN /\ j.expected = FALLBACK_ITEMS_PER_RUN
  /\ Complete(j) /\ ~j.shared /\ RecoveryEligible(c, t, j.session)

AfterRecovery(c, p, t) ==
  IF row[p].probe THEN c
  ELSE IF Healthy(c, p, t)
  THEN [c EXCEPT !.credit = Smaller(RecoveryCredit(c) + 1, RECOVERY_SUCCESS_THRESHOLD),
                 !.creditAt = t]
  ELSE ResetRecovery(c)

(* A stopped session has no due time, unless the plan was empty.            *)
Scheduled(c, j, t) ==
  LET next == IF j.session \in Stopped /\ j.expected > 0 THEN 0 ELSE t + INTERVAL_MS IN
  IF j.status = "rate_limited" THEN Later(next, c.cooldown) ELSE next

Finish(p) ==
  \E retry \in IF job[p].status = "rate_limited" THEN {0, read[p] + 3 * RATE_STEP_MS} ELSE {0} :
    LET t == read[p]
        j == job[p]
        charged == AfterCapacity(AfterRate(config, j, t, retry), j)
        protected == AfterFallback(charged, j, t, row[p].probe)
        c == AfterRecovery(protected, p, t) IN
    /\ pc[p] = "finishing"
    /\ HoldsLease(p)
    /\ config' = [c EXCEPT !.status = j.session, !.updated = t, !.due = Scheduled(c, j, t)]
    /\ row' = [row EXCEPT ![p] = Closed(@)]
    /\ streak' = IF ~row[p].probe /\ Healthy(protected, p, t) THEN Smaller(streak + 1, RECOVERY_SUCCESS_THRESHOLD) ELSE 0
    /\ probed' = (probed /\ c.until # 0)
    /\ Leave(p)
    /\ UNCHANGED <<now, queued, latest>>

(* LeaseLost: the pass stops without a write.                                *)
LeaseLost(p) ==
  /\ pc[p] \in {"claimed", "prepared", "planned", "beating", "saving", "finishing"}
  /\ ~HoldsLease(p)
  /\ Leave(p)
  /\ UNCHANGED <<now, config, queued, row, latest, streak, probed>>

(* The process dies; its row stays running until its lease has expired.     *)
Crash(p) ==
  /\ pc[p] \notin {"idle", "claiming"}
  /\ Leave(p)
  /\ UNCHANGED <<now, config, queued, row, latest, streak, probed>>

(***************************************************************************)
(* Administrators and the clock.  The model's clock is coarser than the    *)
(* code's: two writes of the row never share a millisecond.                *)
(***************************************************************************)
EnqueueManual ==
  /\ ~queued
  /\ ~\E p \in Running : row[p].expires > now
  /\ queued' = TRUE
  /\ UNCHANGED <<now, config, row, pc, read, job, latest, streak, probed>>

(* PATCH of max_items_per_run: clears the fallback even at the same value,  *)
(* and writes only when the audited fields changed.                          *)
PatchCapacity(n) ==
  LET c == [config EXCEPT !.maxItems = n, !.until = 0, !.reason = "", !.capacity = 0] IN
  /\ now > config.updated /\ now \in EditTimes
  /\ c # config
  /\ config' = [c EXCEPT !.updated = now]
  /\ streak' = 0
  /\ probed' = FALSE
  /\ UNCHANGED <<now, queued, row, pc, read, job, latest>>

(* PATCH of the switch, of the interval, or of both: the fallback stays.    *)
PatchSchedule(on) ==
  /\ now > config.updated /\ now \in EditTimes
  /\ config' = [config EXCEPT !.enabled = on, !.updated = now]
  /\ streak' = 0
  /\ UNCHANGED <<now, queued, row, pc, read, job, latest, probed>>

Tick ==
  /\ now < MaxTime
  /\ now' = now + 1
  /\ UNCHANGED <<config, queued, row, pc, read, job, latest, streak, probed>>

PassStep(p) ==
  \/ StartPass(p) \/ ClaimRefused(p) \/ Claim(p) \/ Prepare(p) \/ Plan(p) \/ Connect(p)
  \/ BeforeRpc(p) \/ Heartbeat(p) \/ Answer(p) \/ SaveQuote(p) \/ RecordFailure(p) \/ EndOfList(p) \/ Interrupt(p)
  \/ Finish(p) \/ LeaseLost(p) \/ Crash(p)

Next ==
  \/ \E p \in Pass : PassStep(p)
  \/ EnqueueManual
  \/ \E n \in {FALLBACK_ITEMS_PER_RUN, MAX_ITEMS_PER_RUN} : PatchCapacity(n)
  \/ \E on \in BOOLEAN : PatchSchedule(on)
  \/ Tick

Spec == Init /\ [][Next]_vars

(***************************************************************************)
(* Properties                                                              *)
(***************************************************************************)
(* Two passes are never both recorded as running: the filter that turns a   *)
(* pass away and the filter that fails dead rows leave no row between them   *)
(* (_claim_run, worker.py 113-137); and the types.                           *)
AtMostOneRunning == \A p, q \in Running : p = q
RunsSound == TypeOK /\ AtMostOneRunning

(* A pass that was superseded while it waited for the game cannot put its   *)
(* older observation over a newer one: prices are written in the order they *)
(* were observed, of whatever item (_check_lease inside _save_quote).        *)
PricesMoveForward == [][latest' >= latest]_vars

(* No RPC is authorised during a rate cooldown, whether the pass is a       *)
(* scheduled one, a manual one or a superseded one that was waiting (docs/   *)
(* market-session-rotation.md 42-43: manual jobs cannot bypass it).          *)
NoRpcInCooldown ==
  [][\A p \in Pass : pc[p] = "beating" /\ pc'[p] = "asking" => ~InCooldown(config, now)]_vars

(* While a fallback is in force, whoever raised it, the pass that still     *)
(* holds a lease works on a reduced batch unless it is the probe.            *)
ReducedWhileProtected ==
  \A p \in Running :
    /\ pc[p] \in Places \ {"idle", "claimed"}
    /\ InFallback(config, now)
    => job[p].limit <= FALLBACK_ITEMS_PER_RUN \/ row[p].probe

(* A session stopped by a refusal stays stopped until a manual run ends:    *)
(* no scheduled pass, late finish or edit lifts it.                          *)
OnlyManualRunLiftsStop ==
  [][config.status \in Stopped /\ config'.status \notin Stopped
     => \E p \in Running : row'[p].status = "none" /\ row[p].trigger = "manual"]_vars

BecomesProbe(p) == ~row[p].probe /\ row'[p].probe

(* A probe of the full batch follows that many complete reduced scheduled   *)
(* passes in a row, with no other pass, edit or fallback change between      *)
(* them (docs/market-prices.md 36).                                          *)
ProbeIsEarned ==
  [][\A p \in Pass : BecomesProbe(p) => streak >= RECOVERY_SUCCESS_THRESHOLD]_vars

(* A protected period gets one probe, however the first one ended: failed,  *)
(* truncated, crashed or superseded (docs/market-prices.md 36).              *)
OneProbePerProtection == [][\A p \in Pass : BecomesProbe(p) => ~probed]_vars

(* The promise about the reduced batch, kept by the config row and the run   *)
(* rows as they are, without the histories: a protection ends by expiry, by   *)
(* a successful full batch or by the administrator; the full batch is earned  *)
(* and not given back, whichever passes crash, overlap or finish late         *)
(* (_claim_run, _prepare_batch_policy and _finish_run of worker.py).          *)
OnRecord ==
  IF \E p \in Running : row[p].probe THEN "probe"
  ELSE IF Running # {} THEN "open" ELSE "none"
Collected ==
  IF Running = {} THEN 0 ELSE job[CHOOSE p \in Running : TRUE].success

Protection == INSTANCE BatchProtection WITH
  clock <- now, until <- config.until, transient <- config.reason \in Recoverable,
  credit <- RecoveryCredit(config), spent <- config.attempted,
  pass <- OnRecord, collected <- Collected

KeepsProtection == Protection!Spec

(* docs/market-session-rotation.md 59-60, of a manual verification after a  *)
(* refusal: "a failed verification stops again".  It does not: a network     *)
(* failure leaves the status error and a due time.                           *)
FailedVerificationStops ==
  [][\A p \in Running :
       /\ config.status \in Stopped
       /\ pc[p] = "finishing" /\ row'[p].status = "none" /\ HoldsLease(p)
       /\ job[p].status \in {"failed", "partial"}
       => config'.status \in Stopped]_vars
=============================================================================
