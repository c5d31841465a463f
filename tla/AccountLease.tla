---------------------------- MODULE AccountLease ----------------------------
(***************************************************************************)
(* The shared game-account coordinator of                                  *)
(* backend/GameSessions/coordination.py: one SQLite file through which the *)
(* Market, Killboard and Anomaly collectors, separate processes on one     *)
(* host, share game accounts.  A run (one AccountLease object, identified  *)
(* by its fresh uuid `owner`) enters the lease of an account, asks         *)
(* before_rpc for permission before every game RPC, records the rejections *)
(* the game answers, and exits.                                            *)
(*                                                                         *)
(* Every `with self.transaction()` block is one atomic step (BEGIN         *)
(* IMMEDIATE ... commit, rolled back when the block raises).  The clock,   *)
(* however, is read BEFORE the transaction by __enter__, before_rpc and    *)
(* pause_rate: the reading is a separate step, and the transaction works   *)
(* with a value other processes may have made stale.                       *)
(***************************************************************************)
EXTENDS Integers, Sequences

CONSTANTS
  Account,            \* account references mapped to the coordinator file
  Run,                \* AccountLease objects: one per collector pass
  Nobody,             \* owner = '' in the accounts table
  LEASE_MS,           \* lifetime of a lease
  WINDOW_MS,          \* length of an RPC accounting window
  MAX_ACCOUNT_RPCS,   \* RPCs permitted in one window
  RPC_INTERVAL_MS,    \* minimum distance of two RPCs
  RATE_STEP_MS,       \* first rate cooldown (15 minutes)
  MaxTime             \* bound of the model: the clock stops here

ASSUME RunAssumption == Nobody \notin Run
ASSUME TimeAssumption ==
  /\ LEASE_MS \in Nat \ {0}
  /\ WINDOW_MS \in Nat \ {0}
  /\ MAX_ACCOUNT_RPCS \in Nat \ {0}
  /\ RPC_INTERVAL_MS \in Nat \ {0}
  /\ RATE_STEP_MS \in Nat \ {0}
  /\ MaxTime \in Nat

VARIABLES
  now,                                  \* the host's clock
  owner, expires, nextRpc,              \* the accounts table, a column each
  window, count, authPaused, servicePaused,
  cooldown, failures,                   \* the policy row
  pc,                                   \* where each run is
  ref,                                  \* self.account_ref
  read,                                 \* the run's last clock reading
  wake,                                 \* when its sleep ends
  term,                                 \* history: last expiry granted to it
  rpcs                                  \* history: times RPCs were charged

accounts == <<owner, expires, nextRpc, window, count, authPaused, servicePaused>>
policy == <<cooldown, failures>>
run == <<pc, ref, read, wake, term>>
vars == <<now, accounts, policy, run, rpcs>>

Later(x, y) == IF x < y THEN y ELSE x

(* Places of a run between a successful __enter__ and the end of __exit__. *)
Holding == {"held", "pacing", "sleeping", "sending", "authDenied",
            "serviceDenied", "rateLimited", "cooling", "unwinding"}
Place == Holding \cup {"idle", "entering", "gone"}

TypeOK ==
  /\ now \in Nat
  /\ owner \in [Account -> Run \cup {Nobody}]
  /\ expires \in [Account -> Nat]
  /\ nextRpc \in [Account -> Nat]
  /\ window \in [Account -> Nat]
  /\ count \in [Account -> Nat]
  /\ authPaused \in [Account -> BOOLEAN]
  /\ servicePaused \in [Account -> BOOLEAN]
  /\ cooldown \in Nat
  /\ failures \in Nat
  /\ pc \in [Run -> Place]
  /\ ref \in [Run -> Account]
  /\ read \in [Run -> Nat]
  /\ wake \in [Run -> Nat]
  /\ term \in [Run -> Nat]
  /\ rpcs \in [Account -> Seq(Nat)]

(* The table starts with its column defaults; the clock, milliseconds since *)
(* 1970, is past the window that would have started at 0.                   *)
Init ==
  /\ now = WINDOW_MS
  /\ owner = [a \in Account |-> Nobody]
  /\ expires = [a \in Account |-> 0]
  /\ nextRpc = [a \in Account |-> 0]
  /\ window = [a \in Account |-> 0]
  /\ count = [a \in Account |-> 0]
  /\ authPaused = [a \in Account |-> FALSE]
  /\ servicePaused = [a \in Account |-> FALSE]
  /\ cooldown = 0
  /\ failures = 0
  /\ pc = [r \in Run |-> "idle"]
  /\ ref \in [Run -> Account]
  /\ read = [r \in Run |-> 0]
  /\ wake = [r \in Run |-> 0]
  /\ term = [r \in Run |-> 0]
  /\ rpcs = [a \in Account |-> <<>>]

(***************************************************************************)
(* Helpers.  An operator named Bad... is a plausible mistake in the one    *)
(* after it, used only to show that a property notices the mistake.        *)
(***************************************************************************)
Step(r, from, to) == pc[r] = from /\ pc' = [pc EXCEPT ![r] = to]
ReadClock(r) == read' = [read EXCEPT ![r] = now]

(* The test made by __enter__ and resume: nobody holds the account at t. *)
Free(a, t) == owner[a] = Nobody \/ expires[a] <= t

(* The row names run r; _owned also wants the lease alive at time t. *)
BadOwnsRow(r) == owner[ref[r]] # Nobody
OwnsRow(r) == owner[ref[r]] = r
BadOwned(r, t) == expires[ref[r]] > t
Owned(r, t) == OwnsRow(r) /\ expires[ref[r]] > t

(* How long before_rpc sleeps, when the next slot starts, what a window     *)
(* still allows, and what a completed pass leaves of the failure history.    *)
BadDelay(r) == nextRpc[ref[r]] - read[r] - 1
Delay(r) == nextRpc[ref[r]] - read[r]
BadNextSlot(r) == nextRpc[ref[r]] + RPC_INTERVAL_MS
NextSlot(r) == read[r] + RPC_INTERVAL_MS
BadWithinBudget(n) == n <= MAX_ACCOUNT_RPCS
WithinBudget(n) == n < MAX_ACCOUNT_RPCS
BadForgivenEarly(t) == 0
Forgiven(t) == IF cooldown <= t THEN 0 ELSE failures

(* min(60, 15 * 2 ** min(f - 1, 2)) minutes: 15, 30, then always 60. *)
Backoff(f) == IF f = 1 THEN RATE_STEP_MS
              ELSE IF f = 2 THEN 2 * RATE_STEP_MS ELSE 4 * RATE_STEP_MS

(***************************************************************************)
(* A run                                                                   *)
(***************************************************************************)
OpenLease(r) ==
  /\ Step(r, "idle", "entering")
  /\ ReadClock(r)
  /\ UNCHANGED <<now, accounts, policy, ref, wake, term, rpcs>>

Enter(r) ==
  LET a == ref[r] IN
  /\ Step(r, "entering", "held")
  /\ cooldown <= read[r]
  /\ ~authPaused[a]
  /\ ~servicePaused[a]
  /\ Free(a, read[r])
  /\ owner' = [owner EXCEPT ![a] = r]
  /\ expires' = [expires EXCEPT ![a] = read[r] + LEASE_MS]
  /\ term' = [term EXCEPT ![r] = read[r] + LEASE_MS]
  /\ UNCHANGED <<now, nextRpc, window, count, authPaused, servicePaused,
                 policy, ref, read, wake, rpcs>>

(* __enter__ raised: cooldown, pause, a live owner, or the file was locked  *)
(* or unusable.  Nothing was acquired, so __exit__ has nothing to do.       *)
EnterRaises(r) ==
  /\ Step(r, "entering", "gone")
  /\ UNCHANGED <<now, accounts, policy, ref, read, wake, term, rpcs>>

AskRpc(r) ==
  /\ Step(r, "held", "pacing")
  /\ ReadClock(r)
  /\ UNCHANGED <<now, accounts, policy, ref, wake, term, rpcs>>

(* The tests before_rpc makes before it looks at the pace. *)
MayProceed(r) ==
  /\ Owned(r, read[r])
  /\ cooldown <= read[r]
  /\ ~authPaused[ref[r]]
  /\ ~servicePaused[ref[r]]

WindowOver(a, t) == t >= window[a] + WINDOW_MS

ChargeRpc(r) ==
  LET a == ref[r]
      spent == IF WindowOver(a, read[r]) THEN 0 ELSE count[a] IN
  /\ Step(r, "pacing", "sending")
  /\ MayProceed(r)
  /\ nextRpc[a] <= read[r]
  /\ WithinBudget(spent)
  /\ window' = [window EXCEPT ![a] = IF WindowOver(a, read[r]) THEN read[r] ELSE @]
  /\ count' = [count EXCEPT ![a] = spent + 1]
  /\ nextRpc' = [nextRpc EXCEPT ![a] = NextSlot(r)]
  /\ expires' = [expires EXCEPT ![a] = read[r] + LEASE_MS]
  /\ term' = [term EXCEPT ![r] = read[r] + LEASE_MS]
  /\ rpcs' = [rpcs EXCEPT ![a] = Append(@, read[r])]
  /\ UNCHANGED <<now, owner, authPaused, servicePaused, policy, ref, read, wake>>

(* Too early: the transaction ends without a write and the run sleeps. *)
DelayRpc(r) ==
  /\ Step(r, "pacing", "sleeping")
  /\ MayProceed(r)
  /\ nextRpc[ref[r]] > read[r]
  /\ wake' = [wake EXCEPT ![r] = now + Delay(r)]
  /\ UNCHANGED <<now, accounts, policy, ref, read, term, rpcs>>

WakeUp(r) ==
  /\ Step(r, "sleeping", "pacing")
  /\ now >= wake[r]
  /\ ReadClock(r)
  /\ UNCHANGED <<now, accounts, policy, ref, wake, term, rpcs>>

(* The RPC is on the wire and the game answers: normally, or with one of    *)
(* the rejections of GameSessions/rejections.py, or the transport fails.    *)
SendRpc(r) ==
  /\ pc[r] = "sending"
  /\ \E answer \in {"held", "authDenied", "serviceDenied", "rateLimited", "unwinding"} :
       pc' = [pc EXCEPT ![r] = answer]
  /\ UNCHANGED <<now, accounts, policy, ref, read, wake, term, rpcs>>

PauseAuth(r) ==
  /\ Step(r, "authDenied", "unwinding")
  /\ Owned(r, now)
  /\ authPaused' = [authPaused EXCEPT ![ref[r]] = TRUE]
  /\ UNCHANGED <<now, owner, expires, nextRpc, window, count, servicePaused,
                 policy, ref, read, wake, term, rpcs>>

PauseService(r) ==
  /\ Step(r, "serviceDenied", "unwinding")
  /\ Owned(r, now)
  /\ servicePaused' = [servicePaused EXCEPT ![ref[r]] = TRUE]
  /\ UNCHANGED <<now, owner, expires, nextRpc, window, count, authPaused,
                 policy, ref, read, wake, term, rpcs>>

BeginPauseRate(r) ==
  /\ Step(r, "rateLimited", "cooling")
  /\ ReadClock(r)
  /\ UNCHANGED <<now, accounts, policy, ref, wake, term, rpcs>>

PauseRate(r) ==
  /\ Step(r, "cooling", "unwinding")
  /\ Owned(r, read[r])
  /\ failures' = failures + 1
  /\ cooldown' = Later(cooldown, read[r] + Backoff(failures + 1))
  /\ UNCHANGED <<now, accounts, ref, read, wake, term, rpcs>>

(* A complete pass: a rate history that has aged out is forgotten. *)
Complete(r) ==
  /\ Step(r, "held", "unwinding")
  /\ Owned(r, now)
  /\ failures' = Forgiven(now)
  /\ UNCHANGED <<now, accounts, cooldown, ref, read, wake, term, rpcs>>

(* Leaving the with-block early: the collector gave up, or one of the      *)
(* transactions above raised (a refusal, a lost lease, a locked or         *)
(* unusable file) and was rolled back.                                     *)
Unwind(r) ==
  /\ pc[r] \in {"held", "pacing", "authDenied", "serviceDenied", "cooling"}
  /\ pc' = [pc EXCEPT ![r] = "unwinding"]
  /\ UNCHANGED <<now, accounts, policy, ref, read, wake, term, rpcs>>

Release(r) ==
  LET a == ref[r] IN
  /\ Step(r, "unwinding", "gone")
  /\ IF OwnsRow(r)
     THEN /\ owner' = [owner EXCEPT ![a] = Nobody]
          /\ expires' = [expires EXCEPT ![a] = 0]
     ELSE UNCHANGED <<owner, expires>>
  /\ UNCHANGED <<now, nextRpc, window, count, authPaused, servicePaused,
                 policy, ref, read, wake, term, rpcs>>

(* The release failed, or the process died anywhere: the row keeps the     *)
(* lease until it expires.                                                 *)
Crash(r) ==
  /\ pc[r] \notin {"idle", "gone"}
  /\ pc' = [pc EXCEPT ![r] = "gone"]
  /\ UNCHANGED <<now, accounts, policy, ref, read, wake, term, rpcs>>

(***************************************************************************)
(* The operator and the clock                                              *)
(***************************************************************************)
Resume(a, auth, service) ==
  /\ auth \/ service
  /\ Free(a, now)
  /\ authPaused' = [authPaused EXCEPT ![a] = @ /\ ~auth]
  /\ servicePaused' = [servicePaused EXCEPT ![a] = @ /\ ~service]
  /\ UNCHANGED <<now, owner, expires, nextRpc, window, count, policy, run, rpcs>>

Tick ==
  /\ now < MaxTime
  /\ now' = now + 1
  /\ UNCHANGED <<accounts, policy, run, rpcs>>

RunStep(r) ==
  \/ OpenLease(r) \/ Enter(r) \/ EnterRaises(r)
  \/ AskRpc(r) \/ ChargeRpc(r) \/ DelayRpc(r) \/ WakeUp(r) \/ SendRpc(r)
  \/ PauseAuth(r) \/ PauseService(r) \/ BeginPauseRate(r) \/ PauseRate(r)
  \/ Complete(r) \/ Unwind(r) \/ Release(r) \/ Crash(r)

Next ==
  \/ \E r \in Run : RunStep(r)
  \/ \E a \in Account, auth, service \in BOOLEAN : Resume(a, auth, service)
  \/ Tick

Spec == Init /\ [][Next]_vars

(***************************************************************************)
(* Properties                                                              *)
(***************************************************************************)
(* Run r is inside its with-block and the expiry it was last granted has    *)
(* not passed: it is entitled to act on its account.                        *)
Entitled(r) == pc[r] \in Holding /\ now < term[r]

(* Two runs are never entitled to one account together: however late a      *)
(* clock reading is used, whoever crashes, and whoever exits after having    *)
(* been superseded, __enter__ hands the account on only after the previous   *)
(* holder's term (coordination.py 180-213).                                  *)
MutualExclusion ==
  \A r, s \in Run : r # s /\ ref[r] = ref[s] => ~(Entitled(r) /\ Entitled(s))

(* An entitled run about to send never sends on an account that is paused:  *)
(* only the holder may pause it, and the pauses outlive every restart and    *)
(* every other collector until the operator resumes the account.             *)
NoEntitledRpcWhilePaused ==
  \A r \in Run : pc[r] = "sending" /\ Entitled(r) =>
    ~authPaused[ref[r]] /\ ~servicePaused[ref[r]]

(* Consecutive charges of one account are a full interval apart, whichever  *)
(* runs made them and whatever crashed between them; and the types.          *)
RpcSpacing ==
  \A a \in Account : \A i \in 1 .. Len(rpcs[a]) - 1 :
    rpcs[a][i + 1] - rpcs[a][i] >= RPC_INTERVAL_MS
LedgerSound == TypeOK /\ RpcSpacing

(* No stretch of the length span, wherever it starts, sees n charges of s. *)
FewerThan(n, span, s) ==
  \A i \in 1 .. Len(s) - n + 1 : s[i + n - 1] - s[i] >= span

(* What the tumbling window guarantees: a window opens with a charge, so a  *)
(* stretch of k windows' length, wherever it starts, sees fewer than k + 1   *)
(* full windows' worth of RPCs on one account, across runs, collectors,      *)
(* crashes and stale clocks (coordination.py 228-238).                       *)
SpanBudget ==
  \A a \in Account : \A k \in 1 .. Len(rpcs[a]) :
    FewerThan((k + 1) * MAX_ACCOUNT_RPCS, k * WINDOW_MS, rpcs[a])

(* What docs/market-session-rotation.md:86 says: at most MAX_ACCOUNT_RPCS   *)
(* "total RPCs per account per five minutes".  The code restarts the count   *)
(* at a window boundary, so this one is violated.                            *)
FiveMinuteCeiling ==
  \A a \in Account : FewerThan(MAX_ACCOUNT_RPCS + 1, WINDOW_MS, rpcs[a])

(* The pacing loop of before_rpc sleeps at most once per RPC: when the run  *)
(* that slept still owns the account, its slot has come when it wakes.       *)
OneSleepSuffices ==
  \A r \in Run : pc[r] = "sleeping" /\ owner[ref[r]] = r => nextRpc[ref[r]] <= wake[r]

(* A rate rejection reported by one account holds back every account: the   *)
(* cooldown never moves earlier, and while it lasts no run, not even one     *)
(* that read the clock before, charges an RPC and no completed pass of       *)
(* another account forgets the failure history.                              *)
CooldownHoldsForAll ==
  [][/\ cooldown' >= cooldown
     /\ cooldown > now => rpcs' = rpcs /\ failures' >= failures]_vars
=============================================================================
