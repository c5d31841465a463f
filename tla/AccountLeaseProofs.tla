------------------------- MODULE AccountLeaseProofs -------------------------
(***************************************************************************)
(* The account coordinator is safe for every set of accounts and runs and  *)
(* every lease, window and interval length.                                *)
(*                                                                         *)
(* The argument.  A clock reading is never ahead of the clock              *)
(* (ReadInPast).  A run inside its with-block either owns its row, and     *)
(* then the row's expiry is the term it was granted, or it has been        *)
(* superseded, and then that term has passed (TermInv): the row is handed  *)
(* on only when it is free at a reading that is already in the past.       *)
(* Whatever needs the row - charging an RPC, pausing - is therefore done   *)
(* by the one run whose term may still be running.                         *)
(***************************************************************************)
EXTENDS AccountLease, SequenceTheorems, TLAPS

ReadInPast == \A r \in Run : read[r] <= now

TermInv ==
  \A r \in Run : pc[r] \in Holding =>
    IF owner[ref[r]] = r THEN expires[ref[r]] = term[r] ELSE term[r] <= now

(* An RPC is authorised under a row nobody but its owner can pause. *)
SendInv ==
  \A r \in Run : pc[r] = "sending" /\ owner[ref[r]] = r =>
    ~authPaused[ref[r]] /\ ~servicePaused[ref[r]]

(* The last charge put the next one an interval away. *)
LastCharge ==
  \A a \in Account : rpcs[a] # <<>> =>
    rpcs[a][Len(rpcs[a])] + RPC_INTERVAL_MS <= nextRpc[a]

(* Charges are recorded in the order of their times. *)
InOrder(s) == \A i, j \in 1 .. Len(s) : i <= j => s[i] <= s[j]
Sorted == \A a \in Account : InOrder(rpcs[a])

(* The clock is past the window that would have started at 0, and so is     *)
(* every reading a charge can be made with: the first charge of an account   *)
(* opens a window.                                                           *)
ClockStarted ==
  /\ now >= WINDOW_MS
  /\ \A r \in Run : pc[r] # "idle" => read[r] >= WINDOW_MS

(* An accounts row with count c and window w against the account's ledger   *)
(* s: c is the number of charges of the window, which opened with the first  *)
(* of them, and whoever looks back from there over k full windows' worth of  *)
(* charges looks back over k windows' length at least.                       *)
Windowed(s, c, w) ==
  /\ c <= MAX_ACCOUNT_RPCS /\ c <= Len(s)
  /\ c = 0 => Len(s) = 0 /\ w = 0
  /\ c > 0 => w = s[Len(s) - c + 1]
  /\ \A k \in Nat \ {0} : \A i \in 1 .. Len(s) - c - k * MAX_ACCOUNT_RPCS + 1 :
       s[i] + k * WINDOW_MS <= w
WindowInv == \A a \in Account : Windowed(rpcs[a], count[a], window[a])

(* SpanBudget of one ledger, for every number of windows. *)
Budgeted(s) ==
  \A k \in Nat \ {0} : FewerThan((k + 1) * MAX_ACCOUNT_RPCS, k * WINDOW_MS, s)
Budgets == \A a \in Account : Budgeted(rpcs[a])

IInv == TypeOK /\ ReadInPast /\ TermInv /\ SendInv /\ OneSleepSuffices
          /\ LastCharge /\ RpcSpacing /\ Sorted /\ ClockStarted /\ WindowInv
          /\ Budgets

-----------------------------------------------------------------------------
(* Every value a step writes has its type. *)
LEMMA TypeStep == TypeOK /\ [Next]_vars => TypeOK'
<1> SUFFICES ASSUME TypeOK, [Next]_vars PROVE TypeOK'
  OBVIOUS
<1> USE TimeAssumption DEF TypeOK, Place, Holding, Step, ReadClock, accounts, policy, run
<1>1. ASSUME NEW r \in Run, OpenLease(r) \/ EnterRaises(r) \/ AskRpc(r) \/ WakeUp(r)
      PROVE TypeOK'
  <2>1. CASE OpenLease(r)
    BY <2>1 DEF OpenLease
  <2>2. CASE EnterRaises(r)
    BY <2>2 DEF EnterRaises
  <2>3. CASE AskRpc(r)
    BY <2>3 DEF AskRpc
  <2>4. CASE WakeUp(r)
    BY <2>4 DEF WakeUp
  <2> QED
    BY <1>1, <2>1, <2>2, <2>3, <2>4
<1>2. ASSUME NEW r \in Run, Enter(r) PROVE TypeOK'
  <2>1. read[r] + LEASE_MS \in Nat /\ ref[r] \in Account
    OBVIOUS
  <2>2. owner' \in [Account -> Run \cup {Nobody}]
    BY <1>2, <2>1 DEF Enter
  <2>3. expires' \in [Account -> Nat] /\ term' \in [Run -> Nat]
    BY <1>2, <2>1 DEF Enter
  <2>4. pc' \in [Run -> Place]
    BY <1>2 DEF Enter
  <2>5. QED
    BY <1>2, <2>2, <2>3, <2>4 DEF Enter
<1>3. ASSUME NEW r \in Run, ChargeRpc(r) PROVE TypeOK'
  <2>1. /\ rpcs[ref[r]] \in Seq(Nat) /\ read[r] \in Nat /\ ref[r] \in Account
        /\ rpcs' = [rpcs EXCEPT ![ref[r]] = Append(rpcs[ref[r]], read[r])]
    BY <1>3 DEF ChargeRpc, NextSlot, WithinBudget
  <2>2. Append(rpcs[ref[r]], read[r]) \in Seq(Nat)
    BY <2>1
  <2>3. rpcs' \in [Account -> Seq(Nat)]
    BY <2>1, <2>2
  <2>4. window' \in [Account -> Nat] /\ count' \in [Account -> Nat]
    <3>1. /\ (IF WindowOver(ref[r], read[r]) THEN read[r] ELSE window[ref[r]]) \in Nat
          /\ (IF WindowOver(ref[r], read[r]) THEN 0 ELSE count[ref[r]]) + 1 \in Nat
      BY <2>1
    <3>2. QED
      BY <1>3, <3>1 DEF ChargeRpc, NextSlot, WithinBudget
  <2>5. /\ nextRpc' \in [Account -> Nat] /\ expires' \in [Account -> Nat]
        /\ term' \in [Run -> Nat]
    <3>1. read[r] + RPC_INTERVAL_MS \in Nat /\ read[r] + LEASE_MS \in Nat
      BY <2>1
    <3>2. QED
      BY <1>3, <3>1 DEF ChargeRpc, NextSlot, WithinBudget
  <2>6. pc' \in [Run -> Place]
    BY <1>3 DEF ChargeRpc, NextSlot, WithinBudget
  <2>7. QED
    BY <1>3, <2>3, <2>4, <2>5, <2>6 DEF ChargeRpc, NextSlot, WithinBudget
<1>4. ASSUME NEW r \in Run, DelayRpc(r) PROVE TypeOK'
  <2>1. now + (nextRpc[ref[r]] - read[r]) \in Nat
    <3>1. nextRpc[ref[r]] \in Nat /\ read[r] \in Nat /\ nextRpc[ref[r]] > read[r]
      BY <1>4 DEF DelayRpc, Delay
    <3>2. QED
      BY <3>1
  <2>2. QED
    BY <1>4, <2>1 DEF DelayRpc, Delay
<1>5. ASSUME NEW r \in Run,
             SendRpc(r) \/ PauseAuth(r) \/ PauseService(r) \/ BeginPauseRate(r)
      PROVE TypeOK'
  <2>1. CASE SendRpc(r)
    BY <2>1 DEF SendRpc
  <2>2. CASE PauseAuth(r)
    BY <2>2 DEF PauseAuth
  <2>3. CASE PauseService(r)
    BY <2>3 DEF PauseService
  <2>4. CASE BeginPauseRate(r)
    BY <2>4 DEF BeginPauseRate
  <2> QED
    BY <1>5, <2>1, <2>2, <2>3, <2>4
<1>6. ASSUME NEW r \in Run, PauseRate(r) PROVE TypeOK'
  <2>1. failures + 1 \in Nat /\ read[r] \in Nat /\ Backoff(failures + 1) \in Nat
    BY DEF Backoff
  <2>2. Later(cooldown, read[r] + Backoff(failures + 1)) \in Nat
    BY <2>1 DEF Later
  <2>3. cooldown' \in Nat /\ failures' \in Nat
    BY <1>6, <2>1, <2>2 DEF PauseRate
  <2>4. pc' \in [Run -> Place]
    BY <1>6 DEF PauseRate
  <2>5. QED
    BY <1>6, <2>3, <2>4 DEF PauseRate
<1>7. ASSUME NEW r \in Run, Unwind(r) \/ Crash(r) PROVE TypeOK'
  BY <1>7 DEF Unwind, Crash
<1>12. ASSUME NEW r \in Run, Complete(r) PROVE TypeOK'
  <2>1. pc' \in [Run -> Place] /\ failures' \in Nat
    BY <1>12 DEF Complete, Forgiven
  <2>2. QED
    BY <1>12, <2>1 DEF Complete, Forgiven
<1>11. ASSUME NEW r \in Run, Release(r) PROVE TypeOK'
  <2>1. owner' \in [Account -> Run \cup {Nobody}] /\ expires' \in [Account -> Nat]
    <3>1. CASE owner[ref[r]] = r
      <4>1. /\ owner' = [owner EXCEPT ![ref[r]] = Nobody]
            /\ expires' = [expires EXCEPT ![ref[r]] = 0]
        BY <1>11, <3>1 DEF Release, OwnsRow
      <4>2. QED
        BY <4>1
    <3>2. CASE owner[ref[r]] # r
      BY <1>11, <3>2 DEF Release, OwnsRow
    <3>3. QED
      BY <3>1, <3>2
  <2>2. pc' \in [Run -> Place]
    BY <1>11 DEF Release, OwnsRow
  <2>3. QED
    BY <1>11, <2>1, <2>2 DEF Release, OwnsRow
<1>8. ASSUME NEW a \in Account, NEW auth \in BOOLEAN, NEW service \in BOOLEAN,
             Resume(a, auth, service)
      PROVE TypeOK'
  BY <1>8 DEF Resume
<1>9. CASE Tick
  BY <1>9 DEF Tick
<1>10. CASE UNCHANGED vars
  BY <1>10 DEF vars
<1> QED
  BY <1>1, <1>2, <1>3, <1>4, <1>5, <1>6, <1>7, <1>8, <1>9, <1>10, <1>11, <1>12
  DEF Next, RunStep

(* What each conjunct below needs from a step: which rows and terms moved. *)
LEMMA ReadStep == IInv /\ [Next]_vars => ReadInPast'
<1> SUFFICES ASSUME IInv, [Next]_vars PROVE ReadInPast'
  OBVIOUS
<1> USE DEF IInv, TypeOK, ReadInPast, run
<1>1. ASSUME NEW r \in Run, RunStep(r) PROVE ReadInPast'
  <2>1. /\ now' = now
        /\ read' = read \/ ReadClock(r)
    BY <1>1 DEF RunStep, OpenLease, Enter, EnterRaises, AskRpc, ChargeRpc, NextSlot, WithinBudget, DelayRpc, Delay,
       WakeUp, SendRpc, PauseAuth, PauseService, BeginPauseRate, PauseRate, Complete,
       Unwind, Release, Crash
  <2>2. CASE read' = read
    BY <2>1, <2>2
  <2>3. CASE ReadClock(r)
    <3> SUFFICES ASSUME NEW s \in Run PROVE read'[s] <= now
      BY <2>1
    <3>1. CASE s = r
      BY <2>3, <3>1 DEF ReadClock
    <3>2. CASE s # r
      BY <2>3, <3>2 DEF ReadClock
    <3> QED
      BY <3>1, <3>2
  <2>4. QED
    BY <2>1, <2>2, <2>3
<1>2. ASSUME NEW a \in Account, NEW auth \in BOOLEAN, NEW service \in BOOLEAN,
             Resume(a, auth, service)
      PROVE ReadInPast'
  BY <1>2 DEF Resume
<1>3. CASE Tick
  BY <1>3 DEF Tick
<1>4. CASE UNCHANGED vars
  BY <1>4 DEF vars
<1> QED
  BY <1>1, <1>2, <1>3, <1>4 DEF Next

(* Terms: the row is handed on only after the previous holder's term. *)
LEMMA TermStep == IInv /\ [Next]_vars => TermInv'
<1> SUFFICES ASSUME IInv, [Next]_vars PROVE TermInv'
  OBVIOUS
<1> USE TimeAssumption, RunAssumption DEF IInv, TypeOK, ReadInPast, TermInv, Holding, Step, accounts, run
<1>1. ASSUME NEW r \in Run, Enter(r) PROVE TermInv'
  <2> SUFFICES ASSUME NEW s \in Run, pc'[s] \in Holding
               PROVE IF owner'[ref'[s]] = s THEN expires'[ref'[s]] = term'[s]
                                            ELSE term'[s] <= now'
    BY DEF TermInv
  <2>1. /\ ref' = ref /\ now' = now
        /\ owner' = [owner EXCEPT ![ref[r]] = r]
        /\ expires' = [expires EXCEPT ![ref[r]] = read[r] + LEASE_MS]
        /\ term' = [term EXCEPT ![r] = read[r] + LEASE_MS]
        /\ owner[ref[r]] = Nobody \/ expires[ref[r]] <= read[r]
        /\ pc' = [pc EXCEPT ![r] = "held"]
    BY <1>1 DEF Enter, Free
  <2>2. CASE s = r
    BY <2>1, <2>2
  <2>3. CASE s # r /\ ref[s] = ref[r]
    <3>1. term[s] <= now
      BY <2>1, <2>3
    <3>2. QED
      BY <2>1, <2>3, <3>1
  <2>4. CASE s # r /\ ref[s] # ref[r]
    BY <2>1, <2>4
  <2> QED
    BY <2>2, <2>3, <2>4
<1>2. ASSUME NEW r \in Run, ChargeRpc(r) PROVE TermInv'
  BY <1>2 DEF ChargeRpc, NextSlot, WithinBudget, MayProceed, Owned, OwnsRow
<1>3. ASSUME NEW r \in Run, Release(r) PROVE TermInv'
  <2>1. /\ pc' = [pc EXCEPT ![r] = "gone"] /\ UNCHANGED <<now, ref, term>>
        /\ \/ UNCHANGED <<owner, expires>>
           \/ /\ owner[ref[r]] = r
              /\ owner' = [owner EXCEPT ![ref[r]] = Nobody]
              /\ expires' = [expires EXCEPT ![ref[r]] = 0]
    BY <1>3 DEF Release, OwnsRow
  <2>2. /\ owner \in [Account -> Run \cup {Nobody}] /\ expires \in [Account -> Nat]
        /\ ref \in [Run -> Account] /\ pc \in [Run -> Place] /\ Nobody \notin Run
        /\ \A s \in Run : pc[s] \in Holding =>
             IF owner[ref[s]] = s THEN expires[ref[s]] = term[s] ELSE term[s] <= now
        /\ "gone" \notin Holding
    OBVIOUS
  <2>3. SUFFICES ASSUME NEW s \in Run, pc'[s] \in Holding
                 PROVE  IF owner'[ref[s]] = s THEN expires'[ref[s]] = term[s]
                                             ELSE term[s] <= now
    BY <2>1
  <2> HIDE DEF IInv, TypeOK, ReadInPast, TermInv, Holding, Step, accounts, run
  <2>4. s # r /\ pc[s] \in Holding /\ ref[s] \in Account
    BY <2>1, <2>2, <2>3
  <2>5. CASE UNCHANGED <<owner, expires>>
    BY <2>2, <2>4, <2>5
  <2>6. CASE /\ owner[ref[r]] = r
             /\ owner' = [owner EXCEPT ![ref[r]] = Nobody]
             /\ expires' = [expires EXCEPT ![ref[r]] = 0]
    <3>1. CASE ref[s] = ref[r]
      BY <2>2, <2>4, <2>6, <3>1
    <3>2. CASE ref[s] # ref[r]
      BY <2>2, <2>4, <2>6, <3>2
    <3>3. QED
      BY <3>1, <3>2
  <2>7. QED
    BY <2>1, <2>5, <2>6
<1>4. ASSUME NEW r \in Run,
             OpenLease(r) \/ EnterRaises(r) \/ AskRpc(r) \/ DelayRpc(r) \/ WakeUp(r)
      PROVE TermInv'
  <2>1. CASE OpenLease(r)
    BY <2>1 DEF OpenLease
  <2>2. CASE EnterRaises(r)
    BY <2>2 DEF EnterRaises
  <2>3. CASE AskRpc(r)
    BY <2>3 DEF AskRpc
  <2>4. CASE DelayRpc(r)
    BY <2>4 DEF DelayRpc, Delay
  <2>5. CASE WakeUp(r)
    BY <2>5 DEF WakeUp
  <2> QED
    BY <1>4, <2>1, <2>2, <2>3, <2>4, <2>5
<1>5. ASSUME NEW r \in Run,
             SendRpc(r) \/ PauseAuth(r) \/ PauseService(r) \/ BeginPauseRate(r)
      PROVE TermInv'
  <2>1. CASE SendRpc(r)
    BY <2>1 DEF SendRpc
  <2>2. CASE PauseAuth(r)
    BY <2>2 DEF PauseAuth
  <2>3. CASE PauseService(r)
    BY <2>3 DEF PauseService
  <2>4. CASE BeginPauseRate(r)
    BY <2>4 DEF BeginPauseRate
  <2> QED
    BY <1>5, <2>1, <2>2, <2>3, <2>4
<1>6. ASSUME NEW r \in Run, PauseRate(r) \/ Complete(r) \/ Unwind(r) \/ Crash(r)
      PROVE TermInv'
  <2>1. CASE PauseRate(r)
    BY <2>1 DEF PauseRate
  <2>2. CASE Complete(r)
    BY <2>2 DEF Complete, Forgiven
  <2>3. CASE Unwind(r)
    BY <2>3 DEF Unwind
  <2>4. CASE Crash(r)
    BY <2>4 DEF Crash
  <2> QED
    BY <1>6, <2>1, <2>2, <2>3, <2>4
<1>7. ASSUME NEW a \in Account, NEW auth \in BOOLEAN, NEW service \in BOOLEAN,
             Resume(a, auth, service)
      PROVE TermInv'
  BY <1>7 DEF Resume
<1>8. CASE Tick
  BY <1>8 DEF Tick
<1>9. CASE UNCHANGED vars
  BY <1>9 DEF vars
<1> HIDE TimeAssumption, RunAssumption DEF IInv, TypeOK, ReadInPast, TermInv, Holding, Step, accounts, run
<1> QED
  BY <1>1, <1>2, <1>3, <1>4, <1>5, <1>6, <1>7, <1>8, <1>9 DEF Next, RunStep

(* Pauses: the owner of the row is the only run that can raise one. *)
LEMMA SendStep == IInv /\ [Next]_vars => SendInv'
<1> SUFFICES ASSUME IInv, [Next]_vars PROVE SendInv'
  OBVIOUS
<1> USE RunAssumption DEF IInv, TypeOK, SendInv, Step, accounts, run
<1>1. ASSUME NEW r \in Run, Enter(r) PROVE SendInv'
  BY <1>1 DEF Enter
<1>2. ASSUME NEW r \in Run, ChargeRpc(r) PROVE SendInv'
  BY <1>2 DEF ChargeRpc, NextSlot, WithinBudget, MayProceed
<1>3. ASSUME NEW r \in Run, Release(r) PROVE SendInv'
  <2>1. /\ pc' = [pc EXCEPT ![r] = "gone"]
        /\ UNCHANGED <<ref, authPaused, servicePaused>>
        /\ owner' = owner \/ owner' = [owner EXCEPT ![ref[r]] = Nobody]
    BY <1>3 DEF Release, OwnsRow
  <2>2. ASSUME NEW s \in Run, pc'[s] = "sending", owner'[ref[s]] = s
        PROVE  pc[s] = "sending" /\ owner[ref[s]] = s
    BY <2>1, <2>2
  <2>3. QED
    BY <2>1, <2>2
<1>4. ASSUME NEW r \in Run,
             OpenLease(r) \/ EnterRaises(r) \/ AskRpc(r) \/ DelayRpc(r) \/ WakeUp(r)
      PROVE SendInv'
  <2>1. CASE OpenLease(r)
    BY <2>1 DEF OpenLease
  <2>2. CASE EnterRaises(r)
    BY <2>2 DEF EnterRaises
  <2>3. CASE AskRpc(r)
    BY <2>3 DEF AskRpc
  <2>4. CASE DelayRpc(r)
    BY <2>4 DEF DelayRpc, Delay
  <2>5. CASE WakeUp(r)
    BY <2>5 DEF WakeUp
  <2> QED
    BY <1>4, <2>1, <2>2, <2>3, <2>4, <2>5
<1>5. ASSUME NEW r \in Run, PauseAuth(r) \/ PauseService(r) PROVE SendInv'
  <2>1. CASE PauseAuth(r)
    BY <2>1 DEF PauseAuth, Owned, OwnsRow
  <2>2. CASE PauseService(r)
    BY <2>2 DEF PauseService, Owned, OwnsRow
  <2> QED
    BY <1>5, <2>1, <2>2
<1>6. ASSUME NEW r \in Run,
             SendRpc(r) \/ BeginPauseRate(r) \/ PauseRate(r) \/ Complete(r)
      PROVE SendInv'
  BY <1>6 DEF SendRpc, BeginPauseRate, PauseRate, Complete, Forgiven
<1>7. ASSUME NEW r \in Run, Unwind(r) \/ Crash(r) PROVE SendInv'
  BY <1>7 DEF Unwind, Crash
<1>8. ASSUME NEW a \in Account, NEW auth \in BOOLEAN, NEW service \in BOOLEAN,
             Resume(a, auth, service)
      PROVE SendInv'
  BY <1>8 DEF Resume
<1>9. CASE Tick \/ UNCHANGED vars
  BY <1>9 DEF Tick, vars
<1> HIDE RunAssumption DEF IInv, TypeOK, SendInv, Step, accounts, run
<1> QED
  BY <1>1, <1>2, <1>3, <1>4, <1>5, <1>6, <1>7, <1>8, <1>9 DEF Next, RunStep

(* Pacing: only the owner moves next_rpc_ms, and it is not asleep then. *)
LEMMA SleepStep == IInv /\ [Next]_vars => OneSleepSuffices'
<1> SUFFICES ASSUME IInv, [Next]_vars PROVE OneSleepSuffices'
  OBVIOUS
<1> USE RunAssumption, TimeAssumption DEF IInv, TypeOK, ReadInPast, OneSleepSuffices, Step, accounts, run
<1>1. ASSUME NEW r \in Run, Enter(r) PROVE OneSleepSuffices'
  BY <1>1 DEF Enter
<1>2. ASSUME NEW r \in Run, ChargeRpc(r) PROVE OneSleepSuffices'
  BY <1>2 DEF ChargeRpc, NextSlot, WithinBudget, MayProceed, Owned, OwnsRow
<1>3. ASSUME NEW r \in Run, DelayRpc(r) PROVE OneSleepSuffices'
  <2>1. /\ wake' = [wake EXCEPT ![r] = now + (nextRpc[ref[r]] - read[r])]
        /\ pc' = [pc EXCEPT ![r] = "sleeping"]
        /\ UNCHANGED <<owner, nextRpc, ref>>
    BY <1>3 DEF DelayRpc, Delay
  <2>2. now + (nextRpc[ref[r]] - read[r]) >= nextRpc[ref[r]]
    <3>1. read[r] \in Nat /\ now \in Nat /\ read[r] <= now /\ nextRpc[ref[r]] \in Nat
      OBVIOUS
    <3>2. QED
      BY <3>1
  <2>3. wake'[r] >= nextRpc'[ref'[r]]
    BY <2>1, <2>2
  <2>4. ASSUME NEW s \in Run, s # r PROVE pc'[s] = pc[s] /\ wake'[s] = wake[s]
    BY <2>1, <2>4
  <2>5. QED
    BY <2>1, <2>3, <2>4
<1>4. ASSUME NEW r \in Run, Release(r) PROVE OneSleepSuffices'
  BY <1>4 DEF Release, OwnsRow
<1>5. ASSUME NEW r \in Run, OpenLease(r) \/ EnterRaises(r) \/ AskRpc(r) \/ WakeUp(r)
      PROVE OneSleepSuffices'
  BY <1>5 DEF OpenLease, EnterRaises, AskRpc, WakeUp
<1>6. ASSUME NEW r \in Run,
             SendRpc(r) \/ PauseAuth(r) \/ PauseService(r) \/ BeginPauseRate(r)
      PROVE OneSleepSuffices'
  BY <1>6 DEF SendRpc, PauseAuth, PauseService, BeginPauseRate
<1>7. ASSUME NEW r \in Run, PauseRate(r) \/ Complete(r) \/ Unwind(r) \/ Crash(r)
      PROVE OneSleepSuffices'
  BY <1>7 DEF PauseRate, Complete, Forgiven, Unwind, Crash
<1>8. ASSUME NEW a \in Account, NEW auth \in BOOLEAN, NEW service \in BOOLEAN,
             Resume(a, auth, service)
      PROVE OneSleepSuffices'
  BY <1>8 DEF Resume
<1>9. CASE Tick \/ UNCHANGED vars
  BY <1>9 DEF Tick, vars
<1> HIDE RunAssumption, TimeAssumption DEF IInv, TypeOK, ReadInPast, OneSleepSuffices, Step, accounts, run
<1> QED
  BY <1>1, <1>2, <1>3, <1>4, <1>5, <1>6, <1>7, <1>8, <1>9 DEF Next, RunStep

(* Spacing: the ledger and next_rpc_ms change in the same transaction. *)
LEMMA LedgerStep == IInv /\ [Next]_vars => (LastCharge /\ RpcSpacing)'
<1> SUFFICES ASSUME IInv, [Next]_vars PROVE (LastCharge /\ RpcSpacing)'
  OBVIOUS
<1>1. CASE UNCHANGED <<rpcs, nextRpc>>
  BY <1>1 DEF IInv, LastCharge, RpcSpacing
<1>2. ASSUME NEW r \in Run, ChargeRpc(r) PROVE (LastCharge /\ RpcSpacing)'
  <2> DEFINE a == ref[r]
             old == rpcs[a]
             new == Append(old, read[r])
  <2>1. /\ a \in Account /\ read[r] \in Nat /\ old \in Seq(Nat)
        /\ nextRpc \in [Account -> Nat] /\ nextRpc[a] \in Nat
        /\ RPC_INTERVAL_MS \in Nat
        /\ rpcs \in [Account -> Seq(Nat)]
    BY TimeAssumption DEF IInv, TypeOK
  <2>2. /\ nextRpc[a] <= read[r]
        /\ nextRpc' = [nextRpc EXCEPT ![a] = read[r] + RPC_INTERVAL_MS]
        /\ rpcs' = [rpcs EXCEPT ![a] = new]
    BY <1>2 DEF ChargeRpc, NextSlot, WithinBudget
  <2>3. /\ Len(old) \in Nat
        /\ new \in Seq(Nat) /\ Len(new) = Len(old) + 1
        /\ new[Len(old) + 1] = read[r]
        /\ \A i \in 1 .. Len(old) : new[i] = old[i] /\ old[i] \in Nat
    BY <2>1
  <2>4. LastCharge'
    BY <2>1, <2>2, <2>3 DEF IInv, LastCharge
  <2>5. ASSUME NEW b \in Account, NEW i \in 1 .. Len(rpcs'[b]) - 1
        PROVE rpcs'[b][i + 1] - rpcs'[b][i] >= RPC_INTERVAL_MS
    <3>1. CASE b # a
      BY <3>1, <2>1, <2>2 DEF IInv, RpcSpacing, a
    <3>2. CASE b = a
      <4>1. rpcs'[b] = new /\ i \in 1 .. Len(old)
        BY <3>2, <2>1, <2>2, <2>3
      <4>2. CASE i < Len(old)
        <5>1. i + 1 \in 1 .. Len(old) /\ i \in 1 .. Len(old) - 1
          BY <4>1, <4>2, <2>3
        <5>2. old[i + 1] - old[i] >= RPC_INTERVAL_MS
          BY <5>1, <2>1 DEF IInv, RpcSpacing
        <5>3. QED
          BY <4>1, <5>1, <5>2, <2>3
      <4>3. CASE i = Len(old)
        <5>1. old # <<>>
          BY <4>1, <4>3, <2>1
        <5>2. old[Len(old)] + RPC_INTERVAL_MS <= nextRpc[a]
          BY <5>1, <2>1 DEF IInv, LastCharge
        <5>3. new[i] = old[Len(old)] /\ old[Len(old)] \in Nat /\ new[i + 1] = read[r]
          BY <4>1, <4>3, <2>3
        <5>4. read[r] - old[Len(old)] >= RPC_INTERVAL_MS
          <6>1. nextRpc[a] <= read[r] /\ nextRpc[a] \in Nat /\ read[r] \in Nat
                  /\ RPC_INTERVAL_MS \in Nat
            BY <2>1, <2>2
          <6> HIDE DEF new, old, a
          <6> QED
            BY <5>2, <5>3, <6>1
        <5>5. rpcs'[b][i + 1] = new[i + 1] /\ rpcs'[b][i] = new[i]
          <6> HIDE DEF new, old, a
          <6> QED
            BY <4>1
        <5>6. QED
          <6> HIDE DEF new, old, a
          <6> QED
            BY <5>3, <5>4, <5>5
      <4>4. QED
        BY <4>1, <4>2, <4>3, <2>3
    <3>3. QED
      BY <3>1, <3>2
  <2>6. RpcSpacing'
    BY <2>5 DEF RpcSpacing
  <2>7. QED
    BY <2>4, <2>6
<1>3. ASSUME NEW r \in Run, RunStep(r), ~ChargeRpc(r) PROVE UNCHANGED <<rpcs, nextRpc>>
  BY <1>3 DEF RunStep, OpenLease, Enter, EnterRaises, AskRpc, DelayRpc, Delay, WakeUp, SendRpc,
     PauseAuth, PauseService, BeginPauseRate, PauseRate, Complete, Unwind, Release,
     Crash, accounts
<1>4. ASSUME NEW b \in Account, NEW auth \in BOOLEAN, NEW service \in BOOLEAN,
             Resume(b, auth, service)
      PROVE UNCHANGED <<rpcs, nextRpc>>
  BY <1>4 DEF Resume
<1>5. Tick \/ UNCHANGED vars => UNCHANGED <<rpcs, nextRpc>>
  BY DEF Tick, vars, accounts
<1> QED
  BY <1>1, <1>2, <1>3, <1>4, <1>5 DEF Next

(* Readings are taken from a clock that never stands before WINDOW_MS. *)
LEMMA ClockStep == IInv /\ [Next]_vars => ClockStarted'
<1> SUFFICES ASSUME IInv, [Next]_vars PROVE ClockStarted'
  OBVIOUS
<1> USE TimeAssumption DEF IInv, TypeOK, ClockStarted, Step, run
<1>1. ASSUME NEW r \in Run, RunStep(r) PROVE ClockStarted'
  <2>1. /\ now' = now
        /\ (read' = read /\ pc[r] # "idle") \/ ReadClock(r)
        /\ \A s \in Run : s # r => pc'[s] = pc[s]
    <3>1. CASE OpenLease(r) \/ AskRpc(r) \/ WakeUp(r) \/ BeginPauseRate(r)
      BY <3>1 DEF OpenLease, AskRpc, WakeUp, BeginPauseRate
    <3>2. CASE Enter(r) \/ EnterRaises(r) \/ DelayRpc(r) \/ SendRpc(r)
      BY <3>2 DEF Enter, EnterRaises, DelayRpc, Delay, SendRpc
    <3>5. CASE ChargeRpc(r)
      BY <3>5 DEF ChargeRpc, NextSlot, WithinBudget
    <3>3. CASE PauseAuth(r) \/ PauseService(r) \/ PauseRate(r) \/ Complete(r)
      BY <3>3 DEF PauseAuth, PauseService, PauseRate, Complete
    <3>4. CASE Unwind(r) \/ Release(r) \/ Crash(r)
      BY <3>4 DEF Unwind, Release, Crash
    <3> QED
      BY <1>1, <3>1, <3>2, <3>3, <3>4, <3>5 DEF RunStep
  <2> SUFFICES ASSUME NEW s \in Run, pc'[s] # "idle" PROVE read'[s] >= WINDOW_MS
    BY <2>1
  <2>2. CASE s = r
    BY <2>1, <2>2 DEF ReadClock
  <2>3. CASE s # r
    BY <2>1, <2>3 DEF ReadClock
  <2> QED
    BY <2>2, <2>3
<1>2. ASSUME NEW a \in Account, NEW auth \in BOOLEAN, NEW service \in BOOLEAN,
             Resume(a, auth, service)
      PROVE ClockStarted'
  BY <1>2 DEF Resume
<1>3. CASE Tick
  BY <1>3 DEF Tick
<1>4. CASE UNCHANGED vars
  BY <1>4 DEF vars
<1> QED
  BY <1>1, <1>2, <1>3, <1>4 DEF Next

(* The multiples of a window's length and budget, for a reader and a prover. *)
LEMMA Multiples ==
  ASSUME NEW k \in Nat, NEW m \in Nat
  PROVE  /\ k * m \in Nat /\ 0 * m = 0
         /\ (k + 1) * m = k * m + m
         /\ k > 0 => k - 1 \in Nat /\ k * m = (k - 1) * m + m
  OBVIOUS

(* Appending a charge at t to a ledger s whose window has c and w; after the *)
(* charge the window has c2 and w2.                                          *)
LEMMA ChargeBudget ==
  ASSUME NEW s \in Seq(Nat), NEW t \in Nat,
         NEW c \in Nat, NEW w \in Nat, NEW c2 \in Nat, NEW w2 \in Nat,
         InOrder(s), \A i \in 1 .. Len(s) : s[i] <= t,
         Windowed(s, c, w), Budgeted(s),
         t >= WINDOW_MS,
         IF t >= w + WINDOW_MS THEN c2 = 1 /\ w2 = t
         ELSE c < MAX_ACCOUNT_RPCS /\ c2 = c + 1 /\ w2 = w
  PROVE  /\ InOrder(Append(s, t))
         /\ Windowed(Append(s, t), c2, w2)
         /\ Budgeted(Append(s, t))
<1> DEFINE n == Len(s)
           z == Append(s, t)
           M == MAX_ACCOUNT_RPCS
           W == WINDOW_MS
<1>1. /\ n \in Nat /\ Len(z) = n + 1 /\ z[n + 1] = t
      /\ \A i \in 1 .. n : z[i] = s[i] /\ s[i] \in Nat
  OBVIOUS
<1>2. /\ M \in Nat \ {0} /\ W \in Nat \ {0}
      /\ c <= M /\ c <= n
      /\ c = 0 => n = 0 /\ w = 0
      /\ c > 0 => w = s[n - c + 1]
      /\ \A k \in Nat \ {0} : \A i \in 1 .. n - c - k * M + 1 : s[i] + k * W <= w
      /\ \A i \in 1 .. n : s[i] <= t
      /\ \A i, j \in 1 .. n : i <= j => s[i] <= s[j]
      /\ t >= W
      /\ IF t >= w + W THEN c2 = 1 /\ w2 = t ELSE c < M /\ c2 = c + 1 /\ w2 = w
  BY TimeAssumption DEF Windowed, InOrder
<1>3. \A k \in Nat \ {0} : \A i \in 1 .. n - (k + 1) * M + 1 :
        s[i + (k + 1) * M - 1] - s[i] >= k * W
  BY DEF Budgeted, FewerThan
<1> HIDE DEF n, z, M, W
<1>4. ASSUME NEW i \in 1 .. Len(z), NEW j \in 1 .. Len(z), i <= j PROVE z[i] <= z[j]
  <2>1. CASE j \in 1 .. n
    <3>1. i \in 1 .. n
      BY <1>1, <1>4, <2>1
    <3> QED
      BY <1>1, <1>2, <1>4, <2>1, <3>1
  <2>2. CASE j = n + 1 /\ i \in 1 .. n
    BY <1>1, <1>2, <2>2
  <2>3. CASE j = n + 1 /\ i = n + 1
    BY <1>1, <2>3
  <2> QED
    BY <1>1, <2>1, <2>2, <2>3
<1>5. c2 <= M /\ c2 <= Len(z) /\ c2 > 0
  BY <1>1, <1>2
<1>6. w2 = z[Len(z) - c2 + 1]
  <2>1. CASE t >= w + W
    BY <1>1, <1>2, <2>1
  <2>2. CASE ~(t >= w + W)
    <3>1. c > 0 /\ c2 = c + 1 /\ w2 = w
      BY <1>2, <2>2
    <3>2. n - c + 1 \in 1 .. n /\ Len(z) - c2 + 1 = n - c + 1
      BY <1>1, <1>2, <3>1
    <3> QED
      BY <1>1, <1>2, <3>1, <3>2
  <2> QED
    BY <2>1, <2>2
<1>7. ASSUME NEW k \in Nat \ {0}, NEW i \in 1 .. Len(z) - c2 - k * M + 1
      PROVE  z[i] + k * W <= w2
  <2> DEFINE p == k * M
             q == k * W
  <2>1. p \in Nat /\ q \in Nat /\ (k = 1 => p = M /\ q = W)
    BY <1>2, Multiples
  <2>0. i \in 1 .. Len(z) - c2 - p + 1
    BY <1>7
  <2> HIDE DEF p, q
  <2>2. CASE ~(t >= w + W)
    <3>1. c > 0 /\ i \in 1 .. n - c - p + 1 /\ w2 = w
      BY <1>1, <1>2, <2>0, <2>1, <2>2
    <3>2. i \in 1 .. n
      BY <1>1, <2>1, <3>1
    <3>3. s[i] + q <= w
      BY <1>2, <3>1 DEF p, q
    <3>4. z[i] + q <= w2
      BY <1>1, <3>1, <3>2, <3>3
    <3> QED
      BY <3>4 DEF q
  <2>3. CASE t >= w + W /\ k = 1
    <3>1. i \in 1 .. n - M + 1 /\ w2 = t /\ q = W
      BY <1>1, <1>2, <2>0, <2>1, <2>3
    <3>2. i \in 1 .. n /\ c > 0
      BY <1>1, <1>2, <3>1
    <3>3. n - c + 1 \in 1 .. n /\ i <= n - c + 1
      BY <1>1, <1>2, <3>1, <3>2
    <3>4. s[i] <= w
      BY <1>2, <3>2, <3>3
    <3>5. z[i] + q <= w2
      BY <1>1, <1>2, <2>3, <3>1, <3>2, <3>4
    <3> QED
      BY <3>5 DEF q
  <2>4. CASE t >= w + W /\ k > 1
    <3> DEFINE p0 == (k - 1) * M
               q0 == (k - 1) * W
    <3>1. /\ k - 1 \in Nat \ {0} /\ p = p0 + M /\ q = q0 + W
          /\ p0 \in Nat /\ q0 \in Nat
      BY <1>2, <2>4, Multiples DEF p, q
    <3>2. i \in 1 .. n + 1 - p /\ w2 = t
      BY <1>1, <1>2, <2>0, <2>1, <2>4
    <3> HIDE DEF p0, q0
    <3>3. i \in 1 .. n - c - p0 + 1 /\ i \in 1 .. n
      BY <1>1, <1>2, <3>1, <3>2
    <3>4. s[i] + q0 <= w
      BY <1>2, <3>1, <3>3 DEF p0, q0
    <3>5. z[i] + q <= w2
      BY <1>1, <1>2, <2>4, <3>1, <3>2, <3>3, <3>4
    <3> QED
      BY <3>5 DEF q
  <2> QED
    BY <2>2, <2>3, <2>4
<1>8. w2 <= t
  <2>1. CASE t >= w + W
    BY <1>2, <2>1
  <2>2. CASE ~(t >= w + W)
    <3>1. c > 0 /\ w2 = w /\ n - c + 1 \in 1 .. n
      BY <1>1, <1>2, <2>2
    <3> QED
      BY <1>2, <3>1
  <2> QED
    BY <2>1, <2>2
<1>9. ASSUME NEW k \in Nat \ {0}, NEW i \in 1 .. Len(z) - (k + 1) * M + 1
      PROVE  z[i + (k + 1) * M - 1] - z[i] >= k * W
  <2> DEFINE p == k * M
             q == k * W
             l == (k + 1) * M
  <2>1. p \in Nat /\ q \in Nat /\ l = p + M /\ l \in Nat
    BY <1>2, Multiples
  <2>2. i \in 1 .. Len(z) - l + 1
    BY <1>9
  <2> HIDE DEF p, q, l
  <2>3. i \in 1 .. n + 2 - l /\ i \in 1 .. n
    BY <1>1, <1>2, <2>1, <2>2
  <2>4. CASE i = n - l + 2
    <3>1. i + l - 1 = n + 1
      BY <1>1, <2>1, <2>4
    <3>2. i \in 1 .. Len(z) - c2 - p + 1
      BY <1>1, <1>2, <1>5, <2>1, <2>3, <2>4
    <3>3. z[i] + q <= w2
      BY <1>7, <3>2 DEF p, q
    <3>4. z[i] \in Nat /\ z[i + l - 1] = t
      BY <1>1, <2>3, <3>1
    <3>5. z[i + l - 1] - z[i] >= q
      BY <1>2, <1>8, <2>1, <3>3, <3>4
    <3> QED
      BY <3>5 DEF l, q
  <2>5. CASE i # n - l + 2
    <3>1. i \in 1 .. n - l + 1 /\ i + l - 1 \in 1 .. n
      BY <1>1, <1>2, <2>1, <2>3, <2>5
    <3>2. z[i + l - 1] = s[i + l - 1] /\ z[i] = s[i]
      BY <1>1, <2>3, <3>1
    <3>3. s[i + l - 1] - s[i] >= q
      BY <1>3, <3>1 DEF l, q
    <3> QED
      BY <3>2, <3>3 DEF l, q
  <2> QED
    BY <2>4, <2>5
<1>10. InOrder(z)
  BY <1>4 DEF InOrder
<1>11. Windowed(z, c2, w2)
  BY <1>1, <1>5, <1>6, <1>7 DEF M, W, Windowed
<1>12. Budgeted(z)
  BY <1>9 DEF M, W, Budgeted, FewerThan
<1> QED
  BY <1>10, <1>11, <1>12 DEF z, M

(* A charge is the only step that touches a window, and it appends. *)
LEMMA BudgetStep == IInv /\ [Next]_vars => (Sorted /\ WindowInv /\ Budgets)'
<1> SUFFICES ASSUME IInv, [Next]_vars PROVE (Sorted /\ WindowInv /\ Budgets)'
  OBVIOUS
<1>1. CASE UNCHANGED <<rpcs, window, count>>
  BY <1>1 DEF IInv, Sorted, InOrder, WindowInv, Windowed, Budgets, Budgeted, FewerThan
<1>2. ASSUME NEW r \in Run, ChargeRpc(r) PROVE (Sorted /\ WindowInv /\ Budgets)'
  <2> DEFINE a == ref[r]
             t == read[r]
             W == WINDOW_MS
  <2>1. /\ a \in Account /\ t \in Nat /\ rpcs[a] \in Seq(Nat)
        /\ count[a] \in Nat /\ window[a] \in Nat /\ W \in Nat
        /\ rpcs \in [Account -> Seq(Nat)]
        /\ count \in [Account -> Nat] /\ window \in [Account -> Nat]
    BY TimeAssumption DEF IInv, TypeOK
  <2>2. /\ rpcs' = [rpcs EXCEPT ![a] = Append(rpcs[a], t)]
        /\ window' = [window EXCEPT ![a] = IF t >= window[a] + W THEN t ELSE window[a]]
        /\ count' = [count EXCEPT ![a] = (IF t >= window[a] + W THEN 0 ELSE count[a]) + 1]
        /\ ~(t >= window[a] + W) => count[a] < MAX_ACCOUNT_RPCS
        /\ nextRpc[a] <= t
    BY <1>2, <2>1 DEF ChargeRpc, WithinBudget, WindowOver
  <2>3. t >= W
    BY <1>2 DEF IInv, ClockStarted, ChargeRpc, Step
  <2>4. \A i \in 1 .. Len(rpcs[a]) : rpcs[a][i] <= t
    <3> SUFFICES ASSUME NEW i \in 1 .. Len(rpcs[a]) PROVE rpcs[a][i] <= t
      OBVIOUS
    <3>1. /\ Len(rpcs[a]) \in 1 .. Len(rpcs[a]) /\ rpcs[a] # <<>>
          /\ rpcs[a][i] \in Nat /\ rpcs[a][Len(rpcs[a])] \in Nat
      BY <2>1
    <3>2. rpcs[a][i] <= rpcs[a][Len(rpcs[a])]
      <4>1. InOrder(rpcs[a])
        BY <2>1 DEF IInv, Sorted
      <4> QED
        BY <3>1, <4>1 DEF InOrder
    <3>3. rpcs[a][Len(rpcs[a])] + RPC_INTERVAL_MS <= nextRpc[a]
      BY <2>1, <3>1 DEF IInv, LastCharge
    <3>4. nextRpc[a] \in Nat /\ RPC_INTERVAL_MS \in Nat
      BY <2>1, TimeAssumption DEF IInv, TypeOK
    <3> DEFINE x == rpcs[a][i]
               y == rpcs[a][Len(rpcs[a])]
               p == nextRpc[a]
    <3>5. x \in Nat /\ y \in Nat /\ p \in Nat /\ RPC_INTERVAL_MS \in Nat /\ t \in Nat
      BY <2>1, <3>1, <3>4
    <3>6. x <= y /\ y + RPC_INTERVAL_MS <= p /\ p <= t
      BY <2>2, <3>2, <3>3
    <3> HIDE DEF x, y, p, t
    <3>7. x <= t
      BY <3>5, <3>6
    <3> QED
      BY <3>7 DEF x
  <2>5. /\ InOrder(rpcs[a]) /\ Windowed(rpcs[a], count[a], window[a])
        /\ Budgeted(rpcs[a])
    BY <2>1 DEF IInv, Sorted, WindowInv, Budgets
  <2> HIDE DEF a, t, W
  <2>6. /\ rpcs'[a] = Append(rpcs[a], t) /\ count'[a] \in Nat /\ window'[a] \in Nat
        /\ IF t >= window[a] + W THEN count'[a] = 1 /\ window'[a] = t
           ELSE count[a] < MAX_ACCOUNT_RPCS /\ count'[a] = count[a] + 1
                  /\ window'[a] = window[a]
    BY <2>1, <2>2
  <2>7. /\ InOrder(rpcs'[a]) /\ Windowed(rpcs'[a], count'[a], window'[a])
        /\ Budgeted(rpcs'[a])
    <3> DEFINE c2 == count'[a]
               w2 == window'[a]
               s == rpcs[a]
               c == count[a]
               w == window[a]
    <3>1. /\ s \in Seq(Nat) /\ t \in Nat /\ c \in Nat /\ w \in Nat
          /\ c2 \in Nat /\ w2 \in Nat
      BY <2>1, <2>6
    <3>2. /\ InOrder(s) /\ \A i \in 1 .. Len(s) : s[i] <= t
          /\ Windowed(s, c, w) /\ Budgeted(s)
          /\ t >= WINDOW_MS
          /\ IF t >= w + WINDOW_MS THEN c2 = 1 /\ w2 = t
             ELSE c < MAX_ACCOUNT_RPCS /\ c2 = c + 1 /\ w2 = w
      BY <2>3, <2>4, <2>5, <2>6 DEF W
    <3> HIDE DEF c2, w2, s, c, w
    <3>3. /\ InOrder(Append(s, t)) /\ Windowed(Append(s, t), c2, w2)
          /\ Budgeted(Append(s, t))
      BY <3>1, <3>2, ChargeBudget
    <3> QED
      BY <2>6, <3>3 DEF c2, w2, s
  <2>8. \A b \in Account : b # a =>
          rpcs'[b] = rpcs[b] /\ count'[b] = count[b] /\ window'[b] = window[b]
    BY <2>1, <2>2
  <2> QED
    BY <2>7, <2>8 DEF IInv, Sorted, WindowInv, Budgets
<1>3. ASSUME NEW r \in Run, RunStep(r), ~ChargeRpc(r) PROVE UNCHANGED <<rpcs, window, count>>
  BY <1>3 DEF RunStep, OpenLease, Enter, EnterRaises, AskRpc, DelayRpc, Delay, WakeUp, SendRpc,
     PauseAuth, PauseService, BeginPauseRate, PauseRate, Complete, Unwind, Release,
     Crash, accounts
<1>4. ASSUME NEW b \in Account, NEW auth \in BOOLEAN, NEW service \in BOOLEAN,
             Resume(b, auth, service)
      PROVE UNCHANGED <<rpcs, window, count>>
  BY <1>4 DEF Resume
<1>5. Tick \/ UNCHANGED vars => UNCHANGED <<rpcs, window, count>>
  BY DEF Tick, vars, accounts
<1> QED
  BY <1>1, <1>2, <1>3, <1>4, <1>5 DEF Next
-----------------------------------------------------------------------------
(* An account that was never charged is within every budget. *)
LEMMA NoCharge == Windowed(<<>>, 0, 0) /\ Budgeted(<<>>)
<1>1. ASSUME NEW k \in Nat \ {0}
      PROVE  k * MAX_ACCOUNT_RPCS >= 1 /\ (k + 1) * MAX_ACCOUNT_RPCS >= 1
  <2>1. MAX_ACCOUNT_RPCS \in Nat /\ MAX_ACCOUNT_RPCS > 0 /\ k - 1 \in Nat
    BY TimeAssumption
  <2>2. /\ k * MAX_ACCOUNT_RPCS = (k - 1) * MAX_ACCOUNT_RPCS + MAX_ACCOUNT_RPCS
        /\ (k - 1) * MAX_ACCOUNT_RPCS \in Nat /\ k * MAX_ACCOUNT_RPCS \in Nat
        /\ (k + 1) * MAX_ACCOUNT_RPCS = k * MAX_ACCOUNT_RPCS + MAX_ACCOUNT_RPCS
    BY <2>1, Multiples
  <2> DEFINE x == k * MAX_ACCOUNT_RPCS
             y == (k - 1) * MAX_ACCOUNT_RPCS
             z == (k + 1) * MAX_ACCOUNT_RPCS
  <2> HIDE DEF x, y, z
  <2>3. x >= 1 /\ z >= 1
    BY <2>1, <2>2 DEF x, y, z
  <2> QED
    BY <2>3 DEF x, z
<1>2. ASSUME NEW k \in Nat \ {0}
      PROVE  /\ 1 .. 0 - 0 - k * MAX_ACCOUNT_RPCS + 1 = {}
             /\ 1 .. 0 - (k + 1) * MAX_ACCOUNT_RPCS + 1 = {}
  <2> DEFINE x == k * MAX_ACCOUNT_RPCS
             z == (k + 1) * MAX_ACCOUNT_RPCS
  <2>1. x \in Nat /\ z \in Nat /\ x >= 1 /\ z >= 1
    BY <1>1, TimeAssumption, Multiples
  <2> HIDE DEF x, z
  <2>2. 1 .. 0 - 0 - x + 1 = {} /\ 1 .. 0 - z + 1 = {}
    BY <2>1
  <2> QED
    BY <2>2 DEF x, z
<1>3. Len(<<>>) = 0 /\ MAX_ACCOUNT_RPCS \in Nat
  BY TimeAssumption
<1>4. Windowed(<<>>, 0, 0)
  <2>1. \A k \in Nat \ {0} : 1 .. Len(<<>>) - 0 - k * MAX_ACCOUNT_RPCS + 1 = {}
    BY <1>2, <1>3
  <2>2. 0 <= MAX_ACCOUNT_RPCS /\ 0 <= Len(<<>>) /\ ~(0 > 0)
    BY <1>3
  <2> QED
    BY <1>3, <2>1, <2>2, Zenon DEF Windowed
<1>5. Budgeted(<<>>)
  <2>1. \A k \in Nat \ {0} : 1 .. Len(<<>>) - (k + 1) * MAX_ACCOUNT_RPCS + 1 = {}
    BY <1>2, <1>3
  <2> QED
    BY <2>1, Zenon DEF Budgeted, FewerThan
<1> QED
  BY <1>4, <1>5

(* The inductive invariant holds in every reachable state. *)
THEOREM Inductive == Spec => []IInv
<1>1. Init => IInv
  BY TimeAssumption, RunAssumption, NoCharge
  DEF Init, IInv, TypeOK, Place, ReadInPast, TermInv, Holding, SendInv, OneSleepSuffices,
      LastCharge, RpcSpacing, Sorted, InOrder, ClockStarted, WindowInv, Budgets
<1>2. IInv /\ [Next]_vars => IInv'
  BY TypeStep, ReadStep, TermStep, SendStep, SleepStep, LedgerStep, ClockStep, BudgetStep
  DEF IInv
<1> QED
  BY <1>1, <1>2, PTL DEF Spec

(* Two runs are never entitled to the same account at the same time. *)
THEOREM Exclusion == Spec => []MutualExclusion
<1>1. IInv => MutualExclusion
  <2> SUFFICES ASSUME IInv, NEW r \in Run, NEW s \in Run, r # s, ref[r] = ref[s],
                      Entitled(r), Entitled(s)
               PROVE FALSE
    BY DEF MutualExclusion
  <2>1. owner[ref[r]] = r
    BY DEF IInv, TypeOK, TermInv, Entitled
  <2>2. owner[ref[s]] = s
    BY DEF IInv, TypeOK, TermInv, Entitled
  <2> QED
    BY <2>1, <2>2
<1> QED
  BY <1>1, Inductive, PTL

(* An entitled run never sends on an account that is paused. *)
THEOREM PausesHold == Spec => []NoEntitledRpcWhilePaused
<1>1. IInv => NoEntitledRpcWhilePaused
  BY DEF IInv, TypeOK, TermInv, SendInv, Entitled, NoEntitledRpcWhilePaused
<1> QED
  BY <1>1, Inductive, PTL

(* Charges of an account are an interval apart, across runs and crashes, and *)
(* every table column and run variable keeps its type.                       *)
THEOREM Spacing == Spec => []LedgerSound
<1>1. IInv => LedgerSound
  BY DEF IInv, LedgerSound
<1> QED
  BY <1>1, Inductive, PTL

(* No stretch of k windows' length sees k + 1 windows' worth of charges on    *)
(* an account, however many windows it is long.                              *)
THEOREM Budget == Spec => []SpanBudget
<1>1. IInv => SpanBudget
  BY DEF IInv, TypeOK, Budgets, Budgeted, SpanBudget
<1> QED
  BY <1>1, Inductive, PTL

(* The pacing loop sleeps at most once for an RPC. *)
THEOREM PacingConverges == Spec => []OneSleepSuffices
<1>1. IInv => OneSleepSuffices
  BY DEF IInv
<1> QED
  BY <1>1, Inductive, PTL

(* A rate rejection holds back every account until the cooldown has passed. *)
THEOREM CooldownForAll == Spec => CooldownHoldsForAll
<1> DEFINE Held == /\ cooldown' >= cooldown
                   /\ cooldown > now => rpcs' = rpcs /\ failures' >= failures
<1>1. IInv /\ [Next]_vars => [Held]_vars
  <2> SUFFICES ASSUME IInv, Next PROVE Held
    OBVIOUS
  <2> USE DEF IInv, TypeOK, ReadInPast, accounts, policy, run
  <2>1. ASSUME NEW r \in Run, ChargeRpc(r) PROVE Held
    BY <2>1 DEF ChargeRpc, NextSlot, WithinBudget, MayProceed
  <2>2. ASSUME NEW r \in Run, PauseRate(r) PROVE Held
    <3>1. /\ cooldown' = Later(cooldown, read[r] + Backoff(failures + 1))
          /\ failures' = failures + 1 /\ rpcs' = rpcs
      BY <2>2 DEF PauseRate
    <3>2. read[r] \in Nat /\ cooldown \in Nat /\ failures \in Nat
      OBVIOUS
    <3> HIDE DEF IInv, TypeOK, ReadInPast, accounts, policy, run
    <3>3. Backoff(failures + 1) \in Nat
      BY TimeAssumption DEF Backoff
    <3>4. QED
      BY <3>1, <3>2, <3>3 DEF Later
  <2>3. ASSUME NEW r \in Run, Complete(r) PROVE Held
    BY <2>3 DEF Complete, Forgiven
  <2>4. ASSUME NEW r \in Run, RunStep(r), ~ChargeRpc(r), ~PauseRate(r), ~Complete(r)
        PROVE Held
    <3>1. UNCHANGED <<cooldown, failures, rpcs>>
      BY <2>4 DEF RunStep, OpenLease, Enter, EnterRaises, AskRpc, DelayRpc, Delay, WakeUp, SendRpc,
         PauseAuth, PauseService, BeginPauseRate, Unwind, Release, Crash
    <3> QED
      BY <3>1
  <2>5. ASSUME NEW a \in Account, NEW auth \in BOOLEAN, NEW service \in BOOLEAN,
               Resume(a, auth, service)
        PROVE Held
    BY <2>5 DEF Resume
  <2>6. CASE Tick
    BY <2>6 DEF Tick
  <2> QED
    BY <2>1, <2>2, <2>3, <2>4, <2>5, <2>6 DEF Next
<1> QED
  BY <1>1, Inductive, PTL DEF Spec, CooldownHoldsForAll
=============================================================================
