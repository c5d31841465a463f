---------------------------- MODULE KillCollector -----------------------------
(* Killboard discovery.py and freshness.py: the two commands that walk the     *)
(* kill ids of one cursor.  "collect" (FreshnessRunner, the timer's command)   *)
(* first locates the newest report, then scans the ids still pending, the      *)
(* newest first; "probe" (DiscoveryRunner, the operator's command, the only    *)
(* one that lifts a pause) walks upwards from the position.  A run claims the  *)
(* cursor with a row that has a lease, asks the game for one id at a time with *)
(* no transaction open, and records each answer under that row.                *)
(*                                                                             *)
(* An operator named Bad... is a plausible mistake in the one that follows it. *)
(*                                                                             *)
(* Abstractions: the ranges of pending ids are the set of the ids in them (the *)
(* list is always its maximal intervals); an id is "deferred" until its retry  *)
(* time; leases, cooldowns and retry times may end at any moment.  A run works *)
(* on the cursor it loaded; only the holder saves it, so the model has one     *)
(* copy, except of failure_count, which a run may still write when the row is  *)
(* no longer its own: there each run's copy is kept apart.                     *)
EXTENDS Naturals, FiniteSets, FiniteSetsExt

CONSTANTS
    Proc,           \* processes that run a command
    MaxId,          \* MAX_ID
    KillTime,       \* when the kill of an id happened, as its report says
    Leap,           \* 64: the smallest step of the search after the first
    LocateBudget,   \* LOCATE_BUDGET
    HistoryEvery,   \* 4: every which scan goes to the oldest pending id
    RecentWindow,   \* RECENT_WINDOW
    MaxRequests,    \* max_requests of a run
    EmptyThreshold, \* empty_threshold of a probe
    MaxRanges,      \* 64: _merge compacts beyond it
    LongestBackoff, \* 3: more failures make no cooldown longer
    LoadRanges      \* 128: _validated_state refuses beyond it

Id == 1..MaxId

ASSUME KillAssumption ==
    /\ {MaxId, Leap, LocateBudget, HistoryEvery, MaxRequests, EmptyThreshold, MaxRanges} \subseteq Nat \ {0}
    /\ KillTime \in [Id -> Nat]
    /\ {LoadRanges, RecentWindow, LongestBackoff} \subseteq Nat

VARIABLES
    cursor,         \* the ProbeCursor row
    row,            \* the ProbeRun that is RUNNING on it, if any
    job,            \* what each process is at
    failures,       \* failure_count of that row, up to LongestBackoff
    remembered,     \* and of the row as each process has it in memory
    settled,        \* ids whose report was stored or known to be excluded
    emptied         \* ids a probe was told are empty

counts == <<failures, remembered>>
vars == <<cursor, row, job, counts, settled, emptied>>

None == 0
NoRow == [running |-> FALSE, owner |-> None, expired |-> FALSE]
NoPlan == [phase |-> "none"]
NoJob == [pc |-> "idle", kind |-> "none", stop |-> "none", reports |-> FALSE, requests |-> 0, located |-> 0, scanned |-> 0,
          recheck |-> None, cheap |-> {}, firstEmpty |-> None, ask |-> None, phase |-> "none"]

-----------------------------------------------------------------------------
(* Intervals.                                                                  *)
Tops(ids) == {i \in ids : i + 1 \notin ids}
Gap(ids, i) == {j \in Id : i \in ids /\ j > i /\ (\E k \in ids : k > j) /\ \A k \in i + 1..j : k \notin ids}
Inner(ids) == Tops(ids) \ {Max(ids)}
Nearer(ids, i, j) ==
    LET a == Cardinality(Gap(ids, i)) b == Cardinality(Gap(ids, j))
    IN a < b \/ (a = b /\ i <= j)

(* Too many intervals: the smallest gaps are queued again.                     *)
Merge(ids) ==
    LET excess == Cardinality(Tops(ids)) - MaxRanges
    IN IF Cardinality(Tops(ids)) <= MaxRanges THEN ids
       ELSE ids \cup UNION {Gap(ids, i) : i \in
              CHOOSE some \in SUBSET Inner(ids) :
                 /\ Cardinality(some) = excess
                 /\ \A i \in some, j \in Inner(ids) \ some : Nearer(ids, i, j)}

(* _validated_state: what a stored plan must satisfy to be resumed.            *)
Loads(c) ==
    LET p == c.plan
    IN /\ p.history <= p.frontier + 1
       /\ p.frontier <= p.lower /\ p.lower <= c.last
       /\ p.upper # None => p.upper > p.lower
       /\ Cardinality(Tops(p.pending)) <= LoadRanges
       /\ p.pending \subseteq p.history..p.frontier

History(c) == IF c.next # None THEN c.next ELSE c.last + 1
MayStart(c) == c.last # None /\ History(c) <= c.last + 1
NewPlan(c) ==
    [phase |-> "locate", frontier |-> c.last, history |-> History(c), lower |-> c.last, upper |-> None,
     step |-> 1, pending |-> Merge(History(c)..c.last), deferred |-> {}]

(* Each round first looks for newer reports.                                   *)
Round(p) ==
    LET q == [p EXCEPT !.pending = Merge(@)]
    IN IF p.phase = "scan" THEN [q EXCEPT !.phase = "locate", !.lower = p.frontier, !.upper = None, !.step = 1]
                           ELSE q

(* _save_state: the public position is the first pending id.                   *)
WithPlan(c, p) ==
    [c EXCEPT !.plan = p, !.next = IF p.pending # {} THEN Min(p.pending) ELSE p.frontier + 1]

-----------------------------------------------------------------------------
(* The run row and its lease.                                                  *)
BadOwned(p) == row.running
Owned(p) == row.running /\ row.owner = p

(* paused_reason: a cooldown that has passed is no pause.                      *)
Blocked(c) == c.pause # "none"

(* A run whose lease ended is failed; the position returns to the first id     *)
(* its probe was told is empty.                                                *)
Orphaned == row.running /\ row.expired
Recovered ==
    IF Orphaned /\ cursor.provisional # None
      THEN [cursor EXCEPT !.next = cursor.provisional, !.provisional = None]
      ELSE cursor

Resumed(c) == [c EXCEPT !.pause = "none"]

Claim(p, kind, resume) ==
    /\ job[p].pc = "idle"
    /\ ~row.running \/ Orphaned
    /\ resume => kind = "probe"
    /\ cursor' = IF resume THEN Resumed(Recovered) ELSE Recovered
    /\ row' = [running |-> TRUE, owner |-> p, expired |-> FALSE]
    /\ job' = [job EXCEPT ![p] = [NoJob EXCEPT !.pc = "claimed", !.kind = kind]]
    /\ failures' = IF resume THEN 0 ELSE failures
    /\ remembered' = [remembered EXCEPT ![p] = failures']
    /\ UNCHANGED <<settled, emptied>>

Go(p, place) == job' = [job EXCEPT ![p].pc = place]
Halt(p) == job' = [job EXCEPT ![p].pc = "finish"]
Lost(p) == ~Owned(p) /\ Go(p, "abort") /\ UNCHANGED <<cursor, row, counts, settled, emptied>>

(* A paused cursor, or a plan that cannot be resumed, ends the run before a    *)
(* session is loaded; a collector stores the plan of its round.                *)
Prepare(p) ==
    /\ job[p].pc = "claimed"
    /\ LET fresh == cursor.plan = NoPlan
           usable == IF fresh THEN MayStart(cursor) ELSE Loads(cursor)
           plan == Round(IF fresh THEN NewPlan(cursor) ELSE cursor.plan)
       IN \/ /\ \/ Blocked(cursor)
                \/ job[p].kind = "collect" /\ ~usable
             /\ Halt(p)
             /\ UNCHANGED <<cursor, counts>>
          \/ /\ ~Blocked(cursor) /\ job[p].kind = "probe"
             /\ Go(p, "load")
             /\ UNCHANGED <<cursor, counts>>
          \/ /\ ~Blocked(cursor) /\ job[p].kind = "collect" /\ usable
             /\ Owned(p)
             /\ cursor' = WithPlan(cursor, plan)
             /\ failures' = remembered[p] /\ UNCHANGED remembered
             /\ job' = [job EXCEPT ![p].pc = "load", ![p].recheck = plan.upper]
    /\ UNCHANGED <<row, settled, emptied>>

(* The session loads, or the cursor is paused until an operator resumes it.    *)
LoadSession(p) ==
    /\ job[p].pc = "load"
    /\ \/ /\ Owned(p)
          /\ cursor' = [cursor EXCEPT !.pause = "unauthorized"]
          /\ Halt(p)
       \/ /\ job[p].kind = "probe" => Owned(p)
          /\ cursor' = IF job[p].kind = "probe" THEN [cursor EXCEPT !.empties = 0] ELSE cursor
          /\ Go(p, "ask")
    /\ UNCHANGED <<row, counts, settled, emptied>>

-----------------------------------------------------------------------------
(* Which id is asked for next; no id when the run has nothing to ask.          *)
Locating(p) == cursor.plan.phase = "locate" /\ job[p].located < LocateBudget

LocateNext(p) ==
    LET s == cursor.plan
        leap == IF s.lower + s.step < MaxId THEN s.lower + s.step ELSE MaxId
    IN IF job[p].recheck # None THEN {job[p].recheck}
       ELSE IF s.upper # None THEN {(s.lower + s.upper) \div 2}
       ELSE {leap} \ {s.lower}

(* Every HistoryEvery-th scan takes the oldest id if it is not recent.         *)
ScanNext(p) ==
    LET s == cursor.plan
        due == s.pending \ s.deferred
        recent == IF s.frontier + 1 > RecentWindow THEN s.frontier + 1 - RecentWindow ELSE 0
        floor == IF recent > s.history THEN recent ELSE s.history
        old == (job[p].scanned + 1) % HistoryEvery = 0 /\ Min(s.pending) < floor
    IN IF due = {} THEN {} ELSE {IF old THEN Min(due) ELSE Max(due)}

ProbeNext ==
    LET next == IF cursor.next # None THEN cursor.next ELSE cursor.last + 1
    IN IF cursor.next = None /\ cursor.last = None THEN {} ELSE {next} \cap Id

Candidates(p) ==
    IF job[p].kind = "probe" THEN ProbeNext
    ELSE IF Locating(p) THEN LocateNext(p)
    ELSE ScanNext(p)

Spent(p) == job[p].stop # "none" \/ job[p].requests >= MaxRequests

(* A collector that got reports and did not fail puts failure_count back to    *)
(* 0, without asking whether the row is still its own.  A run that was         *)
(* superseded goes by the plan that it remembers: it may have nothing to ask.  *)
IdLimit(p) == Owned(p) /\ ~Spent(p) /\ Locating(p)
Healthy(p) ==
    /\ job[p].kind = "collect" /\ job[p].reports
    /\ job[p].stop \in {"none", "budget_exhausted"} /\ ~IdLimit(p)

EndRound(p) ==
    /\ job[p].pc = "ask"
    /\ Spent(p) \/ Candidates(p) = {} \/ ~Owned(p)
    /\ Halt(p)
    /\ failures' = IF Healthy(p) THEN 0 ELSE failures
    /\ UNCHANGED <<cursor, row, remembered, settled, emptied>>

(* The lease is renewed if the row is still this run's, and the id asked for.  *)
Ask(p) ==
    /\ job[p].pc = "ask"
    /\ ~Spent(p)
    /\ Owned(p)
    /\ \E id \in Candidates(p) :
         job' = [job EXCEPT ![p] = [job[p] EXCEPT
                    !.pc = "asked", !.ask = id,
                    !.phase = IF job[p].kind = "probe" THEN "probe" ELSE IF Locating(p) THEN "locate" ELSE "scan",
                    !.recheck = IF Locating(p) THEN None ELSE job[p].recheck,
                    !.scanned = IF job[p].kind = "probe" \/ Locating(p) THEN job[p].scanned
                                ELSE (job[p].scanned + 1) % HistoryEvery,
                    !.located = IF job[p].kind = "collect" /\ Locating(p) THEN job[p].located + 1
                                ELSE job[p].located]]
    /\ row' = [row EXCEPT !.expired = FALSE]
    /\ UNCHANGED <<cursor, counts, settled, emptied>>

-----------------------------------------------------------------------------
(* What the game answers: a report, perhaps one the policy excludes by its     *)
(* value, perhaps with an error while its names were fetched; nothing; or an   *)
(* error.                                                                      *)
Stops == {"rate_limited", "unauthorized", "network_error", "budget_exhausted"}
Answers == [status : {"report"}, cheap : BOOLEAN, stop : Stops \cup {"none"}]
           \cup [status : {"empty"}, cheap : {FALSE}, stop : {"none"}]
           \cup [status : {"error"}, cheap : {FALSE}, stop : Stops]

Reported(a) == a.status = "report"
Whole(a) == Reported(a) /\ a.stop = "none"

Pauses == {"rate_limited", "unauthorized"}
Paused(c, stop) == IF stop \in Pauses THEN [c EXCEPT !.pause = stop] ELSE c
Failed(n) == IF n < LongestBackoff THEN n + 1 ELSE n

(* A report lifts the count that the run remembers if it was a probe's, and    *)
(* whole; a stop that pauses adds to it; the cursor is saved with it.          *)
Counted(p, a, lifts) ==
    /\ failures' = IF a.stop \in Pauses THEN Failed(remembered[p]) ELSE IF lifts THEN 0 ELSE remembered[p]
    /\ remembered' = [remembered EXCEPT ![p] = failures']

BadNoted(p, a) ==
    [job[p] EXCEPT !.pc = "ask", !.ask = None, !.requests = @ + 1,
                   !.stop = IF a.status = "error" THEN a.stop ELSE "none"]
Noted(p, a) == [job[p] EXCEPT !.pc = "ask", !.ask = None, !.requests = @ + 1, !.stop = a.stop]

(* DiscoveryRunner._record.                                                    *)
Why(a) == IF a.stop = "none" THEN "time_reversed" ELSE a.stop
Reversed(id) == cursor.lastTime > KillTime[id]
Threshold(c) == c.empties >= EmptyThreshold

RecordProbe(p, a) ==
    LET id == job[p].ask
        passed == [cursor EXCEPT !.last = id, !.lastTime = KillTime[id], !.empties = 0,
                                 !.provisional = None, !.next = id + 1]
        lifted == IF Whole(a) THEN Resumed(passed) ELSE passed
        empty == [cursor EXCEPT !.next = id + 1, !.empties = IF @ < EmptyThreshold THEN @ + 1 ELSE @,
                                !.provisional = IF job[p].firstEmpty = None THEN id ELSE @]
    IN \/ /\ Reported(a) /\ ~Reversed(id)
          /\ cursor' = Paused(lifted, a.stop)
          /\ job' = [job EXCEPT ![p] = [Noted(p, a) EXCEPT !.firstEmpty = None]]
          /\ Counted(p, a, Whole(a))
          /\ settled' = settled \cup {id}
          /\ UNCHANGED emptied
       \/ /\ \/ a.status = "error"
             \/ Reported(a) /\ Reversed(id)
          /\ cursor' = Paused(cursor, a.stop)
          /\ job' = [job EXCEPT ![p] = [Noted(p, a) EXCEPT !.stop = Why(a)]]
          /\ Counted(p, a, FALSE)
          /\ UNCHANGED <<settled, emptied>>
       \/ /\ a.status = "empty"
          /\ cursor' = empty
          /\ job' = [job EXCEPT ![p] = [Noted(p, a) EXCEPT
                        !.firstEmpty = IF job[p].firstEmpty = None THEN id ELSE job[p].firstEmpty,
                        !.stop = IF Threshold(empty) THEN "empty_threshold" ELSE "none"]]
          /\ Counted(p, a, FALSE)
          /\ emptied' = emptied \cup {id}
          /\ UNCHANGED settled

(* The bracket of the search after an answer (FreshnessRunner._locate_record). *)
Bracket(s, id, a) ==
    CASE Reported(a) ->
           LET t == [s EXCEPT !.lower = IF @ < id THEN id ELSE @]
           IN IF s.upper = None THEN [t EXCEPT !.step = IF 2 * @ > Leap THEN (IF 2 * @ < MaxId THEN 2 * @ ELSE MaxId) ELSE Leap]
              ELSE IF id >= s.upper THEN [t EXCEPT !.upper = None, !.step = Leap] ELSE t
      [] a.status = "empty" -> [s EXCEPT !.upper = id]
      [] OTHER -> s

BadLocated(s) == [s EXCEPT !.pending = Merge(@ \cup (s.frontier + 2..s.lower)), !.frontier = s.lower, !.phase = "scan"]
(* The bracket has closed: what lies between the old frontier and the new one  *)
(* becomes pending.                                                            *)
Located(s) == [s EXCEPT !.pending = IF s.lower > s.frontier THEN Merge(@ \cup (s.frontier + 1..s.lower)) ELSE @,
                        !.frontier = s.lower, !.phase = "scan"]
Closed(s, a) == a.status # "error" /\ s.upper # None /\ s.upper = s.lower + 1

(* FreshnessRunner._record_fresh.                                              *)
Without(s, ids) == [s EXCEPT !.pending = @ \ ids, !.deferred = @ \ ids]

RecordFresh(p, a) ==
    LET id == job[p].ask
        locating == job[p].phase = "locate"
        narrowed == IF locating THEN Bracket(cursor.plan, id, a) ELSE cursor.plan
        closed == locating /\ Closed(narrowed, a)
        moved == IF closed THEN Located(narrowed) ELSE narrowed
        cheap == job[p].cheap \cup (IF locating /\ Whole(a) /\ a.cheap THEN {id} ELSE {})
        plan == CASE ~locating /\ Whole(a) -> Without(moved, {id})
                  [] ~locating /\ a.status = "empty" -> [moved EXCEPT !.deferred = @ \cup {id}]
                  [] closed /\ a.stop = "none" -> Without(moved, cheap)
                  [] OTHER -> moved
        newest == IF Reported(a) /\ id > cursor.last
                    THEN [cursor EXCEPT !.last = id, !.lastTime = KillTime[id]] ELSE cursor
        lifted == IF Reported(a) THEN Resumed(newest) ELSE newest
    IN /\ cursor' = WithPlan(Paused(lifted, a.stop), plan)
       /\ job' = [job EXCEPT ![p] = [Noted(p, a) EXCEPT !.cheap = cheap, !.reports = @ \/ Reported(a)]]
       /\ Counted(p, a, FALSE)
       /\ settled' = IF Whole(a) /\ (~locating \/ a.cheap) THEN settled \cup {id} ELSE settled
       /\ UNCHANGED emptied

Record(p) ==
    /\ job[p].pc = "asked"
    /\ Owned(p)
    /\ \E a \in Answers : IF job[p].kind = "probe" THEN RecordProbe(p, a) ELSE RecordFresh(p, a)
    /\ UNCHANGED row

(* An exception of the client that is no answer at all.                        *)
Raise(p) ==
    /\ job[p].pc = "asked"
    /\ Go(p, "abort")
    /\ UNCHANGED <<cursor, row, counts, settled, emptied>>

(* _owned or the heartbeat found that the row is no longer this run's.         *)
LoseLease(p) ==
    /\ \/ job[p].pc \in {"load", "asked", "finish"}
       \/ job[p].pc = "claimed" /\ job[p].kind = "collect"
       \/ job[p].pc = "ask" /\ ~Spent(p)
    /\ Lost(p)

(* A probe that ended among empty ids leaves the position at the first.        *)
Finish(p) ==
    /\ job[p].pc = "finish"
    /\ Owned(p)
    /\ cursor' = IF job[p].firstEmpty = None THEN cursor
                 ELSE [cursor EXCEPT !.next = job[p].firstEmpty, !.provisional = None]
    /\ row' = NoRow
    /\ job' = [job EXCEPT ![p] = NoJob]
    /\ UNCHANGED <<counts, settled, emptied>>

(* The except clause of run: the row is failed, if it is still this run's.     *)
Abort(p) ==
    /\ job[p].pc = "abort"
    /\ row' = IF Owned(p) THEN NoRow ELSE row
    /\ job' = [job EXCEPT ![p] = NoJob]
    /\ UNCHANGED <<cursor, counts, settled, emptied>>

Crash(p) ==
    /\ job[p].pc # "idle"
    /\ job' = [job EXCEPT ![p] = NoJob]
    /\ UNCHANGED <<cursor, row, counts, settled, emptied>>

LeaseEnds ==
    /\ row.running
    /\ row' = [row EXCEPT !.expired = TRUE]
    /\ UNCHANGED <<cursor, job, counts, settled, emptied>>

TimePasses ==
    /\ \/ cursor.pause = "rate_limited" /\ cursor' = Resumed(cursor)
       \/ /\ cursor.plan # NoPlan
          /\ \E id \in cursor.plan.deferred : cursor' = [cursor EXCEPT !.plan.deferred = @ \ {id}]
    /\ UNCHANGED <<row, job, counts, settled, emptied>>

-----------------------------------------------------------------------------
(* A cursor that earlier probes brought to some report, none of its ids yet    *)
(* scanned for names.                                                          *)
Init ==
    /\ \E last \in {0, 1} :
         cursor = [next |-> 1, provisional |-> None, last |-> last, lastTime |-> IF last = 0 THEN 0 ELSE KillTime[last],
                   pause |-> "none", empties |-> 0, plan |-> NoPlan]
    /\ row = NoRow
    /\ job = [p \in Proc |-> NoJob]
    /\ failures = 0 /\ remembered = [p \in Proc |-> 0]
    /\ settled = {}
    /\ emptied = {}

Step(p) ==
    \/ \E kind \in {"collect", "probe"}, resume \in BOOLEAN : Claim(p, kind, resume)
    \/ Prepare(p) \/ LoadSession(p) \/ Ask(p) \/ Record(p) \/ Raise(p)
    \/ EndRound(p) \/ LoseLease(p) \/ Finish(p) \/ Abort(p) \/ Crash(p)

Next == (\E p \in Proc : Step(p)) \/ LeaseEnds \/ TimePasses

Spec == Init /\ [][Next]_vars
-----------------------------------------------------------------------------
TypeOK ==
    /\ cursor.next \in 0..MaxId + 1 /\ cursor.provisional \in 0..MaxId
    /\ cursor.last \in 0..MaxId /\ cursor.empties \in 0..EmptyThreshold
    /\ cursor.pause \in {"none", "rate_limited", "unauthorized"}
    /\ cursor.plan = NoPlan \/ cursor.plan.pending \cup cursor.plan.deferred \subseteq Id
    /\ row \in [running : BOOLEAN, owner : Proc \cup {None}, expired : BOOLEAN]
    /\ failures \in 0..LongestBackoff /\ remembered \in [Proc -> 0..LongestBackoff]
    /\ settled \cup emptied \subseteq Id

(* Older work is never lost, whatever is compacted, interrupted, paused or     *)
(* mixed with probes: an id up to the frontier is pending, or its report was   *)
(* stored or is known to be excluded; and the public position has only passed  *)
(* such ids and ids a probe was told are empty (freshness.py:3, "Inclusive     *)
(* pending ranges, not a jumped cursor, preserve older work").                 *)
NothingForgotten ==
    /\ TypeOK
    /\ cursor.plan # NoPlan =>
          cursor.plan.history..cursor.plan.frontier \subseteq cursor.plan.pending \cup settled
    /\ 1..cursor.next - 1 \subseteq settled \cup emptied

(* A run whose lease was taken over moves nothing, although nothing compares   *)
(* the lease with the clock (discovery.py:366, _owned): no position, plan,     *)
(* pause, pending id or report changes by a step of one that does not hold the *)
(* row while another does.  One write is left to it: it may put failure_count  *)
(* of the cursor back to 0, which nothing guards (freshness.py:315-321).       *)
SupersededOnlyResets ==
    [][\A p \in Proc :
         job'[p] # job[p] /\ row.running /\ row.owner # p /\ row' = row
            => /\ UNCHANGED <<cursor, settled, emptied>>
               /\ failures' \in {failures, 0}]_vars

(* A pause that any run set, for itself or for those after it, holds for every *)
(* run until it is lifted: no id is asked for meanwhile (worker.py:20,         *)
(* paused_reason).                                                             *)
PausedIsLeftAlone ==
    [][\A p \in Proc : job[p].pc # "asked" /\ job'[p].pc = "asked" => cursor.pause = "none"]_vars

(* Ids a probe was told are empty, with no report above them, are asked again: *)
(* when no run is going on, the position is not past them (tests/              *)
(* test_worker.py:291 and :298).                                               *)
EmptyBoundaryRechecked ==
    ~row.running => \A id \in 1..cursor.next - 1 : \E above \in id..cursor.next - 1 : above \in settled
=============================================================================
