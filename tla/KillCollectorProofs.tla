------------------------- MODULE KillCollectorProofs -------------------------
(* For any number of processes, ids and bounds: no pending kill is forgotten,  *)
(* a superseded run moves nothing, a pause is left alone, and empty ids are    *)
(* forgotten by one kind of failure only.                                      *)
EXTENDS KillCollector, WellFoundedInduction, TLAPS

Places == {"idle", "claimed", "load", "ask", "asked", "finish", "abort"}

PlanType ==
    [phase : {"locate", "scan"}, frontier : Id, history : 1..MaxId + 1, lower : Id, upper : 0..MaxId,
     step : Nat \ {0}, pending : SUBSET Id, deferred : SUBSET Id]
CursorType ==
    [next : 1..MaxId + 1, provisional : 0..MaxId, last : 0..MaxId, lastTime : Nat,
     pause : {"none", "rate_limited", "unauthorized"}, empties : 0..EmptyThreshold,
     plan : PlanType \cup {NoPlan}]
RowType == [running : BOOLEAN, owner : Proc \cup {None}, expired : BOOLEAN]
StopReason == Stops \cup {"none", "time_reversed", "empty_threshold"}
JobType ==
    [pc : Places, kind : {"none", "collect", "probe"}, stop : StopReason, reports : BOOLEAN,
     requests : Nat, located : Nat, scanned : Nat, recheck : 0..MaxId, cheap : SUBSET Id, firstEmpty : 0..MaxId, ask : 0..MaxId,
     phase : {"none", "probe", "locate", "scan"}]

Types ==
    /\ cursor \in CursorType
    /\ row \in RowType /\ (row.running => row.owner \in Proc)
    /\ job \in [Proc -> JobType]
    /\ settled \subseteq Id /\ emptied \subseteq Id

(* A plan accounts for every id up to its frontier.                            *)
Accounts(plan, done, empty) ==
    /\ plan.history..plan.frontier \subseteq plan.pending \cup done
    /\ 1..plan.history - 1 \subseteq done \cup empty
    /\ plan.pending \subseteq plan.history..plan.frontier
    /\ plan.frontier <= plan.lower
    /\ plan.history <= plan.frontier + 1

(* The position, and the place it may be taken back to, has only ids behind it *)
(* that were stored, excluded or empty.                                        *)
CursorOk(c, done, empty) ==
    /\ 1..c.next - 1 \subseteq done \cup empty
    /\ 1..c.provisional - 1 \subseteq done \cup empty
    /\ c.plan # NoPlan => Accounts(c.plan, done, empty)

(* What a run remembers while no transaction is open.                          *)
JobOk(j, c, done, empty) ==
    /\ j.cheap \subseteq done
    /\ 1..j.firstEmpty - 1 \subseteq done \cup empty
    /\ j.pc = "asked" => j.ask \in Id
    /\ j.pc \in {"load", "ask", "asked"} => j.kind = "probe" \/ (j.kind = "collect" /\ c.plan # NoPlan)

(* The holder of the cursor: a probe asks for the position, and a run that     *)
(* goes on has seen no pause.                                                  *)
HolderOk(j, c) ==
    /\ j.kind = "probe" /\ j.pc = "asked" => j.ask = c.next
    /\ j.pc \in {"load", "asked"} => c.pause = "none"
    /\ j.pc = "ask" => c.pause = "none" \/ j.stop # "none"

KInv ==
    /\ Types
    /\ CursorOk(cursor, settled, emptied)
    /\ \A p \in Proc : JobOk(job[p], cursor, settled, emptied) /\ (Owned(p) => HolderOk(job[p], cursor))

-----------------------------------------------------------------------------
LEMMA Bounds ==
  /\ MaxId \in Nat /\ MaxId >= 1 /\ Leap \in Nat /\ Leap >= 1
  /\ EmptyThreshold \in Nat /\ EmptyThreshold >= 1
BY KillAssumption

(* The least and the greatest of a set of ids.                                 *)
LEMMA Least ==
  ASSUME NEW S \in SUBSET Nat, S # {}
  PROVE  Min(S) \in S /\ \A y \in S : Min(S) <= y
<1> DEFINE R == {ss \in Nat \X Nat : ss[1] < ss[2]}
<1>0. OpToRel(<, Nat) = R
  BY Zenon DEF OpToRel
<1>1. \E x \in S : \A y \in S : ~(<<y, x>> \in R)
  <2> HIDE DEF R
  <2> QED BY <1>0, NatLessThanWellFounded, WFMin
<1>2. \E x \in S : \A y \in S : x <= y
  <2>1. PICK x \in S : \A y \in S : ~(<<y, x>> \in R)
    BY <1>1
  <2>2. ASSUME NEW y \in S PROVE x <= y
    <3>1. ~(<<y, x>> \in R)
      BY <2>1
    <3>2. x \in Nat /\ y \in Nat /\ ~(y < x)
      BY <3>1
    <3> QED BY <3>2
  <2> QED BY <2>1, <2>2
<1> QED
  BY <1>2 DEF Min

LEMMA Greatest ==
  ASSUME NEW n \in Nat, NEW S \in SUBSET (0..n), S # {}
  PROVE  Max(S) \in S
<1> DEFINE T == {n - i : i \in S}
<1>1. T \in SUBSET Nat /\ T # {}
  <2>1. \A i \in S : n - i \in Nat
    OBVIOUS
  <2>2. PICK x \in S : TRUE
    OBVIOUS
  <2>3. n - x \in T
    BY <2>2
  <2> QED BY <2>1, <2>3
<1>2. Min(T) \in T /\ \A y \in T : Min(T) <= y
  <2> HIDE DEF T
  <2> QED BY <1>1, Least
<1>3. PICK x \in S : Min(T) = n - x
  <2> HIDE DEF Min
  <2> QED BY <1>2
<1>4. \A y \in S : x >= y
  <2> TAKE y \in S
  <2>1. n - y \in T
    OBVIOUS
  <2>2. n - x <= n - y
    BY <1>2, <1>3, <2>1
  <2> QED BY <2>2
<1> QED
  BY <1>4 DEF Max

-----------------------------------------------------------------------------
(* Plans.  Whatever ranges _merge compacts, it only adds ids, and none outside *)
(* the bounds there are: which gaps it chooses does not matter.                *)
LEMMA MergeAdds ==
  ASSUME NEW m \in Nat, NEW n \in Nat, NEW ids \in SUBSET Id, ids \subseteq m..n
  PROVE  ids \subseteq Merge(ids) /\ Merge(ids) \subseteq Id /\ Merge(ids) \subseteq m..n
<1>1. \A i : Gap(ids, i) \subseteq Id
  BY DEF Gap
<1>2. \A i : Gap(ids, i) \subseteq m..n
  <2> SUFFICES ASSUME NEW i, NEW j \in Gap(ids, i) PROVE j \in m..n
    OBVIOUS
  <2>1. j \in Id /\ i \in ids /\ j > i /\ \E k \in ids : k > j
    BY DEF Gap
  <2>2. PICK k \in ids : k > j
    BY <2>1
  <2> QED BY <2>1, <2>2, Bounds DEF Id
<1> DEFINE X == CHOOSE some \in SUBSET Inner(ids) :
                 /\ Cardinality(some) = Cardinality(Tops(ids)) - MaxRanges
                 /\ \A i \in some, j \in Inner(ids) \ some : Nearer(ids, i, j)
<1>3. Merge(ids) = ids \/ Merge(ids) = ids \cup UNION {Gap(ids, i) : i \in X}
  BY DEF Merge
<1> HIDE DEF X
<1> QED BY <1>1, <1>2, <1>3

LEMMA RoundAccounts ==
  ASSUME NEW plan \in PlanType, NEW done, NEW empty, Accounts(plan, done, empty)
  PROVE  /\ Round(plan) \in PlanType /\ Accounts(Round(plan), done, empty)
         /\ Round(plan).history = plan.history
<1>0. /\ plan.phase \in {"locate", "scan"} /\ plan.frontier \in Id /\ plan.pending \in SUBSET Id
      /\ plan.frontier \in Nat /\ plan.history \in Nat /\ plan.pending \subseteq plan.history..plan.frontier
  BY Bounds DEF Accounts, PlanType, Id
<1>1. /\ plan.pending \subseteq Merge(plan.pending) /\ Merge(plan.pending) \subseteq Id
      /\ Merge(plan.pending) \subseteq plan.history..plan.frontier
  BY <1>0, MergeAdds
<1> DEFINE m == Merge(plan.pending)
<1> HIDE DEF m
<1>2. CASE plan.phase = "scan"
  <2>1. Round(plan) = [plan EXCEPT !.pending = m, !.phase = "locate", !.lower = plan.frontier,
                                   !.upper = 0, !.step = 1]
    BY <1>2 DEF Round, m, None, PlanType
  <2>2. Round(plan) \in PlanType
    <3>1. 0 \in 0..MaxId /\ 1 \in Nat \ {0}
      BY Bounds
    <3>2. m \in SUBSET Id
      BY <1>1 DEF m
    <3> QED BY <1>0, <2>1, <3>1, <3>2 DEF PlanType
  <2>3. /\ Round(plan).pending = m /\ Round(plan).frontier = plan.frontier
        /\ Round(plan).history = plan.history /\ Round(plan).lower = plan.frontier
    BY <2>1 DEF PlanType
  <2> QED BY <1>0, <1>1, <2>2, <2>3 DEF Accounts, m
<1>3. CASE plan.phase # "scan"
  <2>1. Round(plan) = [plan EXCEPT !.pending = m]
    BY <1>3 DEF Round, m
  <2>2. Round(plan) \in PlanType
    BY <1>1, <2>1 DEF PlanType, m
  <2>3. /\ Round(plan).pending = m /\ Round(plan).frontier = plan.frontier
        /\ Round(plan).history = plan.history /\ Round(plan).lower = plan.lower
    BY <2>1 DEF PlanType
  <2> QED BY <1>1, <2>2, <2>3 DEF Accounts, m
<1> QED BY <1>2, <1>3

LEMMA NewPlanAccounts ==
  ASSUME NEW c \in CursorType, NEW done, NEW empty, MayStart(c),
         1..c.next - 1 \subseteq done \cup empty
  PROVE  NewPlan(c) \in PlanType /\ Accounts(NewPlan(c), done, empty) /\ NewPlan(c).history = c.next
<1>1. c.last \in Id /\ c.next \in 1..MaxId + 1 /\ History(c) = c.next /\ c.next <= c.last + 1
  BY Bounds DEF MayStart, CursorType, None, History, Id
<1>2. History(c)..c.last \in SUBSET Id /\ History(c) \in Nat
  BY <1>1, Bounds DEF Id
<1>3. /\ History(c)..c.last \subseteq Merge(History(c)..c.last) /\ Merge(History(c)..c.last) \subseteq Id
      /\ Merge(History(c)..c.last) \subseteq History(c)..c.last
  <2>1. c.last \in Nat
    BY <1>1, Bounds DEF Id
  <2> QED BY <1>2, <2>1, MergeAdds
<1>4. NewPlan(c) \in PlanType
  BY <1>1, <1>3, Bounds DEF NewPlan, PlanType, None, Id
<1>5. /\ NewPlan(c).pending = Merge(History(c)..c.last) /\ NewPlan(c).frontier = c.last
      /\ NewPlan(c).history = History(c) /\ NewPlan(c).lower = c.last
  BY DEF NewPlan
<1> QED BY <1>1, <1>3, <1>4, <1>5, Bounds DEF Accounts, Id

(* The position of an accountable plan has nothing forgotten behind it.        *)
LEMMA WithPlanPosition ==
  ASSUME NEW c \in CursorType, NEW plan \in PlanType, NEW done, NEW empty, Accounts(plan, done, empty)
  PROVE  /\ WithPlan(c, plan) \in CursorType
         /\ 1..WithPlan(c, plan).next - 1 \subseteq done \cup empty
         /\ WithPlan(c, plan).plan = plan /\ WithPlan(c, plan).pause = c.pause
         /\ WithPlan(c, plan).provisional = c.provisional
         /\ \/ WithPlan(c, plan).next \in plan.pending /\ \A j \in plan.pending : WithPlan(c, plan).next <= j
            \/ plan.pending = {} /\ WithPlan(c, plan).next = plan.frontier + 1
<1>1. /\ WithPlan(c, plan).plan = plan /\ WithPlan(c, plan).pause = c.pause
      /\ WithPlan(c, plan).provisional = c.provisional
  BY DEF WithPlan, CursorType
<1>2. plan.pending \subseteq Id /\ plan.frontier \in Id /\ plan.history \in 1..MaxId + 1
  BY DEF PlanType
<1>3. CASE plan.pending # {}
  <2>1. Min(plan.pending) \in plan.pending /\ \A y \in plan.pending : Min(plan.pending) <= y
    <3>1. plan.pending \in SUBSET Nat
      BY <1>2, Bounds DEF Id
    <3> QED BY <1>3, <3>1, Least
  <2> DEFINE m == Min(plan.pending)
  <2> HIDE DEF m
  <2>2. WithPlan(c, plan) = [c EXCEPT !.plan = plan, !.next = m]
    BY <1>3 DEF WithPlan, m
  <2>3. m \in plan.pending /\ m \in Id /\ \A y \in plan.pending : m <= y
    BY <1>2, <2>1 DEF m
  <2>4. WithPlan(c, plan) \in CursorType /\ WithPlan(c, plan).next = m
    <3>1. m \in 1..MaxId + 1 /\ m \in Nat
      BY <2>3, Bounds DEF Id
    <3> HIDE DEF PlanType
    <3> QED BY <2>2, <3>1 DEF CursorType
  <2>5. \A j \in 1..m - 1 : j \in done \cup empty
    <3> TAKE j \in 1..m - 1
    <3>1. j \notin plan.pending /\ j <= plan.frontier
      BY <2>3, Bounds DEF Accounts, PlanType, Id
    <3>2. CASE j < plan.history
      BY <1>2, <3>2, Bounds DEF Accounts, Id
    <3>3. CASE j >= plan.history
      <4>1. j \in plan.history..plan.frontier
        BY <1>2, <2>3, <3>1, <3>3, Bounds DEF Id
      <4> QED BY <3>1, <4>1 DEF Accounts
    <3> QED BY <1>2, <2>3, <3>2, <3>3, Bounds DEF Id
  <2> QED BY <1>1, <2>3, <2>4, <2>5
<1>4. CASE plan.pending = {}
  <2>1. WithPlan(c, plan) = [c EXCEPT !.plan = plan, !.next = plan.frontier + 1]
    BY <1>4 DEF WithPlan
  <2>2. WithPlan(c, plan) \in CursorType /\ WithPlan(c, plan).next = plan.frontier + 1
    <3>1. plan.frontier + 1 \in 1..MaxId + 1
      BY <1>2, Bounds DEF Id
    <3> QED BY <2>1, <3>1 DEF CursorType
  <2>3. \A j \in 1..plan.frontier : j \in done \cup empty
    <3> TAKE j \in 1..plan.frontier
    <3>1. CASE j < plan.history
      BY <1>2, <3>1, Bounds DEF Accounts, Id
    <3>2. CASE j >= plan.history
      <4>1. j \in plan.history..plan.frontier
        BY <1>2, <3>2, Bounds DEF Id
      <4> QED BY <1>4, <4>1 DEF Accounts
    <3> QED BY <1>2, <3>1, <3>2, Bounds DEF Id
  <2>4. (plan.frontier + 1) - 1 = plan.frontier
    BY <1>2, Bounds DEF Id
  <2> QED BY <1>1, <1>4, <2>2, <2>3, <2>4
<1> QED BY <1>3, <1>4

LEMMA AccountsGrow ==
  ASSUME NEW plan, NEW done, NEW empty, NEW done2, NEW empty2, Accounts(plan, done, empty),
         done \subseteq done2, empty \subseteq empty2
  PROVE  Accounts(plan, done2, empty2)
BY DEF Accounts

LEMMA LocatedAccounts ==
  ASSUME NEW plan \in PlanType, NEW done, NEW empty, Accounts(plan, done, empty)
  PROVE  /\ Located(plan) \in PlanType /\ Accounts(Located(plan), done, empty)
         /\ Located(plan).history = plan.history
<1>1. plan.lower \in Id /\ plan.frontier \in Id /\ plan.pending \in SUBSET Id /\ plan.history \in 1..MaxId + 1
  BY DEF PlanType
<1>2. CASE plan.lower > plan.frontier
  <2> DEFINE more == plan.pending \cup (plan.frontier + 1..plan.lower)
  <2>1. more \in SUBSET Id /\ more \subseteq plan.history..plan.lower /\ plan.lower \in Nat /\ plan.history \in Nat
    <3>1. /\ plan.lower \in Nat /\ plan.frontier \in Nat /\ plan.lower <= MaxId /\ 1 <= plan.frontier
          /\ plan.history \in Nat /\ 1 <= plan.history
      BY <1>1, Bounds DEF Id
    <3>2. \A j \in more : j \in plan.history..plan.lower
      BY <1>2, <3>1 DEF Accounts
    <3>3. \A j \in plan.history..plan.lower : j \in Id
      BY <3>1, Bounds DEF Id
    <3> QED BY <3>1, <3>2, <3>3
  <2>2. more \subseteq Merge(more) /\ Merge(more) \subseteq Id /\ Merge(more) \subseteq plan.history..plan.lower
    <3> HIDE DEF more
    <3> QED BY <2>1, MergeAdds
  <2>3. Located(plan) = [plan EXCEPT !.pending = Merge(more), !.frontier = plan.lower, !.phase = "scan"]
    BY <1>2 DEF Located
  <2>4. plan.history..plan.lower \subseteq more \cup done
    <3> SUFFICES ASSUME NEW j \in plan.history..plan.lower PROVE j \in more \cup done
      OBVIOUS
    <3>1. CASE j <= plan.frontier
      <4>1. j \in plan.history..plan.frontier
        BY <1>1, <3>1, Bounds DEF Id
      <4> QED BY <4>1 DEF Accounts
    <3>2. CASE j > plan.frontier
      BY <1>1, <3>2, Bounds DEF Id
    <3> QED BY <1>1, <3>1, <3>2, Bounds DEF Id
  <2> HIDE DEF more
  <2>5. Located(plan) \in PlanType
    BY <1>1, <2>2, <2>3 DEF PlanType
  <2>6. /\ Located(plan).pending = Merge(more) /\ Located(plan).frontier = plan.lower
        /\ Located(plan).history = plan.history /\ Located(plan).lower = plan.lower
    BY <2>3 DEF PlanType
  <2> QED BY <1>1, <2>2, <2>4, <2>5, <2>6, Bounds DEF Accounts, Id
<1>3. CASE ~(plan.lower > plan.frontier)
  <2>1. Located(plan) = [plan EXCEPT !.pending = plan.pending, !.frontier = plan.lower, !.phase = "scan"]
    BY <1>3 DEF Located
  <2>2. Located(plan) \in PlanType
    BY <1>1, <2>1 DEF PlanType
  <2>3. /\ Located(plan).pending = plan.pending /\ Located(plan).frontier = plan.lower
        /\ Located(plan).history = plan.history /\ Located(plan).lower = plan.lower
    BY <2>1 DEF PlanType
  <2>4. plan.lower = plan.frontier
    BY <1>1, <1>3, Bounds DEF Accounts, Id
  <2> QED BY <2>2, <2>3, <2>4, <1>1, Bounds DEF Accounts, Id
<1> QED BY <1>2, <1>3

LEMMA BracketAccounts ==
  ASSUME NEW plan \in PlanType, NEW done, NEW empty, Accounts(plan, done, empty),
         NEW id \in Id, NEW a \in Answers
  PROVE  /\ Bracket(plan, id, a) \in PlanType /\ Accounts(Bracket(plan, id, a), done, empty)
         /\ Bracket(plan, id, a).history = plan.history
<1> DEFINE b == Bracket(plan, id, a)
<1>1. plan.lower \in Id /\ plan.frontier \in Id /\ plan.upper \in 0..MaxId /\ plan.step \in Nat \ {0}
  BY DEF PlanType
<1>2. a.status \in {"report", "empty", "error"}
  BY DEF Answers
<1>3. /\ b \in PlanType /\ b.pending = plan.pending /\ b.frontier = plan.frontier
      /\ b.history = plan.history /\ b.lower >= plan.lower
  <2>1. CASE Reported(a)
    <3> DEFINE low == IF plan.lower < id THEN id ELSE plan.lower
               t == [plan EXCEPT !.lower = low]
               up == IF 2 * plan.step > Leap THEN (IF 2 * plan.step < MaxId THEN 2 * plan.step ELSE MaxId) ELSE Leap
    <3>1. low \in Id /\ low >= plan.lower /\ up \in Nat \ {0} /\ Leap \in Nat \ {0} /\ 0 \in 0..MaxId
      BY <1>1, Bounds DEF Id
    <3> HIDE DEF low, up
    <3>2. /\ t \in PlanType /\ t.pending = plan.pending /\ t.frontier = plan.frontier
          /\ t.history = plan.history /\ t.lower = low
      BY <3>1 DEF PlanType
    <3>3. \/ b = [t EXCEPT !.step = up] \/ b = [t EXCEPT !.upper = 0, !.step = Leap] \/ b = t
      <4>1. t.step = plan.step
        BY DEF PlanType
      <4>2. t = [plan EXCEPT !.lower = IF plan.lower < id THEN id ELSE plan.lower]
        BY DEF low
      <4> HIDE DEF t
      <4>3. b = IF plan.upper = 0
                  THEN [t EXCEPT !.step = IF 2 * t.step > Leap THEN (IF 2 * t.step < MaxId THEN 2 * t.step ELSE MaxId)
                                          ELSE Leap]
                  ELSE IF id >= plan.upper THEN [t EXCEPT !.upper = 0, !.step = Leap] ELSE t
        BY <2>1, <4>2 DEF Bracket, None, Reported
      <4> QED BY <4>1, <4>3 DEF up
    <3> HIDE DEF t, b
    <3>4. CASE b = [t EXCEPT !.step = up]
      BY <3>1, <3>2, <3>4 DEF PlanType
    <3>5. CASE b = [t EXCEPT !.upper = 0, !.step = Leap]
      BY <3>1, <3>2, <3>5 DEF PlanType
    <3> QED BY <3>1, <3>2, <3>3, <3>4, <3>5
  <2>2. CASE a.status = "empty"
    <3>1. b = [plan EXCEPT !.upper = id]
      BY <2>2 DEF Bracket, Reported
    <3>2. id \in 0..MaxId
      BY Bounds DEF Id
    <3> HIDE DEF b
    <3> QED BY <1>1, <3>1, <3>2, Bounds DEF PlanType, Id
  <2>3. CASE a.status = "error"
    BY <1>1, <2>3, Bounds DEF Bracket, Reported, Id
  <2> QED BY <1>2, <2>1, <2>2, <2>3 DEF Reported
<1> QED BY <1>1, <1>3, Bounds DEF Accounts, Id, PlanType

LEMMA WithoutAccounts ==
  ASSUME NEW plan \in PlanType, NEW done, NEW empty, Accounts(plan, done, empty),
         NEW ids, ids \subseteq done
  PROVE  /\ Without(plan, ids) \in PlanType /\ Accounts(Without(plan, ids), done, empty)
         /\ Without(plan, ids).history = plan.history
<1>1. Without(plan, ids) = [plan EXCEPT !.pending = plan.pending \ ids, !.deferred = plan.deferred \ ids]
  BY DEF Without
<1>2. Without(plan, ids) \in PlanType
  BY <1>1 DEF PlanType
<1>3. /\ Without(plan, ids).pending = plan.pending \ ids /\ Without(plan, ids).frontier = plan.frontier
      /\ Without(plan, ids).history = plan.history /\ Without(plan, ids).lower = plan.lower
  BY <1>1 DEF PlanType
<1> QED BY <1>2, <1>3 DEF Accounts

LEMMA DeferredAccounts ==
  ASSUME NEW plan \in PlanType, NEW done, NEW empty, Accounts(plan, done, empty), NEW ids \in SUBSET Id
  PROVE  /\ [plan EXCEPT !.deferred = ids] \in PlanType /\ Accounts([plan EXCEPT !.deferred = ids], done, empty)
         /\ [plan EXCEPT !.deferred = ids].history = plan.history
BY DEF PlanType, Accounts

LEMMA PlanIsPlan == \A plan \in PlanType : plan # NoPlan
BY DEF PlanType, NoPlan

-----------------------------------------------------------------------------
(* Steps.  A step of one process leaves the others what they know: settled and *)
(* emptied only grow, and only the holder moves the position or pauses.        *)
LEMMA OneJob ==
  ASSUME KInv, NEW p \in Proc, NEW v \in JobType, job' = [job EXCEPT ![p] = v],
         cursor' \in CursorType, CursorOk(cursor', settled', emptied'),
         cursor.plan # NoPlan => cursor'.plan # NoPlan,
         settled \subseteq settled', settled' \subseteq Id, emptied \subseteq emptied', emptied' \subseteq Id,
         row' \in RowType, row'.running => row'.owner \in Proc,
         JobOk(v, cursor', settled', emptied'),
         Owned(p)' => HolderOk(v, cursor'),
         \A q \in Proc \ {p} : Owned(q)' =>
            Owned(q) /\ cursor'.next = cursor.next /\ cursor'.pause \in {"none", cursor.pause}
  PROVE  KInv'
<1>1. job' \in [Proc -> JobType] /\ job'[p] = v /\ \A q \in Proc \ {p} : job'[q] = job[q]
  BY DEF KInv, Types
<1>2. Types'
  BY <1>1 DEF Types
<1>3. ASSUME NEW q \in Proc
      PROVE  JobOk(job'[q], cursor', settled', emptied') /\ (Owned(q)' => HolderOk(job'[q], cursor'))
  <2>1. CASE q = p
    BY <1>1, <2>1
  <2>2. CASE q # p
    <3>1. job'[q] = job[q] /\ JobOk(job[q], cursor, settled, emptied)
      BY <1>1, <2>2 DEF KInv
    <3>2. JobOk(job[q], cursor', settled', emptied')
      BY <3>1 DEF JobOk
    <3>3. ASSUME Owned(q)' PROVE HolderOk(job[q], cursor')
      <4>1. /\ HolderOk(job[q], cursor) /\ cursor'.next = cursor.next
            /\ cursor'.pause \in {"none", cursor.pause}
        BY <2>2, <3>3 DEF KInv
      <4> QED BY <4>1 DEF HolderOk
    <3> QED BY <3>1, <3>2, <3>3
  <2> QED BY <2>1, <2>2
<1> QED BY <1>2, <1>3 DEF KInv

LEMMA InitHolds == Init => KInv
<1> SUFFICES ASSUME Init PROVE KInv
  OBVIOUS
<1>1. PICK last \in {0, 1} :
         cursor = [next |-> 1, provisional |-> 0, last |-> last, lastTime |-> IF last = 0 THEN 0 ELSE KillTime[last],
                   pause |-> "none", empties |-> 0, plan |-> NoPlan]
  BY DEF Init, None
<1>2. last \in 0..MaxId /\ (IF last = 0 THEN 0 ELSE KillTime[last]) \in Nat
  BY Bounds, KillAssumption DEF Id
<1>3. cursor \in CursorType
  BY <1>1, <1>2, Bounds DEF CursorType
<1>4. row \in RowType /\ ~row.running
  BY DEF Init, RowType, NoRow
<1>5. NoJob \in JobType
  BY Bounds DEF NoJob, JobType, StopReason, Places, None
<1>6. job \in [Proc -> JobType] /\ \A p \in Proc : job[p] = NoJob
  BY <1>5 DEF Init
<1>7. Types
  BY <1>3, <1>4, <1>6 DEF Types, Init
<1>8. CursorOk(cursor, settled, emptied)
  BY <1>1 DEF CursorOk
<1>9. \A p \in Proc : JobOk(NoJob, cursor, settled, emptied) /\ ~Owned(p)
  BY <1>4 DEF JobOk, NoJob, None, Owned
<1> QED BY <1>6, <1>7, <1>8, <1>9 DEF KInv

LEMMA IdleJob == NoJob \in JobType /\ \A c, done, empty : JobOk(NoJob, c, done, empty) /\ HolderOk(NoJob, c)
BY Bounds DEF NoJob, JobType, StopReason, Places, None, JobOk, HolderOk

(* Steps that only end a run, or touch the row.                                *)
LEMMA EndsKeep ==
  ASSUME KInv, NEW p \in Proc, EndRound(p) \/ LoseLease(p) \/ Raise(p) \/ Abort(p) \/ Crash(p)
  PROVE  KInv'
<1>1. UNCHANGED <<cursor, settled, emptied>> /\ (row' = row \/ row' = NoRow)
  BY DEF EndRound, LoseLease, Lost, Raise, Abort, Crash
<1>2. PICK v : /\ job' = [job EXCEPT ![p] = v]
               /\ \/ v = NoJob
                  \/ v = [job[p] EXCEPT !.pc = "finish"]
                  \/ v = [job[p] EXCEPT !.pc = "abort"]
  BY DEF EndRound, Halt, LoseLease, Lost, Raise, Go, Abort, Crash
<1>3. v \in JobType /\ JobOk(v, cursor', settled', emptied') /\ HolderOk(v, cursor')
  <2>1. job[p] \in JobType /\ JobOk(job[p], cursor, settled, emptied)
    BY DEF KInv, Types
  <2>2. CASE v = NoJob
    BY <2>2, IdleJob
  <2>3. ASSUME NEW place \in {"finish", "abort"}, v = [job[p] EXCEPT !.pc = place]
        PROVE  v \in JobType /\ JobOk(v, cursor', settled', emptied') /\ HolderOk(v, cursor')
    <3>1. /\ v \in JobType /\ v.pc = place /\ v.cheap = job[p].cheap /\ v.firstEmpty = job[p].firstEmpty
      BY <2>1, <2>3 DEF JobType, Places
    <3> QED BY <1>1, <2>1, <3>1 DEF JobOk, HolderOk
  <2> QED BY <1>2, <2>2, <2>3
<1>4. /\ row' \in RowType /\ (row'.running => row'.owner \in Proc)
      /\ \A q : Owned(q)' => Owned(q)
  <2>1. row \in RowType /\ (row.running => row.owner \in Proc)
    BY DEF KInv, Types
  <2>2. NoRow \in RowType /\ ~NoRow.running
    BY DEF NoRow, RowType
  <2> QED BY <1>1, <2>1, <2>2 DEF Owned
<1>5. cursor' \in CursorType /\ CursorOk(cursor', settled', emptied') /\ settled' \subseteq Id /\ emptied' \subseteq Id
  BY <1>1 DEF KInv, Types
<1> QED BY <1>1, <1>2, <1>3, <1>4, <1>5, OneJob

LEMMA ClaimKeeps ==
  ASSUME KInv, NEW p \in Proc, NEW kind \in {"collect", "probe"}, NEW resume \in BOOLEAN, Claim(p, kind, resume)
  PROVE  KInv'
<1> DEFINE v == [NoJob EXCEPT !.pc = "claimed", !.kind = kind]
<1>1. v \in JobType /\ \A c, done, empty : JobOk(v, c, done, empty) /\ HolderOk(v, c)
  <2>1. v \in JobType /\ v.pc = "claimed" /\ v.cheap = {} /\ v.firstEmpty = 0
    BY IdleJob DEF NoJob, JobType, StopReason, Places, None
  <2> HIDE DEF v
  <2> QED BY <2>1 DEF JobOk, HolderOk
<1>2. /\ cursor \in CursorType /\ CursorOk(cursor, settled, emptied)
      /\ settled \subseteq Id /\ emptied \subseteq Id
  BY DEF KInv, Types
<1>3. Recovered \in CursorType /\ CursorOk(Recovered, settled, emptied) /\ Recovered.plan = cursor.plan
  <2>1. CASE Recovered = cursor
    BY <1>2, <2>1
  <2>2. CASE cursor.provisional # 0 /\ Recovered = [cursor EXCEPT !.next = cursor.provisional, !.provisional = 0]
    <3>1. cursor.provisional \in 1..MaxId + 1 /\ 0 \in 0..MaxId
      BY <1>2, <2>2, Bounds DEF CursorType
    <3>2. /\ Recovered \in CursorType /\ Recovered.next = cursor.provisional /\ Recovered.provisional = 0
          /\ Recovered.plan = cursor.plan
      BY <1>2, <2>2, <3>1 DEF CursorType
    <3> QED BY <1>2, <3>2 DEF CursorOk
  <2> QED BY <2>1, <2>2 DEF Recovered, None
<1>4. cursor' \in CursorType /\ CursorOk(cursor', settled', emptied') /\ cursor'.plan = cursor.plan
  <2>1. UNCHANGED <<settled, emptied>> /\ (cursor' = Recovered \/ cursor' = [Recovered EXCEPT !.pause = "none"])
    BY DEF Claim, Resumed
  <2>2. CASE cursor' = [Recovered EXCEPT !.pause = "none"]
    <3>1. /\ cursor' \in CursorType /\ cursor'.next = Recovered.next /\ cursor'.plan = Recovered.plan
          /\ cursor'.provisional = Recovered.provisional
      BY <1>3, <2>2 DEF CursorType
    <3> QED BY <1>3, <2>1, <3>1 DEF CursorOk
  <2> QED BY <1>3, <2>1, <2>2
<1>5. /\ row' = [running |-> TRUE, owner |-> p, expired |-> FALSE] /\ job' = [job EXCEPT ![p] = v]
      /\ UNCHANGED <<settled, emptied>>
  BY DEF Claim
<1>6. row' \in RowType /\ row'.owner \in Proc /\ \A q \in Proc \ {p} : ~Owned(q)'
  BY <1>5 DEF RowType, Owned
<1> HIDE DEF v
<1> QED BY <1>1, <1>2, <1>4, <1>5, <1>6, OneJob

(* Starting a run.                                                             *)
LEMMA PrepareKeeps ==
  ASSUME KInv, NEW p \in Proc, Prepare(p)
  PROVE  KInv'
<1>1. /\ cursor \in CursorType /\ CursorOk(cursor, settled, emptied) /\ row \in RowType
      /\ settled \subseteq Id /\ emptied \subseteq Id /\ (row.running => row.owner \in Proc)
      /\ job[p] \in JobType /\ JobOk(job[p], cursor, settled, emptied)
  BY DEF KInv, Types
<1>2. UNCHANGED <<row, settled, emptied>>
  BY DEF Prepare
<1>3. CASE cursor' = cursor /\ job' = [job EXCEPT ![p].pc = "finish"]
  <2> DEFINE v == [job[p] EXCEPT !.pc = "finish"]
  <2>1. v \in JobType /\ v.pc = "finish" /\ v.cheap = job[p].cheap /\ v.firstEmpty = job[p].firstEmpty
    BY <1>1 DEF JobType, Places
  <2>2. job' = [job EXCEPT ![p] = v]
    BY <1>3
  <2> HIDE DEF v
  <2>3. JobOk(v, cursor, settled, emptied) /\ HolderOk(v, cursor)
    BY <1>1, <2>1 DEF JobOk, HolderOk
  <2>4. \A q : Owned(q)' => Owned(q)
    BY <1>2 DEF Owned
  <2> QED BY <1>1, <1>2, <1>3, <2>1, <2>2, <2>3, <2>4, OneJob
<1>4. CASE cursor' = cursor /\ cursor.pause = "none" /\ job[p].kind = "probe" /\ job' = [job EXCEPT ![p].pc = "load"]
  <2> DEFINE v == [job[p] EXCEPT !.pc = "load"]
  <2>1. /\ v \in JobType /\ v.pc = "load" /\ v.cheap = job[p].cheap /\ v.firstEmpty = job[p].firstEmpty
        /\ v.kind = "probe"
    BY <1>1, <1>4 DEF JobType, Places
  <2>2. job' = [job EXCEPT ![p] = v]
    BY <1>4
  <2> HIDE DEF v
  <2>3. JobOk(v, cursor, settled, emptied) /\ HolderOk(v, cursor)
    BY <1>1, <1>4, <2>1 DEF JobOk, HolderOk
  <2>4. \A q : Owned(q)' => Owned(q)
    BY <1>2 DEF Owned
  <2> QED BY <1>1, <1>2, <1>4, <2>1, <2>2, <2>3, <2>4, OneJob
<1>5. ASSUME NEW plan, plan = Round(IF cursor.plan = NoPlan THEN NewPlan(cursor) ELSE cursor.plan),
             cursor.plan = NoPlan => MayStart(cursor),
             cursor.pause = "none", job[p].kind = "collect", Owned(p), cursor' = WithPlan(cursor, plan),
             job' = [job EXCEPT ![p].pc = "load", ![p].recheck = plan.upper]
      PROVE  KInv'
  <2>1. plan \in PlanType /\ Accounts(plan, settled, emptied)
    <3>1. CASE cursor.plan = NoPlan
      BY <1>1, <1>5, <3>1, NewPlanAccounts, RoundAccounts DEF CursorOk
    <3>2. CASE cursor.plan # NoPlan
      <4>1. cursor.plan \in PlanType /\ Accounts(cursor.plan, settled, emptied)
        BY <1>1, <3>2 DEF CursorOk, CursorType
      <4> QED BY <1>5, <3>2, <4>1, RoundAccounts
    <3> QED BY <3>1, <3>2
  <2>2. /\ cursor' \in CursorType /\ 1..cursor'.next - 1 \subseteq settled \cup emptied
        /\ cursor'.plan = plan /\ cursor'.pause = "none" /\ cursor'.provisional = cursor.provisional
    BY <1>1, <1>5, <2>1, WithPlanPosition
  <2>3. plan # NoPlan /\ plan.upper \in 0..MaxId
    BY <2>1, PlanIsPlan DEF PlanType
  <2>4. CursorOk(cursor', settled', emptied')
    BY <1>1, <1>2, <2>1, <2>2 DEF CursorOk
  <2> DEFINE v == [job[p] EXCEPT !.pc = "load", !.recheck = plan.upper]
  <2>5. /\ v \in JobType /\ v.pc = "load" /\ v.cheap = job[p].cheap /\ v.firstEmpty = job[p].firstEmpty
        /\ v.kind = "collect"
    BY <1>1, <1>5, <2>3 DEF JobType, Places
  <2>6. job' = [job EXCEPT ![p] = v]
    BY <1>5 DEF KInv, Types
  <2> HIDE DEF v
  <2>7. JobOk(v, cursor', settled', emptied') /\ HolderOk(v, cursor')
    BY <1>1, <1>2, <2>2, <2>3, <2>5 DEF JobOk, HolderOk
  <2>8. \A q \in Proc \ {p} : ~Owned(q)'
    BY <1>2, <1>5 DEF Owned
  <2> QED BY <1>1, <1>2, <2>2, <2>3, <2>4, <2>5, <2>6, <2>7, <2>8, OneJob
<1> QED
  BY <1>3, <1>4, <1>5 DEF Prepare, Halt, Go, Blocked

LEMMA LoadKeeps ==
  ASSUME KInv, NEW p \in Proc, LoadSession(p)
  PROVE  KInv'
<1>1. /\ cursor \in CursorType /\ CursorOk(cursor, settled, emptied) /\ row \in RowType
      /\ settled \subseteq Id /\ emptied \subseteq Id /\ (row.running => row.owner \in Proc)
      /\ job[p] \in JobType /\ JobOk(job[p], cursor, settled, emptied) /\ job[p].pc = "load"
      /\ (Owned(p) => HolderOk(job[p], cursor))
  BY DEF KInv, Types, LoadSession
<1>2. UNCHANGED <<row, settled, emptied>>
  BY DEF LoadSession
<1>3. CASE Owned(p) /\ cursor' = [cursor EXCEPT !.pause = "unauthorized"] /\ job' = [job EXCEPT ![p].pc = "finish"]
  <2> DEFINE v == [job[p] EXCEPT !.pc = "finish"]
  <2>1. v \in JobType /\ v.pc = "finish" /\ v.cheap = job[p].cheap /\ v.firstEmpty = job[p].firstEmpty
    BY <1>1 DEF JobType, Places
  <2>2. job' = [job EXCEPT ![p] = v]
    BY <1>3
  <2> HIDE DEF v
  <2>3. /\ cursor' \in CursorType /\ cursor'.next = cursor.next /\ cursor'.plan = cursor.plan
        /\ cursor'.provisional = cursor.provisional
    BY <1>1, <1>3 DEF CursorType
  <2>4. /\ CursorOk(cursor', settled', emptied')
        /\ JobOk(v, cursor', settled', emptied') /\ HolderOk(v, cursor')
    BY <1>1, <1>2, <2>1, <2>3 DEF JobOk, HolderOk, CursorOk
  <2>5. \A q \in Proc \ {p} : ~Owned(q)'
    BY <1>2, <1>3 DEF Owned
  <2> QED BY <1>1, <1>2, <2>1, <2>2, <2>3, <2>4, <2>5, OneJob
<1>4. CASE /\ cursor' = [cursor EXCEPT !.empties = 0] \/ cursor' = cursor
           /\ job' = [job EXCEPT ![p].pc = "ask"]
  <2> DEFINE v == [job[p] EXCEPT !.pc = "ask"]
  <2>1. /\ v \in JobType /\ v.pc = "ask" /\ v.cheap = job[p].cheap /\ v.firstEmpty = job[p].firstEmpty
        /\ v.kind = job[p].kind
    BY <1>1 DEF JobType, Places
  <2>2. job' = [job EXCEPT ![p] = v]
    BY <1>4
  <2> HIDE DEF v
  <2>3. /\ cursor' \in CursorType /\ cursor'.next = cursor.next /\ cursor'.plan = cursor.plan
        /\ cursor'.provisional = cursor.provisional /\ cursor'.pause = cursor.pause
    BY <1>1, <1>4, Bounds DEF CursorType
  <2>4. /\ CursorOk(cursor', settled', emptied')
        /\ JobOk(v, cursor', settled', emptied') /\ (Owned(p) => HolderOk(v, cursor'))
    BY <1>1, <1>2, <2>1, <2>3 DEF JobOk, HolderOk, CursorOk
  <2>5. \A q : Owned(q)' => Owned(q)
    BY <1>2 DEF Owned
  <2> QED BY <1>1, <1>2, <2>1, <2>2, <2>3, <2>4, <2>5, OneJob
<1> QED
  BY <1>3, <1>4 DEF LoadSession, Halt, Go

(* The id asked for is an id; a probe's is the position.                       *)
LEMMA CandidateIsId ==
  ASSUME KInv, NEW p \in Proc, job[p].pc = "ask", NEW id \in Candidates(p)
  PROVE  id \in Id /\ (job[p].kind = "probe" => id = cursor.next)
<1>1. cursor \in CursorType /\ job[p] \in JobType /\ JobOk(job[p], cursor, settled, emptied)
  BY DEF KInv, Types
<1>2. CASE job[p].kind = "probe"
  <2>1. cursor.next # 0
    BY <1>1, Bounds DEF CursorType
  <2>2. id \in {cursor.next} \cap Id
    BY <1>2, <2>1 DEF Candidates, ProbeNext, None
  <2> QED BY <2>2
<1>3. CASE job[p].kind # "probe"
  <2> DEFINE s == cursor.plan
  <2>1. s \in PlanType
    BY <1>1, <1>3 DEF JobOk, CursorType
  <2>2. /\ s.lower \in Id /\ s.upper \in 0..MaxId /\ s.step \in Nat \ {0}
        /\ s.pending \subseteq Id /\ job[p].recheck \in 0..MaxId
    BY <1>1, <2>1 DEF PlanType, JobType
  <2>3. CASE Locating(p)
    <3>1. id \in LocateNext(p)
      BY <1>3, <2>3 DEF Candidates
    <3>2. CASE job[p].recheck # 0
      <4>1. id = job[p].recheck
        BY <3>1, <3>2 DEF LocateNext, None
      <4> QED BY <1>3, <2>2, <3>2, <4>1, Bounds DEF Id
    <3>3. CASE job[p].recheck = 0 /\ s.upper # 0
      <4>1. id = (s.lower + s.upper) \div 2
        BY <3>1, <3>3 DEF LocateNext, None
      <4>2. s.lower \in 1..MaxId /\ s.upper \in 1..MaxId
        BY <2>2, <3>3, Bounds DEF Id
      <4> HIDE DEF s
      <4> QED BY <1>3, <4>1, <4>2, Bounds DEF Id
    <3>4. CASE job[p].recheck = 0 /\ s.upper = 0
      <4>1. id = IF s.lower + s.step < MaxId THEN s.lower + s.step ELSE MaxId
        BY <3>1, <3>4 DEF LocateNext, None
      <4> HIDE DEF s
      <4> QED BY <1>3, <2>2, <4>1, Bounds DEF Id
    <3> QED BY <3>2, <3>3, <3>4
  <2>4. CASE ~Locating(p)
    <3> DEFINE due == s.pending \ s.deferred
    <3>1. due \in SUBSET Nat /\ due \in SUBSET (0..MaxId) /\ due \subseteq Id
      BY <2>2, Bounds DEF Id
    <3>2. due # {} /\ (id = Min(due) \/ id = Max(due))
      BY <1>3, <2>4 DEF Candidates, ScanNext
    <3> HIDE DEF due
    <3>3. Min(due) \in due /\ Max(due) \in due
      BY <3>1, <3>2, Least, Greatest, Bounds
    <3> QED BY <1>3, <3>1, <3>2, <3>3
  <2> QED BY <2>3, <2>4
<1> QED BY <1>2, <1>3

LEMMA AskKeeps ==
  ASSUME KInv, NEW p \in Proc, Ask(p)
  PROVE  KInv'
<1>1. /\ cursor \in CursorType /\ CursorOk(cursor, settled, emptied) /\ row \in RowType
      /\ settled \subseteq Id /\ emptied \subseteq Id /\ (row.running => row.owner \in Proc)
      /\ job[p] \in JobType /\ JobOk(job[p], cursor, settled, emptied) /\ job[p].pc = "ask"
      /\ HolderOk(job[p], cursor) /\ job[p].stop = "none" /\ Owned(p)
  BY DEF KInv, Types, Ask, Spent
<1>2. UNCHANGED <<cursor, settled, emptied>> /\ row' = [row EXCEPT !.expired = FALSE]
  BY DEF Ask
<1>3. PICK id \in Candidates(p), phase \in {"probe", "locate", "scan"}, recheck \in {0, job[p].recheck},
           scanned \in Nat, located \in Nat :
        job' = [job EXCEPT ![p] = [@ EXCEPT
                    !.pc = "asked", !.ask = id, !.phase = phase, !.recheck = recheck,
                    !.scanned = scanned, !.located = located]]
  <2>1. PICK id \in Candidates(p) :
         job' = [job EXCEPT ![p] = [job[p] EXCEPT
                    !.pc = "asked", !.ask = id,
                    !.phase = IF job[p].kind = "probe" THEN "probe" ELSE IF Locating(p) THEN "locate" ELSE "scan",
                    !.recheck = IF Locating(p) THEN 0 ELSE job[p].recheck,
                    !.scanned = IF job[p].kind = "probe" \/ Locating(p) THEN job[p].scanned
                                ELSE (job[p].scanned + 1) % HistoryEvery,
                    !.located = IF job[p].kind = "collect" /\ Locating(p) THEN job[p].located + 1
                                ELSE job[p].located]]
    BY Zenon DEF Ask, None
  <2> DEFINE phase == IF job[p].kind = "probe" THEN "probe" ELSE IF Locating(p) THEN "locate" ELSE "scan"
             recheck == IF Locating(p) THEN 0 ELSE job[p].recheck
             scanned == IF job[p].kind = "probe" \/ Locating(p) THEN job[p].scanned
                        ELSE (job[p].scanned + 1) % HistoryEvery
             located == IF job[p].kind = "collect" /\ Locating(p) THEN job[p].located + 1 ELSE job[p].located
  <2>2. job[p].scanned \in Nat /\ job[p].located \in Nat /\ HistoryEvery \in Nat \ {0}
    BY <1>1, KillAssumption DEF JobType
  <2>3. (job[p].scanned + 1) % HistoryEvery \in Nat
    BY <2>2
  <2>4. phase \in {"probe", "locate", "scan"} /\ recheck \in {0, job[p].recheck} /\ scanned \in Nat /\ located \in Nat
    BY <2>2, <2>3
  <2>5. job' = [job EXCEPT ![p] = [job[p] EXCEPT
                    !.pc = "asked", !.ask = id, !.phase = phase, !.recheck = recheck,
                    !.scanned = scanned, !.located = located]]
    BY <2>1
  <2> HIDE DEF phase, recheck, scanned, located
  <2> QED BY <2>4, <2>5
<1>4. id \in Id /\ (job[p].kind = "probe" => id = cursor.next)
  BY <1>1, CandidateIsId
<1> DEFINE v == [job[p] EXCEPT !.pc = "asked", !.ask = id, !.phase = phase, !.recheck = recheck,
                               !.scanned = scanned, !.located = located]
<1>5. id \in 0..MaxId /\ 0 \in 0..MaxId
  BY <1>4, Bounds DEF Id
<1>6. /\ v \in JobType /\ v.pc = "asked" /\ v.ask = id /\ v.cheap = job[p].cheap
      /\ v.firstEmpty = job[p].firstEmpty /\ v.kind = job[p].kind
  BY <1>1, <1>5 DEF JobType, Places
<1>7. job' = [job EXCEPT ![p] = v]
  BY <1>3
<1> HIDE DEF v
<1>8. JobOk(v, cursor', settled', emptied') /\ HolderOk(v, cursor')
  BY <1>1, <1>2, <1>4, <1>6 DEF JobOk, HolderOk
<1>9. row' \in RowType /\ row'.owner \in Proc /\ \A q : Owned(q)' => Owned(q)
  BY <1>1, <1>2 DEF RowType, Owned
<1> QED BY <1>1, <1>2, <1>6, <1>7, <1>8, <1>9, OneJob

LEMMA FinishKeeps ==
  ASSUME KInv, NEW p \in Proc, Finish(p)
  PROVE  KInv'
<1>1. /\ cursor \in CursorType /\ CursorOk(cursor, settled, emptied) /\ row \in RowType
      /\ settled \subseteq Id /\ emptied \subseteq Id
      /\ job[p] \in JobType /\ JobOk(job[p], cursor, settled, emptied)
  BY DEF KInv, Types
<1>2. /\ row' = NoRow /\ job' = [job EXCEPT ![p] = NoJob] /\ UNCHANGED <<settled, emptied>>
      /\ \/ cursor' = cursor
         \/ /\ job[p].firstEmpty # 0
            /\ cursor' = [cursor EXCEPT !.next = job[p].firstEmpty, !.provisional = 0]
  BY DEF Finish, None
<1>3. cursor' \in CursorType /\ CursorOk(cursor', settled', emptied') /\ cursor'.plan = cursor.plan
  <2>1. CASE job[p].firstEmpty # 0 /\ cursor' = [cursor EXCEPT !.next = job[p].firstEmpty, !.provisional = 0]
    <3>1. job[p].firstEmpty \in 1..MaxId + 1 /\ 0 \in 0..MaxId
      BY <1>1, <2>1, Bounds DEF JobType
    <3>2. /\ cursor' \in CursorType /\ cursor'.next = job[p].firstEmpty /\ cursor'.provisional = 0
          /\ cursor'.plan = cursor.plan
      BY <1>1, <2>1, <3>1 DEF CursorType
    <3> QED BY <1>1, <1>2, <3>2 DEF CursorOk, JobOk
  <2> QED BY <1>1, <1>2, <2>1
<1>4. NoRow \in RowType /\ ~NoRow.running /\ \A q : ~Owned(q)'
  BY <1>2 DEF NoRow, RowType, Owned
<1> QED BY <1>1, <1>2, <1>3, <1>4, IdleJob, OneJob

(* A report or a pause leaves the position and the plan alone.                 *)
LEMMA PausedKeeps ==
  ASSUME NEW c \in CursorType, NEW stop
  PROVE  /\ Paused(c, stop) \in CursorType /\ Paused(c, stop).next = c.next
         /\ Paused(c, stop).provisional = c.provisional /\ Paused(c, stop).plan = c.plan
         /\ Paused(c, stop).pause = IF stop \in {"rate_limited", "unauthorized"} THEN stop ELSE c.pause
         /\ Resumed(c) \in CursorType /\ Resumed(c).next = c.next
         /\ Resumed(c).provisional = c.provisional /\ Resumed(c).plan = c.plan /\ Resumed(c).pause = "none"
BY DEF Paused, Pauses, Resumed, CursorType

LEMMA AnswerStops == \A a \in Answers : a.stop \in StopReason
BY DEF Answers, StopReason

LEMMA WhyStops == \A a \in Answers : Why(a) \in StopReason /\ Why(a) # "none"
BY AnswerStops DEF Why, StopReason

LEMMA NotedJob ==
  ASSUME NEW p \in Proc, job[p] \in JobType, NEW a \in Answers
  PROVE  /\ Noted(p, a) \in JobType /\ Noted(p, a).pc = "ask" /\ Noted(p, a).cheap = job[p].cheap
         /\ Noted(p, a).firstEmpty = job[p].firstEmpty /\ Noted(p, a).kind = job[p].kind
         /\ Noted(p, a).stop = a.stop
<1>1. job[p].requests + 1 \in Nat /\ 0 \in 0..MaxId
  BY Bounds DEF JobType
<1> QED BY <1>1, AnswerStops DEF Noted, JobType, Places, None

(* Whatever the answer, a run that recorded it goes on to its next id.         *)
LEMMA AnswerNoted ==
  ASSUME job \in [Proc -> JobType], NEW p \in Proc, Record(p)
  PROVE  \E v : v.pc = "ask" /\ job' = [job EXCEPT ![p] = v]
<1>1. PICK a \in Answers : IF job[p].kind = "probe" THEN RecordProbe(p, a) ELSE RecordFresh(p, a)
  BY DEF Record
<1>2. Noted(p, a) \in JobType /\ Noted(p, a).pc = "ask"
  BY NotedJob
<1>3. CASE job[p].kind = "probe"
  <2>1. RecordProbe(p, a)
    BY <1>1, <1>3
  <2>2. CASE job' = [job EXCEPT ![p] = [Noted(p, a) EXCEPT !.firstEmpty = None]]
    BY <1>2, <2>2 DEF JobType
  <2>3. CASE job' = [job EXCEPT ![p] = [Noted(p, a) EXCEPT !.stop = Why(a)]]
    BY <1>2, <2>3 DEF JobType
  <2>4. ASSUME NEW first, NEW stop,
               job' = [job EXCEPT ![p] = [Noted(p, a) EXCEPT !.firstEmpty = first, !.stop = stop]]
        PROVE  \E v : v.pc = "ask" /\ job' = [job EXCEPT ![p] = v]
    BY <1>2, <2>4 DEF JobType
  <2> QED BY <2>1, <2>2, <2>3, <2>4, Zenon DEF RecordProbe
<1>4. CASE job[p].kind # "probe"
  <2>1. \E cheap, reports : job' = [job EXCEPT ![p] = [Noted(p, a) EXCEPT !.cheap = cheap, !.reports = reports]]
    BY <1>1, <1>4 DEF RecordFresh
  <2> QED BY <1>2, <2>1 DEF JobType
<1> QED BY <1>3, <1>4

LEMMA RecordProbeKeeps ==
  ASSUME KInv, NEW p \in Proc, NEW a \in Answers, job[p].pc = "asked", Owned(p), job[p].kind = "probe",
         UNCHANGED row, RecordProbe(p, a)
  PROVE  KInv'
<1> DEFINE id == job[p].ask
<1>1. /\ cursor \in CursorType /\ CursorOk(cursor, settled, emptied) /\ row \in RowType
      /\ settled \subseteq Id /\ emptied \subseteq Id /\ (row.running => row.owner \in Proc)
      /\ job[p] \in JobType /\ JobOk(job[p], cursor, settled, emptied)
      /\ id \in Id /\ id = cursor.next /\ cursor.pause = "none"
  BY DEF KInv, Types, JobOk, HolderOk
<1>2. \A q \in Proc \ {p} : ~Owned(q)'
  BY DEF Owned
<1>3. id \in Nat /\ id + 1 \in 1..MaxId + 1 /\ id \in 0..MaxId /\ 0 \in 0..MaxId /\ 0 \in 0..EmptyThreshold
      /\ KillTime[id] \in Nat /\ (id + 1) - 1 = id
  <2>1. MaxId \in Nat /\ EmptyThreshold \in Nat /\ id \in 1..MaxId
    BY <1>1, Bounds DEF Id
  <2>2. KillTime[id] \in Nat
    BY <1>1, KillAssumption
  <2> HIDE DEF id
  <2> QED BY <2>1, <2>2
<1>4. \A done, empty : settled \subseteq done /\ emptied \subseteq empty /\ id \in done \cup empty
        => 1..id \subseteq done \cup empty
  <2> SUFFICES ASSUME NEW done, NEW empty, settled \subseteq done, emptied \subseteq empty, id \in done \cup empty,
                      NEW i \in 1..id
               PROVE  i \in done \cup empty
    OBVIOUS
  <2>1. i = id \/ i \in 1..cursor.next - 1
    BY <1>1, <1>3
  <2> QED BY <1>1, <2>1 DEF CursorOk
<1>5. Noted(p, a) \in JobType /\ Noted(p, a).pc = "ask" /\ Noted(p, a).cheap = job[p].cheap
      /\ Noted(p, a).firstEmpty = job[p].firstEmpty /\ Noted(p, a).kind = job[p].kind
      /\ Noted(p, a).stop = a.stop
  BY <1>1, NotedJob
<1>6. CASE Reported(a) /\ ~Reversed(id)
  <2> DEFINE passed == [cursor EXCEPT !.last = id, !.lastTime = KillTime[id], !.empties = 0,
                                 !.provisional = 0, !.next = id + 1]
             lifted == IF Whole(a) THEN Resumed(passed) ELSE passed
             v == [Noted(p, a) EXCEPT !.firstEmpty = 0]
  <2>1. /\ cursor' = Paused(lifted, a.stop) /\ settled' = settled \cup {id} /\ emptied' = emptied
        /\ job' = [job EXCEPT ![p] = v]
    BY <1>6 DEF RecordProbe, Reported, None, Answers
  <2>2. /\ passed \in CursorType /\ passed.next = id + 1 /\ passed.provisional = 0 /\ passed.plan = cursor.plan
        /\ passed.pause = "none"
    BY <1>1, <1>3 DEF CursorType
  <2> HIDE DEF passed
  <2>3. /\ lifted \in CursorType /\ lifted.next = id + 1 /\ lifted.provisional = 0 /\ lifted.plan = cursor.plan
        /\ lifted.pause = "none"
    BY <2>2, PausedKeeps
  <2> HIDE DEF lifted
  <2>4. /\ cursor' \in CursorType /\ cursor'.next = id + 1 /\ cursor'.provisional = 0 /\ cursor'.plan = cursor.plan
        /\ cursor'.pause = "none" \/ a.stop # "none"
    BY <2>1, <2>3, PausedKeeps
  <2>5. /\ v \in JobType /\ v.pc = "ask" /\ v.cheap = job[p].cheap /\ v.firstEmpty = 0 /\ v.kind = "probe"
        /\ (a.stop # "none" => v.stop # "none")
    BY <1>3, <1>5 DEF JobType
  <2> HIDE DEF v
  <2>6. CursorOk(cursor', settled', emptied')
    BY <1>1, <1>3, <1>4, <2>1, <2>4, AccountsGrow DEF CursorOk
  <2>7. JobOk(v, cursor', settled', emptied') /\ HolderOk(v, cursor')
    BY <1>1, <2>1, <2>4, <2>5 DEF JobOk, HolderOk
  <2> QED BY <1>1, <1>2, <2>1, <2>4, <2>5, <2>6, <2>7, OneJob
<1>7. CASE cursor' = Paused(cursor, a.stop) /\ job' = [job EXCEPT ![p] = [Noted(p, a) EXCEPT !.stop = Why(a)]]
           /\ UNCHANGED <<settled, emptied>>
  <2> DEFINE v == [Noted(p, a) EXCEPT !.stop = Why(a)]
  <2>1. /\ cursor' \in CursorType /\ cursor'.next = cursor.next /\ cursor'.provisional = cursor.provisional
        /\ cursor'.plan = cursor.plan
    BY <1>1, <1>7, PausedKeeps
  <2>2. /\ v \in JobType /\ v.pc = "ask" /\ v.cheap = job[p].cheap /\ v.firstEmpty = job[p].firstEmpty
        /\ v.kind = "probe" /\ v.stop # "none"
    BY <1>5, WhyStops DEF JobType
  <2>3. job' = [job EXCEPT ![p] = v]
    BY <1>7
  <2> HIDE DEF v
  <2>4. CursorOk(cursor', settled', emptied') /\ JobOk(v, cursor', settled', emptied') /\ HolderOk(v, cursor')
    BY <1>1, <1>7, <2>1, <2>2 DEF CursorOk, JobOk, HolderOk
  <2> QED BY <1>1, <1>2, <1>7, <2>1, <2>2, <2>3, <2>4, OneJob
<1>8. CASE a.status = "empty"
  <2> DEFINE first == IF job[p].firstEmpty = 0 THEN id ELSE job[p].firstEmpty
             count == IF cursor.empties < EmptyThreshold THEN cursor.empties + 1 ELSE cursor.empties
             back == IF job[p].firstEmpty = 0 THEN id ELSE cursor.provisional
             empty == [cursor EXCEPT !.next = id + 1, !.empties = count, !.provisional = back]
             full == IF Threshold(empty) THEN "empty_threshold" ELSE "none"
             v == [Noted(p, a) EXCEPT !.firstEmpty = first, !.stop = full]
  <2>1. /\ cursor' = empty /\ settled' = settled /\ emptied' = emptied \cup {id}
        /\ job' = [job EXCEPT ![p] = v]
    BY <1>8 DEF RecordProbe, Reported, None, Answers
  <2>2. /\ first \in 0..MaxId /\ count \in 0..EmptyThreshold /\ back \in 0..MaxId
        /\ 1..first - 1 \subseteq settled \cup emptied /\ 1..back - 1 \subseteq settled \cup emptied
    BY <1>1, <1>3, Bounds DEF JobType, CursorType, JobOk, CursorOk
  <2> HIDE DEF first, count, back
  <2>3. /\ empty \in CursorType /\ empty.next = id + 1 /\ empty.provisional = back /\ empty.plan = cursor.plan
        /\ empty.pause = "none"
    BY <1>1, <1>3, <2>2 DEF CursorType
  <2>4. full \in StopReason
    BY DEF StopReason
  <2> HIDE DEF empty, full
  <2>5. /\ v \in JobType /\ v.pc = "ask" /\ v.cheap = job[p].cheap /\ v.firstEmpty = first /\ v.kind = "probe"
    BY <1>5, <2>2, <2>4 DEF JobType
  <2> HIDE DEF v
  <2>6. CursorOk(cursor', settled', emptied')
    BY <1>1, <1>3, <1>4, <2>1, <2>2, <2>3, AccountsGrow DEF CursorOk
  <2>7. JobOk(v, cursor', settled', emptied') /\ HolderOk(v, cursor')
    BY <1>1, <2>1, <2>2, <2>3, <2>5 DEF JobOk, HolderOk
  <2> QED BY <1>1, <1>2, <2>1, <2>3, <2>5, <2>6, <2>7, OneJob
<1> QED
  BY <1>6, <1>7, <1>8 DEF RecordProbe

(* A collector's answer narrows the search, may close it, and takes from the   *)
(* pending ids only what is settled.                                           *)
LEMMA FreshPlan ==
  ASSUME KInv, NEW p \in Proc, NEW a \in Answers, job[p].pc = "asked", Owned(p), job[p].kind # "probe",
         UNCHANGED row, RecordFresh(p, a)
  PROVE  /\ cursor.plan # NoPlan /\ job[p].kind = "collect"
         /\ settled \subseteq settled' /\ settled' \subseteq Id /\ emptied' = emptied
         /\ \E plan \in PlanType, c \in CursorType, cheap \in SUBSET Id, reports \in BOOLEAN :
              /\ Accounts(plan, settled', emptied') /\ plan.history = cursor.plan.history
              /\ c.provisional = cursor.provisional /\ (c.pause = "none" \/ a.stop # "none")
              /\ cursor' = WithPlan(c, plan)
              /\ cheap \subseteq settled' /\ job' = [job EXCEPT ![p] = [Noted(p, a) EXCEPT !.cheap = cheap, !.reports = reports]]
<1> DEFINE id == job[p].ask
           locating == job[p].phase = "locate"
           narrowed == IF locating THEN Bracket(cursor.plan, id, a) ELSE cursor.plan
           closed == locating /\ Closed(narrowed, a)
           moved == IF closed THEN Located(narrowed) ELSE narrowed
           cheap == job[p].cheap \cup (IF locating /\ Whole(a) /\ a.cheap THEN {id} ELSE {})
           plan == CASE ~locating /\ Whole(a) -> Without(moved, {id})
                  [] ~locating /\ a.status = "empty" -> [moved EXCEPT !.deferred = moved.deferred \cup {id}]
                  [] closed /\ a.stop = "none" -> Without(moved, cheap)
                  [] OTHER -> moved
           reports == Noted(p, a).reports \/ Reported(a)
           newest == IF Reported(a) /\ id > cursor.last
                    THEN [cursor EXCEPT !.last = id, !.lastTime = KillTime[id]] ELSE cursor
           lifted == IF Reported(a) THEN Resumed(newest) ELSE newest
<1>1. /\ cursor \in CursorType /\ CursorOk(cursor, settled, emptied) /\ row \in RowType
      /\ settled \subseteq Id /\ emptied \subseteq Id /\ (row.running => row.owner \in Proc)
      /\ job[p] \in JobType /\ JobOk(job[p], cursor, settled, emptied)
      /\ id \in Id /\ job[p].kind = "collect" /\ cursor.plan # NoPlan /\ cursor.pause = "none"
  BY DEF KInv, Types, JobOk, HolderOk
<1>3. /\ cursor' = WithPlan(Paused(lifted, a.stop), plan) /\ job' = [job EXCEPT ![p] = [Noted(p, a) EXCEPT !.cheap = cheap, !.reports = reports]]
      /\ settled' = (IF Whole(a) /\ (~locating \/ a.cheap) THEN settled \cup {id} ELSE settled)
      /\ emptied' = emptied
  BY Zenon DEF RecordFresh
<1>4. /\ settled \subseteq settled' /\ settled' \subseteq Id /\ cheap \subseteq settled' /\ cheap \subseteq Id
      /\ ~locating /\ Whole(a) => id \in settled'
  BY <1>1, <1>3 DEF JobOk
<1>5. moved \in PlanType /\ Accounts(moved, settled', emptied') /\ moved.history = cursor.plan.history
  <2>1. cursor.plan \in PlanType /\ Accounts(cursor.plan, settled', emptied')
    <3>1. cursor.plan \in PlanType
      BY <1>1 DEF CursorType
    <3>2. Accounts(cursor.plan, settled, emptied) /\ settled \subseteq settled' /\ emptied \subseteq emptied'
      BY <1>1, <1>3, <1>4 DEF CursorOk
    <3> QED BY <3>1, <3>2, AccountsGrow
  <2>2. narrowed \in PlanType /\ Accounts(narrowed, settled', emptied') /\ narrowed.history = cursor.plan.history
    BY <1>1, <2>1, BracketAccounts
  <2> HIDE DEF narrowed
  <2> QED BY <2>2, LocatedAccounts
<1>6. plan \in PlanType /\ Accounts(plan, settled', emptied') /\ plan.history = cursor.plan.history
  <2> HIDE DEF moved, closed, locating, cheap
  <2>1. \/ ~locating /\ Whole(a) /\ plan = Without(moved, {id})
        \/ plan = [moved EXCEPT !.deferred = moved.deferred \cup {id}]
        \/ plan = Without(moved, cheap)
        \/ plan = moved
    OBVIOUS
  <2> HIDE DEF plan
  <2>2. CASE ~locating /\ Whole(a) /\ plan = Without(moved, {id})
    BY <1>4, <1>5, <2>2, WithoutAccounts
  <2>3. CASE plan = [moved EXCEPT !.deferred = moved.deferred \cup {id}]
    <3>1. moved.deferred \cup {id} \in SUBSET Id
      BY <1>1, <1>5 DEF PlanType
    <3> QED BY <1>5, <2>3, <3>1, DeferredAccounts
  <2>4. CASE plan = Without(moved, cheap)
    BY <1>4, <1>5, <2>4, WithoutAccounts
  <2> QED BY <1>5, <2>1, <2>2, <2>3, <2>4
<1>7. newest \in CursorType /\ newest.provisional = cursor.provisional /\ newest.pause = "none"
  <2>1. id \in 0..MaxId /\ KillTime[id] \in Nat
    BY <1>1, Bounds, KillAssumption DEF Id
  <2> QED BY <1>1, <2>1 DEF CursorType
<1>8. lifted \in CursorType /\ lifted.provisional = cursor.provisional /\ lifted.pause = "none"
  <2> HIDE DEF newest
  <2> QED BY <1>7, PausedKeeps
<1> HIDE DEF plan, lifted, cheap
<1>9. /\ Paused(lifted, a.stop) \in CursorType /\ Paused(lifted, a.stop).provisional = cursor.provisional
      /\ Paused(lifted, a.stop).pause = "none" \/ a.stop # "none"
  BY <1>8, PausedKeeps
<1> QED BY <1>1, <1>3, <1>4, <1>6, <1>9

LEMMA RecordFreshKeeps ==
  ASSUME KInv, NEW p \in Proc, NEW a \in Answers, job[p].pc = "asked", Owned(p), job[p].kind # "probe",
         UNCHANGED row, RecordFresh(p, a)
  PROVE  KInv'
<1>1. /\ cursor \in CursorType /\ CursorOk(cursor, settled, emptied) /\ row \in RowType
      /\ settled \subseteq Id /\ emptied \subseteq Id /\ (row.running => row.owner \in Proc)
      /\ job[p] \in JobType /\ JobOk(job[p], cursor, settled, emptied)
  BY DEF KInv, Types
<1>2. \A q \in Proc \ {p} : ~Owned(q)'
  BY DEF Owned
<1>3. /\ cursor.plan # NoPlan /\ job[p].kind = "collect"
      /\ settled \subseteq settled' /\ settled' \subseteq Id /\ emptied' = emptied
  BY FreshPlan
<1>4. PICK plan \in PlanType, c \in CursorType, cheap \in SUBSET Id, reports \in BOOLEAN :
        /\ Accounts(plan, settled', emptied') /\ plan.history = cursor.plan.history
        /\ c.provisional = cursor.provisional /\ (c.pause = "none" \/ a.stop # "none")
        /\ cursor' = WithPlan(c, plan)
        /\ cheap \subseteq settled' /\ job' = [job EXCEPT ![p] = [Noted(p, a) EXCEPT !.cheap = cheap, !.reports = reports]]
  BY FreshPlan
<1> DEFINE v == [Noted(p, a) EXCEPT !.cheap = cheap, !.reports = reports]
<1>5. /\ cursor' \in CursorType /\ 1..cursor'.next - 1 \subseteq settled' \cup emptied'
      /\ cursor'.plan = plan /\ cursor'.provisional = cursor.provisional
      /\ cursor'.pause = "none" \/ a.stop # "none"
  BY <1>4, WithPlanPosition
<1>6. plan # NoPlan
  BY PlanIsPlan
<1>7. CursorOk(cursor', settled', emptied')
  BY <1>1, <1>3, <1>4, <1>5 DEF CursorOk
<1>8. /\ v \in JobType /\ v.pc = "ask" /\ v.cheap = cheap /\ v.firstEmpty = job[p].firstEmpty /\ v.kind = "collect"
      /\ (a.stop # "none" => v.stop # "none")
  <2>1. Noted(p, a) \in JobType /\ Noted(p, a).pc = "ask" /\ Noted(p, a).firstEmpty = job[p].firstEmpty
        /\ Noted(p, a).kind = job[p].kind /\ Noted(p, a).stop = a.stop
    BY <1>1, NotedJob
  <2> QED BY <1>3, <2>1 DEF JobType
<1>9. job' = [job EXCEPT ![p] = v]
  BY <1>4
<1> HIDE DEF v
<1>10. JobOk(v, cursor', settled', emptied') /\ HolderOk(v, cursor')
  BY <1>1, <1>3, <1>4, <1>5, <1>6, <1>8 DEF JobOk, HolderOk
<1> QED BY <1>1, <1>2, <1>3, <1>5, <1>6, <1>7, <1>8, <1>9, <1>10, OneJob

LEMMA TimeKeeps ==
  ASSUME KInv, LeaseEnds \/ TimePasses
  PROVE  KInv'
<1>1. /\ cursor \in CursorType /\ CursorOk(cursor, settled, emptied) /\ row \in RowType
      /\ (row.running => row.owner \in Proc) /\ job \in [Proc -> JobType]
      /\ settled \subseteq Id /\ emptied \subseteq Id
      /\ \A p \in Proc : JobOk(job[p], cursor, settled, emptied) /\ (Owned(p) => HolderOk(job[p], cursor))
  BY DEF KInv, Types
<1>2. CASE LeaseEnds
  <2>1. row' = [row EXCEPT !.expired = TRUE] /\ UNCHANGED <<cursor, job, settled, emptied>>
    BY <1>2 DEF LeaseEnds
  <2>2. row' \in RowType /\ row'.running = row.running /\ row'.owner = row.owner
    BY <1>1, <2>1 DEF RowType
  <2> QED BY <1>1, <2>1, <2>2 DEF KInv, Types, Owned
<1>3. CASE TimePasses
  <2>1. UNCHANGED <<row, job, settled, emptied>>
    BY <1>3 DEF TimePasses
  <2>2. /\ cursor' \in CursorType /\ cursor'.next = cursor.next /\ cursor'.provisional = cursor.provisional
        /\ cursor'.pause \in {"none", cursor.pause}
        /\ (cursor.plan = NoPlan <=> cursor'.plan = NoPlan)
        /\ cursor'.plan # NoPlan => Accounts(cursor'.plan, settled, emptied)
    <3>1. CASE cursor' = Resumed(cursor)
      BY <1>1, <3>1, PausedKeeps DEF CursorOk
    <3>2. ASSUME cursor.plan # NoPlan, NEW id \in cursor.plan.deferred,
                 cursor' = [cursor EXCEPT !.plan.deferred = @ \ {id}]
          PROVE  <2>2
      <4> DEFINE plan == [cursor.plan EXCEPT !.deferred = cursor.plan.deferred \ {id}]
      <4>1. cursor.plan \in PlanType /\ Accounts(cursor.plan, settled, emptied)
        BY <1>1, <3>2 DEF CursorType, CursorOk
      <4>2. cursor.plan.deferred \ {id} \in SUBSET Id
        BY <4>1 DEF PlanType
      <4>3. plan \in PlanType /\ Accounts(plan, settled, emptied)
        BY <4>1, <4>2, DeferredAccounts
      <4>4. cursor' = [cursor EXCEPT !.plan = plan]
        BY <3>2
      <4> HIDE DEF plan
      <4>5. /\ cursor' \in CursorType /\ cursor'.next = cursor.next /\ cursor'.provisional = cursor.provisional
            /\ cursor'.pause = cursor.pause /\ cursor'.plan = plan
        BY <1>1, <4>3, <4>4 DEF CursorType
      <4> QED BY <3>2, <4>3, <4>5, PlanIsPlan
    <3> QED BY <1>3, <3>1, <3>2 DEF TimePasses
  <2>3. CursorOk(cursor', settled', emptied') /\ Types'
    BY <1>1, <2>1, <2>2 DEF CursorOk, Types
  <2>4. ASSUME NEW p \in Proc
        PROVE  JobOk(job[p], cursor', settled', emptied') /\ (Owned(p)' => HolderOk(job[p], cursor'))
    <3>1. JobOk(job[p], cursor', settled', emptied')
      BY <1>1, <2>1, <2>2 DEF JobOk
    <3>2. Owned(p)' => Owned(p)
      BY <2>1 DEF Owned
    <3> QED BY <1>1, <2>2, <3>1, <3>2 DEF HolderOk
  <2> QED BY <2>1, <2>3, <2>4 DEF KInv
<1> QED BY <1>2, <1>3

LEMMA NextKeeps == KInv /\ [Next]_vars => KInv'
<1> SUFFICES ASSUME KInv, [Next]_vars PROVE KInv'
  OBVIOUS
<1>1. ASSUME NEW p \in Proc, Record(p) PROVE KInv'
  <2>1. job[p].pc = "asked" /\ Owned(p) /\ UNCHANGED row
    BY <1>1 DEF Record
  <2>2. PICK a \in Answers : IF job[p].kind = "probe" THEN RecordProbe(p, a) ELSE RecordFresh(p, a)
    BY <1>1 DEF Record
  <2> QED BY <2>1, <2>2, RecordProbeKeeps, RecordFreshKeeps
<1>2. ASSUME NEW p \in Proc, Step(p) PROVE KInv'
  BY <1>1, <1>2, ClaimKeeps, PrepareKeeps, LoadKeeps, AskKeeps, FinishKeeps, EndsKeep DEF Step
<1>3. CASE UNCHANGED vars
  <2>1. UNCHANGED <<cursor, row, job, settled, emptied>>
    BY <1>3 DEF vars
  <2> QED BY <2>1 DEF KInv, Types, Owned
<1> QED
  BY <1>2, <1>3, TimeKeeps DEF Next

(* The invariant of the two commands on one cursor (discovery.py,              *)
(* freshness.py): plans account for every id, the position has nothing         *)
(* forgotten behind it, and only the holder of the cursor knows it.            *)
THEOREM KillInductive == Spec => []KInv
BY InitHolds, NextKeeps, PTL DEF Spec

(* failure_count, in the row and in memory, is capped wherever it is raised.    *)
CountType == failures \in 0..LongestBackoff /\ remembered \in [Proc -> 0..LongestBackoff]

LEMMA CountTyped == Spec => []CountType
<1>1. LongestBackoff \in Nat
  BY KillAssumption
<1>2. Init => CountType
  BY <1>1 DEF Init, CountType
<1>3. ASSUME CountType, [Next]_vars PROVE CountType'
  <2>1. \A n \in 0..LongestBackoff : Failed(n) \in 0..LongestBackoff
    BY <1>1 DEF Failed
  <2>2. ASSUME NEW p \in Proc, NEW a, NEW lifts, Counted(p, a, lifts) PROVE CountType'
    BY <1>1, <1>3, <2>1, <2>2 DEF Counted, CountType
  <2>3. ASSUME NEW p \in Proc, Record(p) PROVE CountType'
    BY <2>2, <2>3 DEF Record, RecordProbe, RecordFresh
  <2>4. ASSUME NEW p \in Proc, NEW kind, NEW resume, Claim(p, kind, resume) PROVE CountType'
    BY <1>1, <1>3, <2>4 DEF Claim, CountType
  <2>5. ASSUME NEW p \in Proc, Prepare(p) \/ EndRound(p) PROVE CountType'
    BY <1>1, <1>3, <2>5 DEF Prepare, EndRound, CountType, counts
  <2>6. ASSUME UNCHANGED counts PROVE CountType'
    BY <1>3, <2>6 DEF counts, CountType
  <2>7. ASSUME NEW p \in Proc, Step(p) PROVE CountType'
    <3>1. CASE LoadSession(p) \/ Ask(p) \/ Raise(p) \/ LoseLease(p) \/ Finish(p) \/ Abort(p) \/ Crash(p)
      BY <2>6, <3>1 DEF LoadSession, Ask, Raise, LoseLease, Lost, Finish, Abort, Crash
    <3> QED BY <2>3, <2>4, <2>5, <2>7, <3>1 DEF Step
  <2>8. CASE LeaseEnds \/ TimePasses \/ UNCHANGED vars
    BY <2>6, <2>8 DEF LeaseEnds, TimePasses, vars
  <2> QED BY <1>3, <2>7, <2>8 DEF Next
<1> QED BY <1>2, <1>3, PTL DEF Spec

LEMMA TypesImply == KInv /\ CountType => TypeOK
BY Bounds DEF KInv, CountType, Types, TypeOK, CursorType, PlanType, RowType

(* Ids up to the frontier are pending, stored or excluded, and the public      *)
(* position has only passed ids that are stored, excluded or known to be       *)
(* empty, whatever fails, is compacted, paused or taken over (freshness.py:3). *)
THEOREM NothingForgottenHolds == Spec => []NothingForgotten
<1>1. KInv /\ CountType => NothingForgotten
  BY TypesImply DEF KInv, CursorOk, Accounts, NothingForgotten
<1> QED BY <1>1, KillInductive, CountTyped, PTL

(* A step is one process's: the others stay where they are.                     *)
LEMMA StepIsOwn == ASSUME NEW p \in Proc, Step(p) PROVE \E v : job' = [job EXCEPT ![p] = v]
<1>1. ASSUME NEW kind \in {"collect", "probe"}, NEW resume \in BOOLEAN, Claim(p, kind, resume)
      PROVE  \E v : job' = [job EXCEPT ![p] = v]
  BY <1>1, Zenon DEF Claim
<1>2. ASSUME NEW place, job' = [job EXCEPT ![p].pc = place]
      PROVE  \E v : job' = [job EXCEPT ![p] = v]
  BY <1>2
<1>3. CASE EndRound(p) \/ LoseLease(p) \/ Raise(p) \/ LoadSession(p)
  BY <1>2, <1>3 DEF EndRound, LoseLease, Lost, Raise, LoadSession, Halt, Go
<1>4. CASE Prepare(p)
  <2>1. ASSUME NEW upper, job' = [job EXCEPT ![p].pc = "load", ![p].recheck = upper]
        PROVE  \E v : job' = [job EXCEPT ![p] = v]
    BY <2>1
  <2> QED BY <1>2, <1>4, <2>1 DEF Prepare, Halt, Go
<1>5. CASE Ask(p) \/ Finish(p) \/ Abort(p) \/ Crash(p)
  BY <1>5, Zenon DEF Ask, Finish, Abort, Crash
<1>6. CASE Record(p)
  <2>1. PICK a \in Answers : IF job[p].kind = "probe" THEN RecordProbe(p, a) ELSE RecordFresh(p, a)
    BY <1>6 DEF Record
  <2>2. CASE RecordProbe(p, a)
    BY <2>2, Zenon DEF RecordProbe
  <2>3. CASE RecordFresh(p, a)
    BY <2>3, Zenon DEF RecordFresh
  <2> QED BY <2>1, <2>2, <2>3
<1> QED BY <1>1, <1>3, <1>4, <1>5, <1>6 DEF Step

(* A run whose lease was taken over moves nothing of the cursor or the reports *)
(* (discovery.py:366), and of failure_count knows only how to reset it         *)
(* (freshness.py:320).                                                         *)
THEOREM SupersededOnlyResetsHolds == Spec => SupersededOnlyResets
<1>1. ASSUME KInv, [Next]_vars, NEW p \in Proc, job'[p] # job[p], row.running, row.owner # p, row' = row
      PROVE  UNCHANGED <<cursor, settled, emptied>> /\ failures' \in {failures, 0}
  <2>1. ~Owned(p)
    BY <1>1 DEF Owned
  <2>2. ASSUME NEW q \in Proc, Step(q) PROVE q = p
    <3>1. PICK v : job' = [job EXCEPT ![q] = v]
      BY <2>2, StepIsOwn
    <3> QED BY <1>1, <3>1 DEF KInv, Types
  <2>3. ASSUME Step(p) PROVE UNCHANGED <<cursor, settled, emptied>> /\ failures' \in {failures, 0}
    <3>1. ASSUME NEW kind \in {"collect", "probe"}, NEW resume \in BOOLEAN, Claim(p, kind, resume)
          PROVE  FALSE
      BY <1>1, <3>1 DEF Claim, Orphaned
    <3>2. CASE Prepare(p)
      BY <2>1, <3>2 DEF Prepare, counts
    <3>3. CASE LoadSession(p)
      BY <2>1, <3>3 DEF LoadSession, counts
    <3>4. CASE Ask(p) \/ Record(p) \/ Finish(p)
      BY <2>1, <3>4 DEF Ask, Record, Finish
    <3>5. CASE EndRound(p)
      BY <3>5 DEF EndRound
    <3>6. CASE LoseLease(p) \/ Raise(p) \/ Abort(p) \/ Crash(p)
      BY <3>6 DEF LoseLease, Lost, Raise, Abort, Crash, counts
    <3> QED BY <2>3, <3>1, <3>2, <3>3, <3>4, <3>5, <3>6 DEF Step
  <2>4. CASE LeaseEnds \/ TimePasses \/ UNCHANGED vars
    BY <1>1, <2>4 DEF LeaseEnds, TimePasses, vars
  <2> QED BY <1>1, <2>2, <2>3, <2>4 DEF Next
<1>2. KInv /\ [Next]_vars =>
        [\A p \in Proc : job'[p] # job[p] /\ row.running /\ row.owner # p /\ row' = row
           => /\ UNCHANGED <<cursor, settled, emptied>>
              /\ failures' \in {failures, 0}]_vars
  BY <1>1
<1> QED BY <1>2, KillInductive, PTL DEF Spec, SupersededOnlyResets

(* No run asks the game for an id while the cursor is paused, whichever run    *)
(* paused it (worker.py:20).                                                   *)
THEOREM PausedIsLeftAloneHolds == Spec => PausedIsLeftAlone
<1>1. ASSUME KInv, [Next]_vars, NEW q \in Proc, job[q].pc # "asked", job'[q].pc = "asked"
      PROVE  cursor.pause = "none"
  <2>1. job \in [Proc -> JobType]
    BY <1>1 DEF KInv, Types
  <2>2. ASSUME NEW p \in Proc, NEW v, job' = [job EXCEPT ![p] = v], v.pc # "asked"
        PROVE  FALSE
    BY <1>1, <2>1, <2>2
  <2>3. ASSUME NEW p \in Proc, Step(p) PROVE cursor.pause = "none"
    <3>1. CASE Ask(p)
      BY <1>1, <3>1 DEF Ask, Spent, KInv, HolderOk
    <3>2. ASSUME NEW place \in Places \ {"asked"}, job' = [job EXCEPT ![p].pc = place] PROVE FALSE
      <4>1. job'[q].pc = IF q = p THEN place ELSE job[q].pc
        BY <2>1, <3>2 DEF JobType
      <4> QED BY <1>1, <4>1
    <3>3. CASE EndRound(p) \/ LoseLease(p) \/ Raise(p) \/ LoadSession(p)
      BY <3>2, <3>3 DEF EndRound, LoseLease, Lost, Raise, LoadSession, Halt, Go, Places
    <3>4. CASE Prepare(p)
      <4>1. ASSUME NEW upper, job' = [job EXCEPT ![p].pc = "load", ![p].recheck = upper] PROVE FALSE
        <5>1. job'[q].pc = IF q = p THEN "load" ELSE job[q].pc
          BY <2>1, <4>1 DEF JobType
        <5> QED BY <1>1, <5>1
      <4> QED BY <3>2, <3>4, <4>1 DEF Prepare, Halt, Go, Places
    <3>5. CASE Finish(p) \/ Abort(p) \/ Crash(p)
      <4>1. NoJob.pc # "asked"
        BY DEF NoJob
      <4> QED BY <2>2, <3>5, <4>1 DEF Finish, Abort, Crash
    <3>6. ASSUME NEW kind \in {"collect", "probe"}, NEW resume \in BOOLEAN, Claim(p, kind, resume) PROVE FALSE
      <4> DEFINE v == [NoJob EXCEPT !.pc = "claimed", !.kind = kind]
      <4>1. v.pc = "claimed" /\ job' = [job EXCEPT ![p] = v]
        BY <3>6 DEF NoJob, Claim
      <4> HIDE DEF v
      <4> QED BY <2>2, <4>1
    <3>7. CASE Record(p)
      <4>1. \E v : v.pc = "ask" /\ job' = [job EXCEPT ![p] = v]
        BY <2>1, <3>7, AnswerNoted
      <4> QED BY <2>2, <4>1
    <3> QED BY <2>3, <3>1, <3>3, <3>4, <3>5, <3>6, <3>7 DEF Step
  <2>4. CASE LeaseEnds \/ TimePasses \/ UNCHANGED vars
    BY <1>1, <2>4 DEF LeaseEnds, TimePasses, vars
  <2> QED BY <1>1, <2>3, <2>4 DEF Next
<1>2. KInv /\ [Next]_vars =>
        [\A p \in Proc : job[p].pc # "asked" /\ job'[p].pc = "asked" => cursor.pause = "none"]_vars
  BY <1>1
<1> QED BY <1>2, KillInductive, PTL DEF Spec, PausedIsLeftAlone
-----------------------------------------------------------------------------
(* What tests/test_worker.py:291 and :298 say of ids found empty holds of      *)
(* every way a run may end but one.                                            *)
FailedRun == \E p \in Proc : Abort(p) /\ Owned(p)

(* The last id behind a position was stored or excluded.                       *)
Firm(n, done) == n > 1 => n - 1 \in done

(* The position, or where a probe's has to be taken back to, is such a place,  *)
(* and so is the beginning of a plan.                                          *)
Rooted(c, done) ==
    /\ Firm(IF c.provisional = None THEN c.next ELSE c.provisional, done)
    /\ c.plan # NoPlan => Firm(c.plan.history, done)

(* Only a running probe has a position to take back, and it remembers which.   *)
Remembers(j, c) == j.pc # "idle" => j.firstEmpty = c.provisional

BInv ==
    /\ Rooted(cursor, settled)
    /\ cursor.provisional # None => row.running
    /\ \A p \in Proc : /\ job[p].kind # "probe" => job[p].firstEmpty = None
                       /\ Owned(p) => Remembers(job[p], cursor)

(* A step that leaves the positions alone.                                     *)
LEMMA RootedKept ==
  ASSUME NEW c, NEW d, NEW done, NEW more, Rooted(c, done), done \subseteq more,
         d.next = c.next, d.provisional = c.provisional,
         d.plan = c.plan \/ (d.plan # NoPlan => c.plan # NoPlan /\ d.plan.history = c.plan.history)
  PROVE  Rooted(d, more)
BY DEF Rooted, Firm

(* The position of a plan that is firm at its beginning is firm: between it    *)
(* and the first pending id everything is settled.                             *)
LEMMA PlanIsFirm ==
  ASSUME NEW c \in CursorType, NEW plan \in PlanType, NEW done, NEW empty, Accounts(plan, done, empty),
         Firm(plan.history, done)
  PROVE  Firm(WithPlan(c, plan).next, done)
<1> DEFINE n == WithPlan(c, plan).next
<1>1. /\ plan.history \in 1..MaxId + 1 /\ plan.frontier \in Id /\ plan.pending \subseteq Id
      /\ n \in 1..MaxId + 1
      /\ \/ n \in plan.pending /\ \A j \in plan.pending : n <= j
         \/ plan.pending = {} /\ n = plan.frontier + 1
  BY WithPlanPosition DEF PlanType, CursorType
<1> HIDE DEF n
<1>2. /\ plan.history..plan.frontier \subseteq plan.pending \cup done
      /\ plan.pending \subseteq plan.history..plan.frontier /\ plan.history <= plan.frontier + 1
      /\ MaxId \in Nat
  BY Bounds DEF Accounts
<1>3. CASE n - 1 < plan.history
  <2>1. CASE n = plan.history
    BY <2>1 DEF n
  <2>2. CASE n # plan.history
    <3>1. n < plan.history
      BY <1>1, <1>2, <1>3, <2>2
    <3> QED BY <1>1, <1>2, <3>1
  <2> QED BY <2>1, <2>2
<1>4. CASE n - 1 >= plan.history
  <2>1. n - 1 \in plan.history..plan.frontier /\ n - 1 \notin plan.pending
    BY <1>1, <1>2, <1>4 DEF Id
  <2> QED BY <1>2, <2>1 DEF Firm, n
<1> QED BY <1>1, <1>2, <1>3, <1>4

LEMMA OneJobFirm ==
  ASSUME BInv, job \in [Proc -> JobType], NEW p \in Proc, NEW v, job' = [job EXCEPT ![p] = v],
         Rooted(cursor', settled'), cursor'.provisional # None => row'.running,
         v.kind # "probe" => v.firstEmpty = None,
         Owned(p)' => Remembers(v, cursor'),
         \A q \in Proc \ {p} : Owned(q)' => Owned(q) /\ cursor'.provisional = cursor.provisional
  PROVE  BInv'
<1>1. job'[p] = v /\ \A q \in Proc \ {p} : job'[q] = job[q]
  OBVIOUS
<1>2. ASSUME NEW q \in Proc
      PROVE  (job'[q].kind # "probe" => job'[q].firstEmpty = None) /\ (Owned(q)' => Remembers(job'[q], cursor'))
  <2>1. CASE q = p
    BY <1>1, <2>1
  <2>2. CASE q # p
    BY <1>1, <2>2 DEF BInv, Remembers
  <2> QED BY <2>1, <2>2
<1> QED BY <1>2 DEF BInv

LEMMA InitFirm == Init => BInv
<1> SUFFICES ASSUME Init PROVE BInv
  OBVIOUS
<1>1. cursor.next = 1 /\ cursor.provisional = None /\ cursor.plan = NoPlan
  BY DEF Init
<1>2. \A p \in Proc : job[p] = NoJob /\ ~Owned(p)
  BY DEF Init, Owned, NoRow
<1> QED BY <1>1, <1>2 DEF BInv, Rooted, Firm, NoJob

(* A claim takes the position back to what a dead probe left behind.           *)
LEMMA ClaimFirm ==
  ASSUME KInv, BInv, NEW p \in Proc, NEW kind \in {"collect", "probe"}, NEW resume \in BOOLEAN, Claim(p, kind, resume)
  PROVE  BInv'
<1> DEFINE v == [NoJob EXCEPT !.pc = "claimed", !.kind = kind]
<1>1. job \in [Proc -> JobType] /\ cursor \in CursorType
  BY DEF KInv, Types
<1>2. /\ job' = [job EXCEPT ![p] = v] /\ v.firstEmpty = None /\ settled' = settled
      /\ row' = [running |-> TRUE, owner |-> p, expired |-> FALSE]
      /\ cursor' = IF resume THEN Resumed(Recovered) ELSE Recovered
  BY DEF Claim, NoJob
<1> HIDE DEF v
<1>3. /\ Recovered \in CursorType /\ Recovered.provisional = None /\ Recovered.plan = cursor.plan
      /\ Firm(Recovered.next, settled)
  <2>1. CASE Orphaned /\ cursor.provisional # None
    <3>1. /\ Recovered = [cursor EXCEPT !.next = cursor.provisional, !.provisional = None]
          /\ cursor.provisional \in 1..MaxId + 1 /\ None \in 0..MaxId
      BY <1>1, <2>1, Bounds DEF Recovered, CursorType, None
    <3>2. /\ Recovered \in CursorType /\ Recovered.provisional = None /\ Recovered.plan = cursor.plan
          /\ Recovered.next = cursor.provisional
      BY <1>1, <3>1 DEF CursorType
    <3> QED BY <2>1, <3>2 DEF BInv, Rooted
  <2>2. CASE ~(Orphaned /\ cursor.provisional # None)
    <3>1. Recovered = cursor
      BY <2>2 DEF Recovered
    <3>2. ~row.running \/ Orphaned
      BY DEF Claim
    <3>3. cursor.provisional = None
      BY <2>2, <3>2 DEF BInv
    <3> QED BY <1>1, <3>1, <3>3 DEF BInv, Rooted
  <2> QED BY <2>1, <2>2
<1>4. /\ cursor'.provisional = None /\ cursor'.plan = cursor.plan /\ cursor'.next = Recovered.next
  BY <1>2, <1>3, PausedKeeps
<1>5. Rooted(cursor', settled')
  BY <1>2, <1>3, <1>4 DEF BInv, Rooted
<1>6. \A q \in Proc \ {p} : ~Owned(q)'
  BY <1>2 DEF Owned
<1> QED BY <1>1, <1>2, <1>4, <1>5, <1>6, OneJobFirm DEF Remembers

(* Steps that leave the positions, the row's owner and what a run remembers.   *)
LEMMA QuietFirm ==
  ASSUME BInv, job \in [Proc -> JobType], NEW p \in Proc, NEW v \in JobType, job' = [job EXCEPT ![p] = v],
         v.kind = job[p].kind, v.firstEmpty = job[p].firstEmpty, job[p].pc # "idle",
         settled' = settled, cursor'.next = cursor.next, cursor'.provisional = cursor.provisional,
         cursor'.plan = cursor.plan, row'.running = row.running, row'.owner = row.owner
  PROVE  BInv'
<1>1. \A q : Owned(q)' <=> Owned(q)
  BY DEF Owned
<1>2. Rooted(cursor', settled')
  BY RootedKept DEF BInv
<1>3. cursor'.provisional # None => row'.running
  BY DEF BInv
<1>4. v.kind # "probe" => v.firstEmpty = None
  BY DEF BInv
<1>5. Owned(p)' => Remembers(v, cursor')
  BY <1>1 DEF BInv, Remembers
<1> QED BY <1>1, <1>2, <1>3, <1>4, <1>5, OneJobFirm

LEMMA MovesFirm ==
  ASSUME KInv, BInv, NEW p \in Proc, NEW place \in Places, job[p].pc # "idle", job' = [job EXCEPT ![p].pc = place],
         UNCHANGED <<row, settled>>,
         \/ cursor' = cursor
         \/ \E pause : cursor' = [cursor EXCEPT !.pause = pause]
         \/ \E empties : cursor' = [cursor EXCEPT !.empties = empties]
  PROVE  BInv'
<1> DEFINE v == [job[p] EXCEPT !.pc = place]
<1>1. cursor \in CursorType /\ job \in [Proc -> JobType] /\ job[p] \in JobType
  BY DEF KInv, Types
<1>2. v \in JobType /\ v.kind = job[p].kind /\ v.firstEmpty = job[p].firstEmpty
  BY <1>1 DEF JobType
<1>3. job' = [job EXCEPT ![p] = v]
  OBVIOUS
<1> HIDE DEF v
<1>4. cursor'.next = cursor.next /\ cursor'.provisional = cursor.provisional /\ cursor'.plan = cursor.plan
  BY <1>1 DEF CursorType
<1> QED BY <1>1, <1>2, <1>3, <1>4, QuietFirm

(* A collector's plan begins at the position, which no probe has then to take  *)
(* back.                                                                       *)
LEMMA PrepareFirm ==
  ASSUME KInv, BInv, NEW p \in Proc, Prepare(p), KInv'
  PROVE  BInv'
<1>1. /\ cursor \in CursorType /\ CursorOk(cursor, settled, emptied) /\ job \in [Proc -> JobType]
      /\ job[p] \in JobType /\ job[p].pc = "claimed" /\ UNCHANGED <<row, settled, emptied>>
  BY DEF KInv, Types, Prepare
<1>2. CASE cursor' = cursor /\ (job' = [job EXCEPT ![p].pc = "finish"] \/ job' = [job EXCEPT ![p].pc = "load"])
  BY <1>1, <1>2, MovesFirm DEF Places
<1>3. ASSUME NEW plan, plan = Round(IF cursor.plan = NoPlan THEN NewPlan(cursor) ELSE cursor.plan),
             cursor.plan = NoPlan => MayStart(cursor),
             job[p].kind = "collect", Owned(p), cursor' = WithPlan(cursor, plan),
             job' = [job EXCEPT ![p].pc = "load", ![p].recheck = plan.upper]
      PROVE  BInv'
  <2>1. job[p].firstEmpty = None /\ cursor.provisional = None /\ Firm(cursor.next, settled)
    BY <1>1, <1>3 DEF BInv, Remembers, Rooted
  <2>2. plan \in PlanType /\ Accounts(plan, settled, emptied) /\ Firm(plan.history, settled)
    <3>1. CASE cursor.plan = NoPlan
      <4>1. NewPlan(cursor) \in PlanType /\ Accounts(NewPlan(cursor), settled, emptied) /\ NewPlan(cursor).history = cursor.next
        BY <1>1, <1>3, <3>1, NewPlanAccounts DEF CursorOk
      <4> QED BY <1>3, <2>1, <3>1, <4>1, RoundAccounts
    <3>2. CASE cursor.plan # NoPlan
      <4>1. cursor.plan \in PlanType /\ Accounts(cursor.plan, settled, emptied) /\ Firm(cursor.plan.history, settled)
        BY <1>1, <3>2 DEF CursorOk, CursorType, BInv, Rooted
      <4> QED BY <1>3, <3>2, <4>1, RoundAccounts
    <3> QED BY <3>1, <3>2
  <2>3. Firm(cursor'.next, settled) /\ cursor'.plan = plan /\ cursor'.provisional = None
    BY <1>1, <1>3, <2>1, <2>2, PlanIsFirm, WithPlanPosition
  <2>4. Rooted(cursor', settled')
    BY <1>1, <2>2, <2>3 DEF Rooted
  <2> DEFINE v == [job[p] EXCEPT !.pc = "load", !.recheck = plan.upper]
  <2>5. v.firstEmpty = None /\ job' = [job EXCEPT ![p] = v]
    BY <1>1, <1>3, <2>1 DEF JobType
  <2> HIDE DEF v
  <2>6. \A q \in Proc \ {p} : ~Owned(q)'
    BY <1>1, <1>3 DEF Owned
  <2> QED BY <1>1, <2>3, <2>4, <2>5, <2>6, OneJobFirm DEF Remembers
<1> QED
  BY <1>2, <1>3 DEF Prepare, Halt, Go, Blocked

LEMMA LoadFirm ==
  ASSUME KInv, BInv, NEW p \in Proc, LoadSession(p)
  PROVE  BInv'
<1>1. PICK place \in {"finish", "ask"} : job' = [job EXCEPT ![p].pc = place]
  BY DEF LoadSession, Halt, Go
<1>2. job[p].pc # "idle" /\ UNCHANGED <<row, settled>> /\ place \in Places
  BY DEF LoadSession, Places
<1>3. \/ cursor' = cursor
      \/ cursor' = [cursor EXCEPT !.pause = "unauthorized"]
      \/ cursor' = [cursor EXCEPT !.empties = 0]
  BY DEF LoadSession
<1> QED BY <1>1, <1>2, <1>3, MovesFirm

(* An id asked for changes nothing that is remembered.                         *)
LEMMA AskFirm ==
  ASSUME KInv, BInv, NEW p \in Proc, Ask(p)
  PROVE  BInv'
<1>1. /\ row \in RowType /\ job \in [Proc -> JobType] /\ job[p] \in JobType /\ job[p].pc = "ask"
      /\ UNCHANGED <<cursor, settled>> /\ row' = [row EXCEPT !.expired = FALSE]
  BY DEF KInv, Types, Ask
<1>2. row'.running = row.running /\ row'.owner = row.owner
  BY <1>1 DEF RowType
<1> DEFINE w(id) == [job[p] EXCEPT
                    !.pc = "asked", !.ask = id,
                    !.phase = IF job[p].kind = "probe" THEN "probe" ELSE IF Locating(p) THEN "locate" ELSE "scan",
                    !.recheck = IF Locating(p) THEN None ELSE job[p].recheck,
                    !.scanned = IF job[p].kind = "probe" \/ Locating(p) THEN job[p].scanned
                                ELSE (job[p].scanned + 1) % HistoryEvery,
                    !.located = IF job[p].kind = "collect" /\ Locating(p) THEN job[p].located + 1
                                ELSE job[p].located]
<1>3. PICK id \in Candidates(p) : job' = [job EXCEPT ![p] = w(id)]
  BY DEF Ask
<1> DEFINE v == w(id)
<1>4. v.kind = job[p].kind /\ v.firstEmpty = job[p].firstEmpty
  BY <1>1 DEF JobType
<1>5. job' = [job EXCEPT ![p] = v]
  BY <1>3
<1> HIDE DEF v, w
<1>6. /\ Rooted(cursor', settled') /\ (cursor'.provisional # None => row'.running)
      /\ \A q : Owned(q)' <=> Owned(q)
  BY <1>1, <1>2 DEF BInv, Owned
<1>7. (v.kind # "probe" => v.firstEmpty = None) /\ (Owned(p)' => Remembers(v, cursor'))
  BY <1>1, <1>4, <1>6 DEF BInv, Remembers
<1> QED BY <1>1, <1>5, <1>6, <1>7, OneJobFirm

(* An empty id is where a probe's position has to be taken back to, if it is   *)
(* the first since the last report.                                            *)
LEMMA RecordProbeFirm ==
  ASSUME KInv, BInv, NEW p \in Proc, NEW a \in Answers, job[p].pc = "asked", Owned(p), job[p].kind = "probe",
         UNCHANGED row, RecordProbe(p, a)
  PROVE  BInv'
<1> DEFINE id == job[p].ask
<1>1. /\ cursor \in CursorType /\ job \in [Proc -> JobType] /\ job[p] \in JobType
      /\ id \in Id /\ id = cursor.next /\ row.running
  BY DEF KInv, Types, JobOk, HolderOk, Owned
<1>2. \A q \in Proc \ {p} : ~Owned(q)'
  BY DEF Owned
<1>3. cursor.provisional = job[p].firstEmpty
  BY DEF BInv, Remembers
<1>4. id \in Nat /\ id >= 1 /\ id + 1 \in 1..MaxId + 1 /\ id \in 0..MaxId /\ 0 \in 0..MaxId /\ (id + 1) - 1 = id
  BY <1>1, Bounds DEF Id
<1>5. /\ Noted(p, a) \in JobType /\ Noted(p, a).pc = "ask"
      /\ Noted(p, a).firstEmpty = job[p].firstEmpty /\ Noted(p, a).kind = "probe"
  BY <1>1, NotedJob
<1>6. CASE Reported(a) /\ ~Reversed(id)
  <2> DEFINE passed == [cursor EXCEPT !.last = id, !.lastTime = KillTime[id], !.empties = 0,
                                 !.provisional = 0, !.next = id + 1]
             lifted == IF Whole(a) THEN Resumed(passed) ELSE passed
             v == [Noted(p, a) EXCEPT !.firstEmpty = 0]
  <2>1. /\ cursor' = Paused(lifted, a.stop) /\ settled' = settled \cup {id}
        /\ job' = [job EXCEPT ![p] = v]
    BY <1>6 DEF RecordProbe, Reported, None, Answers
  <2>2. passed \in CursorType /\ passed.next = id + 1 /\ passed.provisional = 0 /\ passed.plan = cursor.plan
    <3>1. KillTime[id] \in Nat /\ 0 \in 0..EmptyThreshold
      BY <1>1, Bounds, KillAssumption
    <3> QED BY <1>1, <1>4, <3>1 DEF CursorType
  <2> HIDE DEF passed
  <2>3. lifted \in CursorType /\ lifted.next = id + 1 /\ lifted.provisional = 0 /\ lifted.plan = cursor.plan
    BY <2>2, PausedKeeps
  <2> HIDE DEF lifted
  <2>4. cursor'.next = id + 1 /\ cursor'.provisional = None /\ cursor'.plan = cursor.plan
    BY <2>1, <2>3, PausedKeeps DEF None
  <2>5. v.firstEmpty = None /\ v.kind = "probe"
    BY <1>5 DEF JobType, None
  <2> HIDE DEF v
  <2>6. Rooted(cursor', settled')
    BY <1>4, <2>1, <2>4 DEF BInv, Rooted, Firm
  <2> QED BY <1>1, <1>2, <2>1, <2>4, <2>5, <2>6, OneJobFirm DEF Remembers
<1>7. CASE cursor' = Paused(cursor, a.stop) /\ job' = [job EXCEPT ![p] = [Noted(p, a) EXCEPT !.stop = Why(a)]]
           /\ UNCHANGED <<settled, emptied>>
  <2> DEFINE v == [Noted(p, a) EXCEPT !.stop = Why(a)]
  <2>1. cursor'.next = cursor.next /\ cursor'.provisional = cursor.provisional /\ cursor'.plan = cursor.plan
    BY <1>1, <1>7, PausedKeeps
  <2>2. v \in JobType /\ v.firstEmpty = job[p].firstEmpty /\ v.kind = job[p].kind
    BY <1>5, WhyStops DEF JobType
  <2>3. job' = [job EXCEPT ![p] = v]
    BY <1>7
  <2> HIDE DEF v
  <2> QED BY <1>1, <1>7, <2>1, <2>2, <2>3, QuietFirm
<1>8. CASE a.status = "empty"
  <2> DEFINE first == IF job[p].firstEmpty = 0 THEN id ELSE job[p].firstEmpty
             count == IF cursor.empties < EmptyThreshold THEN cursor.empties + 1 ELSE cursor.empties
             back == IF job[p].firstEmpty = 0 THEN id ELSE cursor.provisional
             empty == [cursor EXCEPT !.next = id + 1, !.empties = count, !.provisional = back]
             full == IF Threshold(empty) THEN "empty_threshold" ELSE "none"
             v == [Noted(p, a) EXCEPT !.firstEmpty = first, !.stop = full]
  <2>1. cursor' = empty /\ settled' = settled /\ job' = [job EXCEPT ![p] = v]
    BY <1>8 DEF RecordProbe, Reported, None, Answers
  <2>2. back = first /\ first # None /\ Firm(first, settled)
    <3>1. CASE job[p].firstEmpty = 0
      BY <1>1, <1>3, <1>4, <3>1 DEF BInv, Rooted, None
    <3>2. CASE job[p].firstEmpty # 0
      BY <1>3, <3>2 DEF BInv, Rooted, None
    <3> QED BY <3>1, <3>2
  <2> HIDE DEF first, count, back
  <2>3. cursor'.next = id + 1 /\ cursor'.provisional = first /\ cursor'.plan = cursor.plan
    BY <1>1, <2>1, <2>2 DEF CursorType
  <2> HIDE DEF empty
  <2>4. v.firstEmpty = first /\ v.kind = "probe"
    BY <1>5 DEF JobType
  <2> HIDE DEF v
  <2>5. Rooted(cursor', settled')
    BY <2>1, <2>2, <2>3 DEF BInv, Rooted
  <2> QED BY <1>1, <1>2, <2>1, <2>3, <2>4, <2>5, OneJobFirm DEF Remembers
<1> QED
  BY <1>6, <1>7, <1>8 DEF RecordProbe

(* A collector's plan keeps its beginning, and the position follows the plan.  *)
LEMMA RecordFreshFirm ==
  ASSUME KInv, BInv, NEW p \in Proc, NEW a \in Answers, job[p].pc = "asked", Owned(p), job[p].kind # "probe",
         UNCHANGED row, RecordFresh(p, a)
  PROVE  BInv'
<1>1. /\ cursor \in CursorType /\ job \in [Proc -> JobType] /\ job[p] \in JobType
      /\ cursor.provisional = None /\ job[p].firstEmpty = None
  BY DEF KInv, Types, BInv, Remembers
<1>2. \A q \in Proc \ {p} : ~Owned(q)'
  BY DEF Owned
<1>3. cursor.plan # NoPlan /\ settled \subseteq settled'
  BY FreshPlan
<1>4. PICK plan \in PlanType, c \in CursorType, cheap \in SUBSET Id, reports \in BOOLEAN :
        /\ Accounts(plan, settled', emptied') /\ plan.history = cursor.plan.history
        /\ c.provisional = cursor.provisional /\ (c.pause = "none" \/ a.stop # "none")
        /\ cursor' = WithPlan(c, plan)
        /\ cheap \subseteq settled' /\ job' = [job EXCEPT ![p] = [Noted(p, a) EXCEPT !.cheap = cheap, !.reports = reports]]
  BY FreshPlan
<1> DEFINE v == [Noted(p, a) EXCEPT !.cheap = cheap, !.reports = reports]
<1>5. v.firstEmpty = None /\ job' = [job EXCEPT ![p] = v]
  <2>1. Noted(p, a) \in JobType /\ Noted(p, a).firstEmpty = None
    BY <1>1, NotedJob
  <2> QED BY <1>4, <2>1 DEF JobType
<1> HIDE DEF v
<1>6. Firm(plan.history, settled')
  BY <1>3, <1>4 DEF BInv, Rooted, Firm
<1>7. Firm(cursor'.next, settled') /\ cursor'.plan = plan /\ cursor'.provisional = None
  BY <1>1, <1>4, <1>6, PlanIsFirm, WithPlanPosition
<1>8. Rooted(cursor', settled')
  BY <1>6, <1>7 DEF Rooted
<1> QED BY <1>1, <1>2, <1>5, <1>7, <1>8, OneJobFirm DEF Remembers

(* A run that finishes takes the position back to its first empty id.          *)
LEMMA FinishFirm ==
  ASSUME KInv, BInv, NEW p \in Proc, Finish(p)
  PROVE  BInv'
<1>1. /\ cursor \in CursorType /\ job \in [Proc -> JobType] /\ job[p] \in JobType
      /\ cursor.provisional = job[p].firstEmpty
  BY DEF KInv, Types, BInv, Remembers, Finish
<1>2. /\ row' = NoRow /\ job' = [job EXCEPT ![p] = NoJob] /\ settled' = settled
      /\ cursor' = IF job[p].firstEmpty = None THEN cursor
                   ELSE [cursor EXCEPT !.next = job[p].firstEmpty, !.provisional = None]
  BY DEF Finish
<1>3. cursor'.provisional = None /\ Rooted(cursor', settled')
  <2>1. CASE job[p].firstEmpty = None
    BY <1>1, <1>2, <2>1 DEF BInv
  <2>2. CASE job[p].firstEmpty # None
    <3>1. cursor'.next = cursor.provisional /\ cursor'.provisional = None /\ cursor'.plan = cursor.plan
      BY <1>1, <1>2, <2>2 DEF CursorType
    <3> QED BY <1>1, <1>2, <2>2, <3>1 DEF BInv, Rooted
  <2> QED BY <2>1, <2>2
<1>4. NoJob.firstEmpty = None /\ \A q : ~Owned(q)'
  BY <1>2 DEF NoJob, NoRow, Owned
<1> QED BY <1>1, <1>2, <1>3, <1>4, OneJobFirm

(* A process that dies leaves the row running, and with it what there is to    *)
(* take back; so does one that gives up a row it no longer has.                *)
LEMMA EndsFirm ==
  ASSUME KInv, BInv, NEW p \in Proc, Crash(p) \/ (Abort(p) /\ ~Owned(p))
  PROVE  BInv'
<1>1. /\ job \in [Proc -> JobType] /\ job' = [job EXCEPT ![p] = NoJob]
      /\ UNCHANGED <<cursor, row, settled>>
  BY DEF KInv, Types, Crash, Abort
<1>2. NoJob.firstEmpty = None /\ NoJob.pc = "idle"
  BY DEF NoJob
<1> QED BY <1>1, <1>2, OneJobFirm DEF BInv, Remembers, Owned

LEMMA TimeFirm ==
  ASSUME KInv, BInv, LeaseEnds \/ TimePasses
  PROVE  BInv'
<1>1. cursor \in CursorType /\ row \in RowType
  BY DEF KInv, Types
<1>2. UNCHANGED <<job, settled>> /\ row'.running = row.running /\ row'.owner = row.owner
  BY <1>1 DEF LeaseEnds, TimePasses, RowType
<1>3. /\ cursor'.next = cursor.next /\ cursor'.provisional = cursor.provisional
      /\ \/ cursor'.plan = cursor.plan
         \/ cursor.plan # NoPlan /\ cursor'.plan.history = cursor.plan.history
  <2>1. CASE LeaseEnds
    BY <2>1 DEF LeaseEnds
  <2>2. CASE cursor' = Resumed(cursor)
    BY <1>1, <2>2, PausedKeeps
  <2>3. ASSUME cursor.plan # NoPlan, NEW ids, cursor' = [cursor EXCEPT !.plan.deferred = ids]
        PROVE  /\ cursor'.next = cursor.next /\ cursor'.provisional = cursor.provisional
               /\ cursor'.plan.history = cursor.plan.history
    <3> DEFINE plan == [cursor.plan EXCEPT !.deferred = ids]
    <3>1. cursor.plan \in PlanType
      BY <1>1, <2>3 DEF CursorType
    <3>2. plan.history = cursor.plan.history /\ cursor' = [cursor EXCEPT !.plan = plan]
      BY <2>3, <3>1 DEF PlanType
    <3> HIDE DEF plan
    <3> QED BY <1>1, <2>3, <3>2 DEF CursorType
  <2> QED BY <2>1, <2>2, <2>3 DEF TimePasses
<1>4. Rooted(cursor', settled')
  BY <1>2, <1>3, RootedKept DEF BInv
<1> QED BY <1>2, <1>3, <1>4 DEF BInv, Remembers, Owned

LEMMA NextFirm == KInv /\ KInv' /\ BInv /\ [Next]_vars /\ [~FailedRun]_vars => BInv'
<1> SUFFICES ASSUME KInv, KInv', BInv, [Next]_vars, [~FailedRun]_vars PROVE BInv'
  OBVIOUS
<1>1. CASE UNCHANGED vars
  <2>1. UNCHANGED <<cursor, row, job, settled>>
    BY <1>1 DEF vars
  <2> QED BY <2>1 DEF BInv, Owned
<1>2. ASSUME NEW p \in Proc, Record(p) PROVE BInv'
  <2>1. job[p].pc = "asked" /\ Owned(p) /\ UNCHANGED row
    BY <1>2 DEF Record
  <2>2. PICK a \in Answers : IF job[p].kind = "probe" THEN RecordProbe(p, a) ELSE RecordFresh(p, a)
    BY <1>2 DEF Record
  <2> QED BY <2>1, <2>2, RecordProbeFirm, RecordFreshFirm
<1>3. ASSUME NEW p \in Proc, EndRound(p) \/ LoseLease(p) \/ Raise(p) PROVE BInv'
  <2>1. /\ job[p].pc # "idle" /\ UNCHANGED <<cursor, row, settled>>
        /\ \E place \in Places : job' = [job EXCEPT ![p].pc = place]
    BY <1>3 DEF EndRound, LoseLease, Raise, Lost, Halt, Go, Places
  <2> QED BY <2>1, MovesFirm
<1>4. ASSUME NEW p \in Proc, Step(p), ~FailedRun PROVE BInv'
  BY <1>2, <1>3, <1>4, ClaimFirm, PrepareFirm, LoadFirm, AskFirm, FinishFirm, EndsFirm DEF Step, FailedRun
<1> QED
  BY <1>1, <1>4, TimeFirm DEF Next

(* Ids a probe was told are empty, with no report above them, are asked again  *)
(* unless a run that holds the cursor ends in an exception (discovery.py:298): *)
(* its except clause is the only end of a run that leaves the position past    *)
(* them.  A crash, a lost lease, a budget spent, a pause or a collector in     *)
(* between do not (tests/test_worker.py:291 and :298).                         *)
THEOREM BoundaryLostOnlyByException == Spec /\ [][~FailedRun]_vars => []EmptyBoundaryRechecked
<1>1. BInv /\ KInv => EmptyBoundaryRechecked
  <2> SUFFICES ASSUME BInv, KInv, ~row.running, NEW id \in 1..cursor.next - 1
               PROVE  \E above \in id..cursor.next - 1 : above \in settled
    BY DEF EmptyBoundaryRechecked
  <2>1. cursor.next \in Nat /\ Firm(cursor.next, settled)
    BY Bounds DEF BInv, Rooted, KInv, Types, CursorType
  <2>2. cursor.next - 1 \in id..cursor.next - 1 /\ cursor.next > 1
    BY <2>1
  <2> QED BY <2>1, <2>2 DEF Firm
<1> QED BY <1>1, InitHolds, InitFirm, NextKeeps, NextFirm, PTL DEF Spec

=============================================================================
