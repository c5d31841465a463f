----------------------- MODULE TacticalRealtimeProofs -----------------------
(* Theorems of TacticalRealtime, for any sockets, any number of commands and of  *)
(* attempts: safety, what a socket meets of the database, and progress under the *)
(* fairness of GuardedSpec, whose guards TLC compares with ENABLED (NeverStuck). *)
EXTENDS TacticalRealtime, TLAPS

TaskRecord ==
  [pc: {"idle", "wait", "version", "scope", "content", "send"}, try: 0 .. TRIES - 1, value: Value]
SocketRecord ==
  [phase: {"accepted", "admitted", "closed"}, grouped: BOOLEAN, cursor: Version, shown: Value, due: BOOLEAN]

(* v was read no later than w.                                                  *)
NoLater(v, w) == v.content <= w.content /\ v.scope <= w.scope /\ v.drift <= w.drift
Shows(v) == v.content = board.content /\ v.scope = board.scope

Bounded == board.content <= board.version /\ board.scope <= board.version

(* Whoever reads or sends holds the socket's lock.                              *)
Exclusive(s) ==
  \A t \in Task : task[s][t].pc \in {"version", "scope", "content", "send"} => lock[s] = t
Past(s) ==
  /\ socket[s].cursor <= board.version
  /\ \A v \in inbox[s] : v <= board.version
  /\ NoLater(socket[s].shown, board) /\ socket[s].shown.version <= board.version
  /\ socket[s].shown.geometry = socket[s].shown.scope
(* What is about to be sent is newer than what is shown, and of one scope.      *)
Sendable(s, t) ==
  LET v == task[s][t].value IN
  task[s][t].pc = "send" =>
    /\ v.geometry = v.scope
    /\ NoLater(socket[s].shown, v) /\ NoLater(v, board) /\ v.version <= board.version
    /\ v.version = board.version => Shows(v)
    /\ v.version <= stripped[s]
Entitled(s) ==
  /\ standing[s] # "lost" => stripped[s] = MAX_VERSION
  /\ socket[s].shown.version <= stripped[s]
(* A cursor that has caught up is one whose snapshot is shown or on its way.    *)
OnItsWay(s, t) ==
  \/ task[s][t].pc \in {"wait", "scope", "content"}
  \/ task[s][t].pc = "send" /\ Shows(task[s][t].value)
CaughtUp(s) ==
  Admitted(s) /\ socket[s].cursor = board.version =>
    Shows(socket[s].shown) \/ \E t \in Task : OnItsWay(s, t)

Local(s) ==
  /\ Exclusive(s) /\ Past(s) /\ Entitled(s) /\ CaughtUp(s)
  /\ \A t \in Task : Sendable(s, t)

IInv == TypeOK /\ Bounded /\ \A s \in Socket : Local(s)

-----------------------------------------------------------------------------
LEMMA Bounds == MAX_VERSION \in Nat /\ MAX_DRIFT \in Nat /\ TRIES \in Nat \ {0}
<1> QED BY RealtimeAssumption

(* The rows of one socket.                                                      *)
LEMMA Rows ==
  ASSUME TypeOK, NEW s \in Socket
  PROVE  /\ socket[s] \in SocketRecord /\ lock[s] \in Task \cup {"free"}
         /\ inbox[s] \subseteq Version /\ stripped[s] \in Version
         /\ standing[s] \in {"none", "live", "expired", "lost"}
         /\ task[s] \in [Task -> TaskRecord]
         /\ \A t \in Task : task[s][t] \in TaskRecord
<1> QED BY DEF TypeOK, SocketRecord, TaskRecord

LEMMA BoardType ==
  ASSUME TypeOK
  PROVE  /\ board \in [version: Version, content: Version, scope: Version, drift: 0 .. MAX_DRIFT]
         /\ board.version \in Version /\ board.content \in Version /\ board.scope \in Version
         /\ board.drift \in 0 .. MAX_DRIFT
<1> QED BY DEF TypeOK

(* The step of one socket leaves the others alone.                              *)
Apart(s) ==
  /\ UNCHANGED board
  /\ \A q \in Socket \ {s} :
       /\ standing'[q] = standing[q] /\ socket'[q] = socket[q] /\ task'[q] = task[q]
       /\ lock'[q] = lock[q] /\ inbox'[q] = inbox[q] /\ stripped'[q] = stripped[q]

LEMMA ApartKeeps ==
  ASSUME IInv, NEW s \in Socket, Apart(s), TypeOK', Local(s)'
  PROVE  IInv'
<1>1. Bounded'
  BY DEF IInv, Bounded, Apart
<1>2. ASSUME NEW q \in Socket \ {s} PROVE Local(q)'
  <2>1. Local(q) /\ UNCHANGED <<board, standing[q], socket[q], task[q], lock[q], inbox[q], stripped[q]>>
    BY <1>2 DEF IInv, Apart
  <2>2. Exclusive(q)' /\ Past(q)' /\ Entitled(q)'
    BY <2>1 DEF Local, Exclusive, Past, Entitled, NoLater
  <2>3. CaughtUp(q)'
    BY <2>1 DEF Local, CaughtUp, Admitted, OnItsWay, Shows
  <2>4. (\A t \in Task : Sendable(q, t))'
    BY <2>1 DEF Local, Sendable, NoLater, Shows
  <2> QED BY <2>2, <2>3, <2>4 DEF Local
<1> QED BY <1>1, <1>2 DEF IInv

(* A socket that shuts down owes nothing.                                       *)
LEMMA ShutdownKeeps == ASSUME IInv, NEW s \in Socket, Shutdown(s) PROVE IInv'
<1>1. /\ socket' = [socket EXCEPT ![s].phase = "closed", ![s].grouped = FALSE]
      /\ task' = [task EXCEPT ![s] = [t \in Task |-> Idle]]
      /\ lock' = [lock EXCEPT ![s] = "free"] /\ inbox' = [inbox EXCEPT ![s] = {}]
      /\ UNCHANGED <<board, standing, stripped>>
  BY DEF Shutdown
<1>2. Idle \in TaskRecord
  BY Bounds DEF Idle, Blank, TaskRecord, Value, Version
<1>3. socket'[s].phase = "closed" /\ socket'[s].cursor = socket[s].cursor /\ socket'[s].shown = socket[s].shown
  BY <1>1, Rows DEF IInv, TypeOK, SocketRecord
<1>4. [socket[s] EXCEPT !.phase = "closed", !.grouped = FALSE] \in SocketRecord
  BY Rows DEF IInv, SocketRecord
<1>5. TypeOK'
  BY <1>1, <1>2, <1>4 DEF IInv, TypeOK, TaskRecord, SocketRecord
<1>6. Apart(s)
  BY <1>1 DEF Apart, IInv, TypeOK
<1>7. task'[s] = [t \in Task |-> Idle] /\ lock'[s] = "free" /\ inbox'[s] = {}
  BY <1>1 DEF IInv, TypeOK
<1>8. Local(s)'
  <2>1. \A t \in Task : task'[s][t].pc = "idle"
    BY <1>7 DEF Idle
  <2>2. Exclusive(s)' /\ CaughtUp(s)' /\ (\A t \in Task : Sendable(s, t))'
    BY <1>3, <2>1 DEF Exclusive, CaughtUp, Admitted, Sendable
  <2>3. Past(s)' /\ Entitled(s)'
    BY <1>1, <1>3, <1>7 DEF IInv, Local, Past, Entitled, NoLater
  <2> QED BY <2>2, <2>3 DEF Local
<1> QED BY <1>5, <1>6, <1>8, ApartKeeps

(* One task of an open socket goes on and nothing else moves but its lock.      *)
LEMMA TaskKeeps ==
  ASSUME IInv, NEW s \in Socket, NEW t \in Task, NEW new \in TaskRecord, Become(s, t, new),
         UNCHANGED <<board, standing, socket, inbox, stripped>>,
         lock' \in [Socket -> Task \cup {"free"}],
         \A q \in Socket \ {s} : lock'[q] = lock[q],
         \A u \in Task \ {t} : lock[s] = u => lock'[s] = u,
         new.pc \in {"version", "scope", "content", "send"} => lock'[s] = t,
         new.pc = "send" =>
           /\ new.value.geometry = new.value.scope
           /\ NoLater(socket[s].shown, new.value) /\ NoLater(new.value, board)
           /\ new.value.version <= board.version /\ Shows(new.value)
           /\ new.value.version <= stripped[s],
         task[s][t].pc \in {"idle", "version"} \/ new.pc \in {"wait", "scope", "content", "send"}
  PROVE  IInv'
<1>1. task' = [task EXCEPT ![s][t] = new]
  BY DEF Become
<1>2. task'[s] = [task[s] EXCEPT ![t] = new] /\ \A q \in Socket \ {s} : task'[q] = task[q]
  BY <1>1 DEF IInv, TypeOK
<1>3. task'[s][t] = new /\ \A u \in Task \ {t} : task'[s][u] = task[s][u]
  BY <1>2, Rows DEF IInv
<1>4. TypeOK'
  <2>1. task'[s] \in [Task -> TaskRecord]
    BY <1>2, Rows DEF IInv
  <2>2. task' \in [Socket -> [Task -> TaskRecord]]
    BY <1>1, <2>1 DEF IInv, TypeOK, TaskRecord
  <2> QED BY <2>2 DEF IInv, TypeOK, TaskRecord
<1>5. Apart(s)
  BY <1>2 DEF Apart
<1>6. Past(s)' /\ Entitled(s)'
  BY DEF IInv, Local, Past, Entitled, NoLater
<1>7. Exclusive(s)'
  BY <1>3 DEF IInv, Local, Exclusive
<1>8. (\A u \in Task : Sendable(s, u))'
  <2> SUFFICES ASSUME NEW u \in Task PROVE Sendable(s, u)'
    OBVIOUS
  <2>1. CASE u = t
    BY <1>3, <2>1 DEF Sendable, NoLater, Shows
  <2>2. CASE u # t
    BY <1>3, <2>2 DEF IInv, Local, Sendable, NoLater, Shows
  <2> QED BY <2>1, <2>2
<1>9. CaughtUp(s)'
  <2> SUFFICES ASSUME Admitted(s)', socket'[s].cursor = board'.version
               PROVE  Shows(socket[s].shown)' \/ \E u \in Task : OnItsWay(s, u)'
    BY DEF CaughtUp
  <2>1. Shows(socket[s].shown) \/ \E u \in Task : OnItsWay(s, u)
    BY DEF IInv, Local, CaughtUp, Admitted
  <2>2. CASE Shows(socket[s].shown)
    BY <2>2 DEF Shows
  <2>3. ASSUME NEW u \in Task, OnItsWay(s, u) PROVE OnItsWay(s, u)'
    <3>1. CASE u = t
      BY <1>3, <2>3, <3>1 DEF OnItsWay, Shows
    <3>2. CASE u # t
      BY <1>3, <2>3, <3>2 DEF OnItsWay, Shows
    <3> QED BY <3>1, <3>2
  <2> QED BY <2>1, <2>2, <2>3
<1> QED BY <1>4, <1>5, <1>6, <1>7, <1>8, <1>9, ApartKeeps DEF Local

LEMMA LockTaken ==
  ASSUME IInv, NEW s \in Socket, NEW t \in Task, TakeLock(s, t)
  PROVE  /\ lock' \in [Socket -> Task \cup {"free"}] /\ lock'[s] = t
         /\ \A q \in Socket \ {s} : lock'[q] = lock[q]
         /\ \A u \in Task \ {t} : lock[s] = u => lock'[s] = u
<1> QED BY DEF TakeLock, Task, IInv, TypeOK

LEMMA PcType ==
  ASSUME NEW k \in TaskRecord, NEW pc \in {"idle", "wait", "version", "scope", "content", "send"}
  PROVE  [k EXCEPT !.pc = pc] \in TaskRecord /\ [k EXCEPT !.pc = pc].pc = pc
<1> QED BY DEF TaskRecord

LEMMA IdleType == Idle \in TaskRecord /\ Idle.pc = "idle" /\ Blank \in Value
<1> QED BY Bounds DEF Idle, Blank, TaskRecord, Value, Version

-----------------------------------------------------------------------------
LEMMA EventLocksKeeps == ASSUME IInv, NEW s \in Socket, EventLocks(s) PROVE IInv'
<1> DEFINE new == [task[s]["dispatcher"] EXCEPT !.pc = "scope"]
<1>1. TakeLock(s, "dispatcher") /\ Become(s, "dispatcher", new) /\ UNCHANGED <<board, standing, socket, inbox, stripped>>
  BY DEF EventLocks, EnterLock, Goto
<1>2. new \in TaskRecord /\ new.pc = "scope"
  BY PcType, Rows DEF IInv, Task
<1> HIDE DEF new
<1> QED BY <1>1, <1>2, LockTaken, TaskKeeps DEF Task

LEMMA PollWakesKeeps == ASSUME IInv, NEW s \in Socket, PollWakes(s) PROVE IInv'
<1> DEFINE new == [task[s]["poll"] EXCEPT !.pc = "version"]
<1>1. TakeLock(s, "poll") /\ Become(s, "poll", new) /\ UNCHANGED <<board, standing, socket, inbox, stripped>>
      /\ task[s]["poll"].pc = "idle"
  BY DEF PollWakes, EnterLock, Goto, Doing
<1>2. new \in TaskRecord /\ new.pc = "version"
  BY PcType, Rows DEF IInv, Task
<1> HIDE DEF new
<1> QED BY <1>1, <1>2, LockTaken, TaskKeeps DEF Task

LEMMA PollComparesKeeps == ASSUME IInv, NEW s \in Socket, PollCompares(s) PROVE IInv'
<1>1. CASE Shutdown(s)
  BY <1>1, ShutdownKeeps
<1>2. CASE Goto(s, "poll", "scope") /\ UNCHANGED <<lock, board, standing, socket, inbox, stripped>>
  <2> DEFINE new == [task[s]["poll"] EXCEPT !.pc = "scope"]
  <2>1. Become(s, "poll", new) /\ task[s]["poll"].pc = "version"
    BY <1>2 DEF PollCompares, Goto, Doing
  <2>2. new \in TaskRecord /\ new.pc = "scope"
    BY PcType, Rows DEF IInv, Task
  <2>3. lock[s] = "poll" /\ lock \in [Socket -> Task \cup {"free"}]
    BY <2>1 DEF IInv, Local, Exclusive, Task, TypeOK
  <2> HIDE DEF new
  <2> QED BY <1>2, <2>1, <2>2, <2>3, TaskKeeps DEF Task
<1>3. CASE Become(s, "poll", Idle) /\ FreeLock(s, "poll") /\ UNCHANGED <<board, standing, socket, inbox, stripped>>
  <2>1. task[s]["poll"].pc = "version"
    BY DEF PollCompares, Doing
  <2>2. /\ lock' \in [Socket -> Task \cup {"free"}] /\ \A q \in Socket \ {s} : lock'[q] = lock[q]
        /\ \A u \in Task \ {"poll"} : lock[s] = u => lock'[s] = u
    BY <1>3 DEF FreeLock, IInv, TypeOK
  <2> QED BY <1>3, <2>1, <2>2, IdleType, TaskKeeps DEF Task
<1> QED BY <1>1, <1>2, <1>3 DEF PollCompares

LEMMA ReadScopeKeeps == ASSUME IInv, NEW s \in Socket, NEW t \in Task, ReadScope(s, t) PROVE IInv'
<1>1. CASE Shutdown(s)
  BY <1>1, ShutdownKeeps
<1>2. CASE ~Shutdown(s)
  <2> DEFINE value == [Blank EXCEPT !.geometry = board.scope]
             new == [task[s][t] EXCEPT !.pc = "content", !.value = value]
  <2>1. Become(s, t, new) /\ UNCHANGED <<board, standing, socket, lock, inbox, stripped>> /\ task[s][t].pc = "scope"
    BY <1>2 DEF ReadScope, Doing
  <2>2. value \in Value
    BY IdleType, BoardType DEF IInv, Value
  <2> HIDE DEF value
  <2>3. new \in TaskRecord /\ new.pc = "content"
    BY <2>2, Rows DEF IInv, TaskRecord
  <2>4. lock[s] = t /\ lock \in [Socket -> Task \cup {"free"}]
    BY <2>1 DEF IInv, Local, Exclusive, TypeOK
  <2> HIDE DEF new
  <2> QED BY <2>1, <2>3, <2>4, TaskKeeps
<1> QED BY <1>1, <1>2

LEMMA ReadContentKeeps == ASSUME IInv, NEW s \in Socket, NEW t \in Task, ReadContent(s, t) PROVE IInv'
<1>1. CASE Shutdown(s)
  BY <1>1, ShutdownKeeps
<1>2. CASE ~Shutdown(s)
  <2>1. task[s][t].pc = "content" /\ standing[s] = "live" /\ UNCHANGED <<board, standing, socket, lock, inbox, stripped>>
    BY <1>2 DEF ReadContent, Doing, StillAuthorized
  <2>2. lock[s] = t /\ lock \in [Socket -> Task \cup {"free"}]
    BY <2>1 DEF IInv, Local, Exclusive, TypeOK
  <2>3. task[s][t] \in TaskRecord
    BY Rows DEF IInv
  <2>4. CASE ~LastTry(s, t) /\ Become(s, t, [task[s][t] EXCEPT !.pc = "scope", !.try = @ + 1])
    <3> DEFINE new == [task[s][t] EXCEPT !.pc = "scope", !.try = @ + 1]
    <3>1. task[s][t].try \in 0 .. TRIES - 1 /\ task[s][t].try + 1 # TRIES
      BY <2>3, <2>4 DEF TaskRecord, LastTry
    <3>2. task[s][t].try + 1 \in 0 .. TRIES - 1
      BY <3>1, Bounds
    <3>3. new \in TaskRecord /\ new.pc = "scope"
      BY <2>3, <3>2 DEF TaskRecord
    <3>4. Become(s, t, new)
      BY <2>4
    <3> HIDE DEF new
    <3> QED BY <2>1, <2>2, <3>3, <3>4, TaskKeeps
  <2>5. CASE SameScope(s, t) /\ Become(s, t, [task[s][t] EXCEPT !.pc = "send", !.value = Visible(task[s][t].value.geometry)])
    <3> DEFINE value == Visible(task[s][t].value.geometry)
               new == [task[s][t] EXCEPT !.pc = "send", !.value = value]
    <3>1. /\ value \in Value /\ value.geometry = board.scope /\ value.scope = board.scope
          /\ value.content = board.content /\ value.drift = board.drift /\ value.version = board.version
      BY <2>3, <2>5, BoardType DEF Visible, SameScope, IInv, Value
    <3>2. NoLater(socket[s].shown, value) /\ NoLater(value, board) /\ value.version <= board.version
      BY <3>1, BoardType DEF IInv, Local, Past, NoLater, Version
    <3>3. value.version <= stripped[s]
      BY <2>1, <3>1, BoardType DEF IInv, Local, Entitled, Version
    <3>4. Shows(value)
      BY <3>1 DEF Shows
    <3> HIDE DEF value
    <3>5. new \in TaskRecord /\ new.pc = "send" /\ new.value = value
      BY <2>3, <3>1 DEF TaskRecord
    <3>6. Become(s, t, new)
      BY <2>5 DEF value
    <3> HIDE DEF new
    <3> QED BY <2>1, <2>2, <3>1, <3>2, <3>3, <3>4, <3>5, <3>6, TaskKeeps
  <2> QED BY <1>2, <2>4, <2>5 DEF ReadContent
<1> QED BY <1>1, <1>2

LEMMA EventKeeps == ASSUME IInv, NEW s \in Socket, Event(s) PROVE IInv'
<1>1. PICK v \in inbox[s] :
        /\ inbox' = [inbox EXCEPT ![s] = @ \ {v}]
        /\ IF v > socket[s].cursor
             THEN socket' = [socket EXCEPT ![s].cursor = v] /\ Goto(s, "dispatcher", "wait")
             ELSE UNCHANGED <<socket, task>>
  BY DEF Event
<1>2. task[s]["dispatcher"].pc = "idle" /\ UNCHANGED <<board, standing, lock, stripped>>
  BY DEF Event, Doing
<1>3. inbox' \in [Socket -> SUBSET Version] /\ inbox'[s] \subseteq inbox[s]
      /\ \A q \in Socket \ {s} : inbox'[q] = inbox[q]
  BY <1>1 DEF IInv, TypeOK
<1>4. CASE ~(v > socket[s].cursor)
  <2>1. UNCHANGED <<socket, task>>
    BY <1>1, <1>4
  <2>2. TypeOK' /\ Apart(s)
    BY <1>2, <1>3, <2>1 DEF IInv, TypeOK, Apart
  <2>3. Local(s)'
    BY <1>2, <1>3, <2>1 DEF IInv, Local, Exclusive, Past, Entitled, CaughtUp, Admitted, OnItsWay, Shows, Sendable, NoLater
  <2> QED BY <2>2, <2>3, ApartKeeps
<1>5. CASE v > socket[s].cursor
  <2> DEFINE new == [task[s]["dispatcher"] EXCEPT !.pc = "wait"]
  <2>1. new \in TaskRecord /\ new.pc = "wait"
    BY PcType, Rows DEF IInv, Task
  <2>2. task' = [task EXCEPT ![s]["dispatcher"] = new]
    BY <1>1, <1>5 DEF Goto, Become
  <2> HIDE DEF new
  <2>3. task'[s] = [task[s] EXCEPT !["dispatcher"] = new] /\ \A q \in Socket \ {s} : task'[q] = task[q]
    BY <2>2 DEF IInv, TypeOK
  <2>4. task'[s]["dispatcher"] = new /\ \A u \in Task \ {"dispatcher"} : task'[s][u] = task[s][u]
    BY <2>3, Rows DEF IInv, Task
  <2>5. task'[s] \in [Task -> TaskRecord]
    BY <2>1, <2>3, Rows DEF IInv, Task
  <2>6. task' \in [Socket -> [Task -> TaskRecord]]
    BY <2>2, <2>3, <2>5 DEF IInv, TypeOK, TaskRecord
  <2>7. socket' = [socket EXCEPT ![s].cursor = v]
    BY <1>1, <1>5
  <2>8. v \in Version /\ v <= board.version
    BY <1>1, Rows DEF IInv, Local, Past
  <2>9. /\ [socket[s] EXCEPT !.cursor = v] \in SocketRecord
        /\ socket'[s].cursor = v /\ socket'[s].shown = socket[s].shown
    <3>1. socket[s] \in SocketRecord
      BY Rows DEF IInv
    <3>2. socket'[s] = [socket[s] EXCEPT !.cursor = v]
      BY <2>7 DEF IInv, TypeOK
    <3> QED BY <2>8, <3>1, <3>2 DEF SocketRecord
  <2>10. socket' \in [Socket -> SocketRecord] /\ \A q \in Socket \ {s} : socket'[q] = socket[q]
    BY <2>7, <2>9 DEF IInv, TypeOK, SocketRecord
  <2>11. TypeOK' /\ Apart(s)
    BY <1>2, <1>3, <2>3, <2>6, <2>10 DEF IInv, TypeOK, Apart, TaskRecord, SocketRecord
  <2>12. Exclusive(s)'
    BY <1>2, <2>1, <2>4 DEF IInv, Local, Exclusive
  <2>13. Past(s)' /\ Entitled(s)'
    BY <1>2, <1>3, <2>8, <2>9 DEF IInv, Local, Past, Entitled, NoLater
  <2>14. CaughtUp(s)'
    BY <2>1, <2>4 DEF CaughtUp, OnItsWay, Task
  <2>15. (\A t \in Task : Sendable(s, t))'
    <3>1. task'[s]["dispatcher"].pc # "send"
      BY <2>1, <2>4
    <3>2. ASSUME NEW t \in Task \ {"dispatcher"} PROVE Sendable(s, t)'
      <4>1. Sendable(s, t) /\ task'[s][t] = task[s][t] /\ socket'[s].shown = socket[s].shown
        BY <2>4, <2>9, <3>2 DEF IInv, Local
      <4> QED BY <1>2, <4>1 DEF Sendable, NoLater, Shows
    <3> QED BY <3>1, <3>2 DEF Sendable
  <2> QED BY <2>11, <2>12, <2>13, <2>14, <2>15, ApartKeeps DEF Local
<1> QED BY <1>4, <1>5

LEMMA AuthenticateKeeps == ASSUME IInv, NEW s \in Socket, Authenticate(s) PROVE IInv'
<1> DEFINE new == [task[s]["dispatcher"] EXCEPT !.pc = "scope"]
<1>1. /\ standing[s] = "none" /\ TakeLock(s, "dispatcher") /\ UNCHANGED <<board, inbox, stripped>>
      /\ standing' = [standing EXCEPT ![s] = "live"]
      /\ socket' = [socket EXCEPT ![s].phase = "admitted"]
      /\ task' = [task EXCEPT ![s]["dispatcher"] = new]
  BY DEF Authenticate, Goto, Become
<1>2. new \in TaskRecord /\ new.pc = "scope"
  BY PcType, Rows DEF IInv, Task
<1> HIDE DEF new
<1>3. task'[s] = [task[s] EXCEPT !["dispatcher"] = new] /\ \A q \in Socket \ {s} : task'[q] = task[q]
  BY <1>1 DEF IInv, TypeOK
<1>4. task'[s]["dispatcher"] = new /\ \A u \in Task \ {"dispatcher"} : task'[s][u] = task[s][u]
  BY <1>3, Rows DEF IInv, Task
<1>5. task'[s] \in [Task -> TaskRecord]
  BY <1>2, <1>3, Rows DEF IInv, Task
<1>6. task' \in [Socket -> [Task -> TaskRecord]]
  BY <1>1, <1>3, <1>5 DEF IInv, TypeOK, TaskRecord
<1>7. /\ lock' \in [Socket -> Task \cup {"free"}] /\ lock'[s] = "dispatcher" /\ lock[s] = "free"
      /\ \A q \in Socket \ {s} : lock'[q] = lock[q]
  BY <1>1 DEF TakeLock, Task, IInv, TypeOK
<1>8. /\ [socket[s] EXCEPT !.phase = "admitted"] \in SocketRecord
      /\ socket'[s].cursor = socket[s].cursor /\ socket'[s].shown = socket[s].shown
  <2>1. socket[s] \in SocketRecord
    BY Rows DEF IInv
  <2>2. socket'[s] = [socket[s] EXCEPT !.phase = "admitted"]
    BY <1>1 DEF IInv, TypeOK
  <2> QED BY <2>1, <2>2 DEF SocketRecord
<1>9. socket' \in [Socket -> SocketRecord] /\ \A q \in Socket \ {s} : socket'[q] = socket[q]
  BY <1>1, <1>8 DEF IInv, TypeOK, SocketRecord
<1>10. standing' \in [Socket -> {"none", "live", "expired", "lost"}] /\ standing'[s] = "live"
       /\ \A q \in Socket \ {s} : standing'[q] = standing[q]
  BY <1>1 DEF IInv, TypeOK
<1>11. TypeOK' /\ Apart(s)
  BY <1>1, <1>3, <1>6, <1>7, <1>9, <1>10 DEF IInv, TypeOK, Apart, TaskRecord, SocketRecord
<1>12. Exclusive(s)'
  BY <1>4, <1>7 DEF IInv, Local, Exclusive, Task
<1>13. Past(s)' /\ Entitled(s)'
  BY <1>1, <1>8, <1>10 DEF IInv, Local, Past, Entitled, NoLater
<1>14. CaughtUp(s)'
  BY <1>2, <1>4 DEF CaughtUp, OnItsWay, Task
<1>15. (\A t \in Task : Sendable(s, t))'
  BY <1>1, <1>2, <1>4, <1>8 DEF IInv, Local, Sendable, NoLater, Shows
<1> QED BY <1>11, <1>12, <1>13, <1>14, <1>15, ApartKeeps DEF Local

(* What a browser is shown is the newer of what it had and what is sent.        *)
LEMMA SendShows ==
  ASSUME IInv, NEW s \in Socket, NEW t \in Task, Send(s, t), ~Shutdown(s)
  PROVE  /\ socket'[s] \in SocketRecord /\ socket' \in [Socket -> SocketRecord]
         /\ socket'[s].cursor = Later(socket[s].cursor, task[s][t].value.version)
         /\ socket'[s].shown \in {socket[s].shown, task[s][t].value}
         /\ socket'[s].shown = socket[s].shown => NoLater(task[s][t].value, socket[s].shown)
         /\ socket'[s].phase = socket[s].phase /\ socket'[s].grouped
         /\ \A q \in Socket \ {s} : socket'[q] = socket[q]
<1> DEFINE value == task[s][t].value
           cursor == Later(socket[s].cursor, value.version)
           shown == IF Content(socket[s].shown) = Content(value) THEN socket[s].shown ELSE value
           new == [socket[s] EXCEPT !.cursor = cursor, !.due = FALSE, !.grouped = TRUE, !.shown = shown]
<1>1. socket[s] \in SocketRecord /\ value \in Value
  BY Rows DEF IInv, TaskRecord
<1>2. cursor \in Version /\ shown \in Value
  BY <1>1 DEF Later, SocketRecord, Value
<1>3. socket' = [socket EXCEPT ![s] = new]
  BY DEF Send, AfterFailedSend
<1>4. shown = socket[s].shown => NoLater(value, socket[s].shown)
  <2>1. ASSUME Content(socket[s].shown) = Content(value) PROVE NoLater(value, socket[s].shown)
    <3>1. socket[s].shown \in Value
      BY <1>1 DEF SocketRecord
    <3>2. /\ Content(value).content = value.content /\ Content(value).scope = value.scope
          /\ Content(value).drift = value.drift
          /\ Content(socket[s].shown).content = socket[s].shown.content
          /\ Content(socket[s].shown).scope = socket[s].shown.scope
          /\ Content(socket[s].shown).drift = socket[s].shown.drift
      BY <1>1, <3>1 DEF Content, Value
    <3> HIDE DEF value
    <3> QED BY <1>1, <2>1, <3>1, <3>2 DEF NoLater, Value, Version
  <2>2. CASE value = socket[s].shown
    <3> HIDE DEF value
    <3> QED BY <1>1, <2>2 DEF NoLater, Value, Version
  <2> QED BY <2>1, <2>2
<1> HIDE DEF cursor, shown, value
<1>5. new \in SocketRecord /\ new.cursor = cursor /\ new.shown = shown /\ new.phase = socket[s].phase
      /\ new.grouped
  BY <1>1, <1>2 DEF SocketRecord
<1> HIDE DEF new
<1>6. socket'[s] = new /\ (\A q \in Socket \ {s} : socket'[q] = socket[q]) /\ socket' \in [Socket -> SocketRecord]
  BY <1>3, <1>5 DEF IInv, TypeOK, SocketRecord
<1>7. shown \in {socket[s].shown, value}
  BY DEF shown
<1> QED BY <1>4, <1>5, <1>6, <1>7 DEF cursor, value

LEMMA SendKeeps == ASSUME IInv, NEW s \in Socket, NEW t \in Task, Send(s, t) PROVE IInv'
<1>1. CASE Shutdown(s)
  BY <1>1, ShutdownKeeps
<1>2. CASE ~Shutdown(s)
  <2> DEFINE value == task[s][t].value
  <2>1. /\ task[s][t].pc = "send" /\ task' = [task EXCEPT ![s][t] = Idle] /\ FreeLock(s, t)
        /\ UNCHANGED <<board, standing, inbox, stripped>>
    BY <1>2 DEF Send, AfterFailedSend, Doing, Become
  <2>2. /\ socket'[s] \in SocketRecord /\ socket' \in [Socket -> SocketRecord]
        /\ socket'[s].cursor = Later(socket[s].cursor, value.version)
        /\ socket'[s].shown \in {socket[s].shown, value}
        /\ socket'[s].shown = socket[s].shown => NoLater(value, socket[s].shown)
        /\ socket'[s].phase = socket[s].phase
        /\ \A q \in Socket \ {s} : socket'[q] = socket[q]
    BY <1>2, SendShows
  <2>3. task'[s] = [task[s] EXCEPT ![t] = Idle] /\ \A q \in Socket \ {s} : task'[q] = task[q]
    BY <2>1 DEF IInv, TypeOK
  <2>4. task'[s][t] = Idle /\ \A u \in Task \ {t} : task'[s][u] = task[s][u]
    BY <2>3, Rows DEF IInv
  <2>5. task'[s] \in [Task -> TaskRecord]
    BY <2>3, IdleType, Rows DEF IInv
  <2>6. task' \in [Socket -> [Task -> TaskRecord]]
    BY <2>1, <2>3, <2>5 DEF IInv, TypeOK, TaskRecord
  <2>7. lock[s] = t
    BY <2>1 DEF IInv, Local, Exclusive
  <2>8. lock' \in [Socket -> Task \cup {"free"}] /\ \A q \in Socket \ {s} : lock'[q] = lock[q]
    BY <2>1 DEF FreeLock, IInv, TypeOK
  <2>9. TypeOK' /\ Apart(s)
    BY <2>1, <2>2, <2>3, <2>6, <2>8 DEF IInv, TypeOK, Apart, TaskRecord, SocketRecord
  <2>10. Exclusive(s)' /\ \A u \in Task : task'[s][u].pc \in {"idle", "wait"}
    BY <2>4, <2>7, Rows, IdleType DEF IInv, Local, Exclusive, TaskRecord
  <2>11. /\ value \in Value /\ socket[s].shown \in Value /\ socket[s].cursor \in Version
    BY Rows DEF IInv, SocketRecord, TaskRecord
  <2>12. /\ value.geometry = value.scope /\ NoLater(value, board) /\ value.version <= board.version
         /\ value.version = board.version => Shows(value)
         /\ value.version <= stripped[s] /\ NoLater(socket[s].shown, value)
    BY <2>1 DEF IInv, Local, Sendable
  <2> HIDE DEF value
  <2>13. Past(s)' /\ Entitled(s)'
    BY <2>1, <2>2, <2>12 DEF IInv, Local, Past, Entitled, NoLater, Later
  <2>14. (\A u \in Task : Sendable(s, u))'
    BY <2>10 DEF Sendable
  <2>15. CaughtUp(s)'
    <3> SUFFICES ASSUME Admitted(s)', socket'[s].cursor = board.version
                 PROVE  Shows(socket[s].shown)' \/ \E u \in Task : OnItsWay(s, u)'
      BY <2>1 DEF CaughtUp
    <3>1. ASSUME Shows(value) PROVE Shows(socket[s].shown)'
      BY <2>1, <2>2, <2>11, <2>12, <3>1, BoardType DEF Shows, NoLater, IInv, Value, Version
    <3>2. CASE value.version = board.version
      BY <2>12, <3>1, <3>2
    <3>3. CASE socket[s].cursor = board.version
      <4>1. Shows(socket[s].shown) \/ \E u \in Task : OnItsWay(s, u)
        BY <2>2, <3>3 DEF IInv, Local, CaughtUp, Admitted
      <4>2. ASSUME Shows(socket[s].shown) PROVE Shows(value)
        BY <2>11, <2>12, <4>2, BoardType DEF Shows, NoLater, IInv, Value, Version
      <4>3. ASSUME NEW u \in Task, OnItsWay(s, u) PROVE Shows(value) \/ OnItsWay(s, u)'
        <5>1. CASE u = t
          BY <2>1, <4>3, <5>1 DEF OnItsWay, value
        <5>2. CASE u # t
          <6>1. task[s][u].pc = "wait"
            BY <2>7, <4>3, <5>2 DEF IInv, Local, Exclusive, OnItsWay
          <6> QED BY <2>4, <5>2, <6>1 DEF OnItsWay
        <5> QED BY <5>1, <5>2
      <4> QED BY <3>1, <4>1, <4>2, <4>3
    <3> QED BY <2>2, <3>2, <3>3 DEF Later
  <2> QED BY <2>9, <2>10, <2>13, <2>14, <2>15, ApartKeeps DEF Local
<1> QED BY <1>1, <1>2

-----------------------------------------------------------------------------
LEMMA RefreshKeeps == ASSUME IInv, NEW s \in Socket, RefreshDue(s) PROVE IInv'
<1>1. socket' = [socket EXCEPT ![s].due = TRUE] /\ UNCHANGED <<board, standing, task, lock, inbox, stripped>>
  BY DEF RefreshDue
<1>2. /\ [socket[s] EXCEPT !.due = TRUE] \in SocketRecord
      /\ socket'[s].cursor = socket[s].cursor /\ socket'[s].shown = socket[s].shown
      /\ socket'[s].phase = socket[s].phase
  <2>1. socket[s] \in SocketRecord
    BY Rows DEF IInv
  <2>2. socket'[s] = [socket[s] EXCEPT !.due = TRUE]
    BY <1>1 DEF IInv, TypeOK
  <2> QED BY <2>1, <2>2 DEF SocketRecord
<1>3. socket' \in [Socket -> SocketRecord] /\ \A q \in Socket \ {s} : socket'[q] = socket[q]
  BY <1>1, <1>2 DEF IInv, TypeOK, SocketRecord
<1>4. TypeOK' /\ Apart(s)
  BY <1>1, <1>3 DEF IInv, TypeOK, Apart, SocketRecord
<1>5. Local(s)'
  BY <1>1, <1>2 DEF IInv, Local, Exclusive, Past, Entitled, CaughtUp, Admitted, OnItsWay, Shows, Sendable, NoLater
<1> QED BY <1>4, <1>5, ApartKeeps

(* A loss is dated by the version of its moment: nothing read before is later.  *)
LEMMA LeaseKeeps ==
  ASSUME IInv, NEW s \in Socket, NEW from \in {"live", "expired"}, NEW to \in {"live", "expired", "lost"},
         LeaseMoves(s, from, to)
  PROVE  IInv'
<1>1. /\ standing[s] = from /\ standing' = [standing EXCEPT ![s] = to]
      /\ stripped' = [stripped EXCEPT ![s] = IF to = "lost" THEN board.version ELSE @]
      /\ UNCHANGED <<board, socket, task, lock, inbox>>
  BY DEF LeaseMoves
<1>2. /\ standing'[s] = to /\ stripped'[s] = (IF to = "lost" THEN board.version ELSE stripped[s])
      /\ standing' \in [Socket -> {"none", "live", "expired", "lost"}] /\ stripped' \in [Socket -> Version]
      /\ \A q \in Socket \ {s} : standing'[q] = standing[q] /\ stripped'[q] = stripped[q]
  BY <1>1, BoardType DEF IInv, TypeOK
<1>3. TypeOK' /\ Apart(s)
  BY <1>1, <1>2 DEF IInv, TypeOK, Apart
<1>4. Exclusive(s)' /\ Past(s)' /\ CaughtUp(s)'
  BY <1>1 DEF IInv, Local, Exclusive, Past, CaughtUp, Admitted, OnItsWay, Shows, NoLater
<1>5. Entitled(s)'
  BY <1>1, <1>2 DEF IInv, Local, Past, Entitled
<1>6. (\A t \in Task : Sendable(s, t))'
  <2> SUFFICES ASSUME NEW t \in Task PROVE Sendable(s, t)'
    OBVIOUS
  <2> QED BY <1>1, <1>2 DEF IInv, Local, Sendable, Shows, NoLater
<1> QED BY <1>3, <1>4, <1>5, <1>6, ApartKeeps DEF Local

(* A board that only grows.                                                     *)
LEMMA BoardKeeps ==
  ASSUME IInv, UNCHANGED <<standing, socket, task, lock, stripped>>,
         board' \in [version: Version, content: Version, scope: Version, drift: 0 .. MAX_DRIFT],
         Bounded', NoLater(board, board'),
         board'.version > board.version \/ (board'.version = board.version /\ Shows(board'))
  PROVE  (inbox' \in [Socket -> SUBSET Version] /\ \A s \in Socket : \A v \in inbox'[s] : v <= board'.version) => IInv'
<1> SUFFICES ASSUME inbox' \in [Socket -> SUBSET Version], \A s \in Socket : \A v \in inbox'[s] : v <= board'.version
             PROVE  IInv'
  OBVIOUS
<1>1. TypeOK'
  BY DEF IInv, TypeOK
<1>2. ASSUME NEW s \in Socket PROVE Local(s)'
  <2>1. socket[s].shown \in Value /\ socket[s].cursor \in Version
    BY Rows DEF IInv, SocketRecord
  <2>2. board.version \in Version /\ board.content \in Version /\ board.scope \in Version /\ board.drift \in 0 .. MAX_DRIFT
        /\ board'.version \in Version /\ board'.content \in Version /\ board'.scope \in Version /\ board'.drift \in 0 .. MAX_DRIFT
    BY BoardType DEF IInv
  <2>3. \A v \in Value : NoLater(v, board) => NoLater(v, board')
    BY <2>2 DEF NoLater, Value, Version
  <2>4. Exclusive(s)' /\ Entitled(s)'
    BY DEF IInv, Local, Exclusive, Entitled
  <2>5. Past(s)'
    <3>1. socket[s].cursor <= board'.version /\ socket[s].shown.version <= board'.version
      BY <2>1, <2>2 DEF IInv, Local, Past, Value, Version
    <3>2. NoLater(socket[s].shown, board')
      BY <2>1, <2>3 DEF IInv, Local, Past
    <3> QED BY <3>1, <3>2 DEF IInv, Local, Past, NoLater
  <2>6. CASE board'.version > board.version
    <3>1. CaughtUp(s)'
      BY <2>1, <2>2, <2>6 DEF IInv, Local, Past, CaughtUp, Version
    <3>2. ASSUME NEW t \in Task PROVE Sendable(s, t)'
      <4>1. task[s][t].value \in Value
        BY Rows DEF IInv, TaskRecord
      <4>2. Sendable(s, t)
        BY DEF IInv, Local
      <4> DEFINE v == task[s][t].value
      <4>3. v.version <= board.version => v.version <= board'.version /\ v.version # board'.version
        BY <2>2, <2>6, <4>1 DEF Value, Version
      <4>4. NoLater(v, board) => NoLater(v, board')
        BY <2>3, <4>1
      <4> QED BY <4>2, <4>3, <4>4 DEF Sendable, NoLater
    <3> QED BY <2>4, <2>5, <3>1, <3>2 DEF Local
  <2>7. CASE board'.version = board.version /\ Shows(board')
    <3>1. CaughtUp(s)'
      BY <2>7 DEF IInv, Local, CaughtUp, Admitted, OnItsWay, Shows
    <3>2. ASSUME NEW t \in Task PROVE Sendable(s, t)'
      <4>1. task[s][t].value \in Value
        BY Rows DEF IInv, TaskRecord
      <4>2. Sendable(s, t)
        BY DEF IInv, Local
      <4>3. NoLater(task[s][t].value, board) => NoLater(task[s][t].value, board')
        BY <2>3, <4>1
      <4> QED BY <2>7, <4>2, <4>3 DEF Sendable, NoLater, Shows
    <3> QED BY <2>4, <2>5, <3>1, <3>2 DEF Local
  <2> QED BY <2>6, <2>7
<1> QED BY <1>1, <1>2 DEF IInv

LEMMA ChangeKeeps == ASSUME IInv, ChangeBoard \/ ChangeScope \/ ChangeOtherBoard PROVE IInv'
<1>1. board.version < MAX_VERSION /\ Publish /\ UNCHANGED <<standing, socket, task, lock, stripped>>
  BY DEF ChangeBoard, ChangeScope, ChangeOtherBoard, Change
<1>2. /\ board' \in [version: Version, content: Version, scope: Version, drift: 0 .. MAX_DRIFT]
      /\ board'.version = board.version + 1 /\ board'.drift = board.drift
      /\ board'.content \in {board.content, board.content + 1}
      /\ board'.scope \in {board.scope, board.scope + 1}
  <2>1. board.content + 1 \in Version /\ board.scope + 1 \in Version /\ board.version + 1 \in Version
    BY <1>1, BoardType, Bounds DEF IInv, Bounded, Version
  <2>2. CASE ChangeBoard
    <3>1. board' = [[board EXCEPT !.content = @ + 1] EXCEPT !.version = @ + 1]
      BY <2>2 DEF ChangeBoard, Change
    <3> QED BY <2>1, <3>1, BoardType DEF IInv
  <2>3. CASE ChangeScope
    <3>1. board' = [[board EXCEPT !.scope = @ + 1] EXCEPT !.version = @ + 1]
      BY <2>3 DEF ChangeScope, Change
    <3> QED BY <2>1, <3>1, BoardType DEF IInv
  <2>4. CASE ChangeOtherBoard
    <3>1. board' = [board EXCEPT !.version = @ + 1]
      BY <2>4 DEF ChangeOtherBoard, Change
    <3> QED BY <2>1, <3>1, BoardType DEF IInv
  <2> QED BY <2>2, <2>3, <2>4
<1>3. Bounded' /\ NoLater(board, board') /\ board'.version > board.version
  BY <1>2, BoardType DEF IInv, Bounded, NoLater, Version
<1>4. PICK heard \in SUBSET Socket :
        inbox' = [s \in Socket |-> IF s \in heard THEN inbox[s] \cup {board'.version} ELSE inbox[s]]
  BY <1>1 DEF Publish
<1>5. inbox' \in [Socket -> SUBSET Version]
  BY <1>2, <1>4, Rows DEF IInv
<1>6. \A s \in Socket : \A v \in inbox'[s] : v <= board'.version
  <2> SUFFICES ASSUME NEW s \in Socket, NEW v \in inbox'[s] PROVE v <= board'.version
    OBVIOUS
  <2>1. CASE v \in inbox[s]
    BY <1>2, <2>1, Rows, BoardType DEF IInv, Local, Past, Version
  <2>2. CASE v = board'.version
    BY <1>2, <2>2 DEF Version
  <2> QED BY <1>4, <2>1, <2>2
<1> QED BY <1>1, <1>2, <1>3, <1>5, <1>6, BoardKeeps

LEMMA DriftKeeps == ASSUME IInv, Drift PROVE IInv'
<1>1. board' = [board EXCEPT !.drift = @ + 1] /\ board.drift < MAX_DRIFT
      /\ UNCHANGED <<standing, socket, task, lock, inbox, stripped>>
  BY DEF Drift
<1>2. board.drift + 1 \in 0 .. MAX_DRIFT
  BY <1>1, BoardType, Bounds DEF IInv
<1>3. /\ board' \in [version: Version, content: Version, scope: Version, drift: 0 .. MAX_DRIFT]
      /\ board'.version = board.version /\ board'.content = board.content /\ board'.scope = board.scope
      /\ board'.drift = board.drift + 1
  BY <1>1, <1>2, BoardType DEF IInv
<1>4. Bounded' /\ NoLater(board, board') /\ Shows(board')
  BY <1>3, BoardType DEF IInv, Bounded, NoLater, Shows, Version
<1>5. inbox' \in [Socket -> SUBSET Version] /\ \A s \in Socket : \A v \in inbox'[s] : v <= board'.version
  BY <1>1, <1>3 DEF IInv, TypeOK, Local, Past
<1> QED BY <1>1, <1>3, <1>4, <1>5, BoardKeeps

LEMMA InitInv == Init => IInv
<1> SUFFICES ASSUME Init PROVE IInv
  OBVIOUS
<1>1. TypeOK
  BY IdleType, Bounds DEF Init, TypeOK, TaskRecord, Version
<1>2. Bounded
  BY DEF Init, Bounded
<1>3. ASSUME NEW s \in Socket PROVE Local(s)
  <2>1. \A t \in Task : task[s][t].pc = "idle"
    BY DEF Init, Idle
  <2>2. Exclusive(s) /\ CaughtUp(s) /\ \A t \in Task : Sendable(s, t)
    BY <2>1 DEF Init, Exclusive, CaughtUp, Admitted, Sendable
  <2>3. Past(s) /\ Entitled(s)
    BY Bounds DEF Init, Past, Entitled, NoLater, Blank
  <2> QED BY <2>2, <2>3 DEF Local
<1> QED BY <1>1, <1>2, <1>3 DEF IInv

LEMMA StepInv == IInv /\ [Next]_vars => IInv'
<1> SUFFICES ASSUME IInv, [Next]_vars PROVE IInv'
  OBVIOUS
<1>1. CASE ChangeBoard \/ ChangeScope \/ ChangeOtherBoard \/ Drift
  BY <1>1, ChangeKeeps, DriftKeeps
<1>2. ASSUME NEW s \in Socket, Step(s) PROVE IInv'
  BY <1>2, EventKeeps, EventLocksKeeps, PollWakesKeeps, PollComparesKeeps, ReadScopeKeeps, ReadContentKeeps,
     SendKeeps DEF Step
<1>3. ASSUME NEW s \in Socket, LeaseExpires(s) \/ LeaseRenewed(s) \/ LeaseLost(s) PROVE IInv'
  BY <1>3, LeaseKeeps DEF LeaseExpires, LeaseRenewed, LeaseLost
<1>4. ASSUME NEW s \in Socket, Authenticate(s) \/ Ping(s) \/ Close(s) \/ RefreshDue(s) PROVE IInv'
  BY <1>4, AuthenticateKeeps, ShutdownKeeps, RefreshKeeps DEF Ping, Close
<1>5. CASE UNCHANGED vars
  <2>1. UNCHANGED <<board, standing, socket, task, lock, inbox, stripped>>
    BY <1>5 DEF vars
  <2>2. TypeOK' /\ Bounded'
    BY <2>1 DEF IInv, TypeOK, Bounded
  <2>3. ASSUME NEW s \in Socket PROVE Local(s)'
    BY <2>1 DEF IInv, Local, Exclusive, Past, Entitled, CaughtUp, Admitted, OnItsWay, Shows, Sendable, NoLater
  <2> QED BY <2>2, <2>3 DEF IInv
<1> QED BY <1>1, <1>2, <1>3, <1>4, <1>5 DEF Next

(* Cursors, locks and snapshots under way fit together through every order of   *)
(* events, polls, commands and lost leases (realtime.py 137-236).               *)
THEOREM RealtimeInductive == Spec => []IInv
<1> QED BY InitInv, StepInv, PTL DEF Spec

(* No browser is shown the geometry of one scope with the board of another      *)
(* (services.py 818-836).                                                       *)
THEOREM NeverMixedHolds == Spec => []NeverMixed
<1>1. IInv => NeverMixed
  BY DEF IInv, NeverMixed, Local, Past
<1> QED BY <1>1, RealtimeInductive, PTL

(* A member who lost the connection is shown nothing committed later            *)
(* (realtime.py 205-224).                                                       *)
THEOREM NothingAfterLossHolds == Spec => []NothingAfterLoss
<1>1. IInv => NothingAfterLoss
  BY DEF IInv, NothingAfterLoss, Local, Entitled
<1> QED BY <1>1, RealtimeInductive, PTL

(* A socket that has caught up with the board's version shows it, although the  *)
(* cursor runs ahead of the snapshot (realtime.py 159-162, 208).                *)
THEOREM CursorHidesNothingHolds == Spec => []CursorHidesNothing
<1>1. IInv => CursorHidesNothing
  <2> SUFFICES ASSUME IInv, NEW s \in Socket, Admitted(s),
                      \A t \in Task : task[s][t].pc \in {"idle", "version"},
                      socket[s].cursor = board.version
               PROVE  Shows(socket[s].shown)
    BY DEF CursorHidesNothing, Shows
  <2>1. Shows(socket[s].shown) \/ \E t \in Task : OnItsWay(s, t)
    BY DEF IInv, Local, CaughtUp
  <2> QED BY <2>1 DEF OnItsWay
<1> QED BY <1>1, RealtimeInductive, PTL

(* What a browser is shown never goes back (realtime.py 205-224).               *)
THEOREM NeverBackwardsHolds == Spec => NeverBackwards
<1>1. ASSUME IInv, [Next]_vars, NEW s \in Socket PROVE NoLater(socket[s].shown, socket'[s].shown)
  <2>1. socket[s].shown \in Value
    BY <1>1, Rows DEF IInv, SocketRecord
  <2>2. ASSUME socket'[s].shown = socket[s].shown PROVE NoLater(socket[s].shown, socket'[s].shown)
    BY <2>1, <2>2 DEF NoLater, Value, Version
  <2>3. ASSUME NEW q \in Socket, Shutdown(q) PROVE socket'[s].shown = socket[s].shown
    BY <1>1, <2>3, Rows DEF Shutdown, IInv, TypeOK, SocketRecord
  <2>4. ASSUME NEW q \in Socket, NEW t \in Task, Send(q, t) PROVE NoLater(socket[s].shown, socket'[s].shown)
    <3>1. CASE Shutdown(q)
      BY <2>2, <2>3, <3>1
    <3>2. CASE ~Shutdown(q) /\ q # s
      <4>1. socket'[s] = socket[s]
        BY <1>1, <2>4, <3>2, SendShows
      <4> QED BY <2>2, <4>1
    <3>3. CASE ~Shutdown(q) /\ q = s
      <4>1. socket'[s].shown \in {socket[s].shown, task[s][t].value}
        BY <1>1, <2>4, <3>3, SendShows
      <4>2. NoLater(socket[s].shown, task[s][t].value)
        BY <1>1, <2>4, <3>3 DEF Send, Doing, IInv, Local, Sendable
      <4> QED BY <2>2, <4>1, <4>2
    <3> QED BY <3>1, <3>2, <3>3
  <2>5. ASSUME NEW q \in Socket, Event(q) \/ Authenticate(q) \/ RefreshDue(q) PROVE socket'[s].shown = socket[s].shown
    <3>1. socket[s] \in SocketRecord /\ s \in DOMAIN socket
      BY <1>1, Rows DEF IInv, TypeOK
    <3>2. CASE Event(q)
      <4>1. UNCHANGED socket \/ \E v : socket' = [socket EXCEPT ![q].cursor = v]
        BY <3>2 DEF Event
      <4> QED BY <3>1, <4>1 DEF SocketRecord
    <3>3. CASE Authenticate(q)
      BY <3>1, <3>3 DEF Authenticate, SocketRecord
    <3>4. CASE RefreshDue(q)
      BY <3>1, <3>4 DEF RefreshDue, SocketRecord
    <3> QED BY <2>5, <3>2, <3>3, <3>4
  <2>6. ASSUME NEW q \in Socket, EventLocks(q) \/ PollWakes(q) \/ PollCompares(q) \/ \E t \in Task : ReadScope(q, t) \/ ReadContent(q, t)
        PROVE  Shutdown(q) \/ UNCHANGED socket
    BY <2>6 DEF EventLocks, PollWakes, PollCompares, ReadScope, ReadContent
  <2>7. ASSUME NEW q \in Socket, LeaseExpires(q) \/ LeaseRenewed(q) \/ LeaseLost(q) \/ Ping(q) \/ Close(q)
        PROVE  Shutdown(q) \/ UNCHANGED socket
    BY <2>7 DEF LeaseExpires, LeaseRenewed, LeaseLost, LeaseMoves, Ping, Close
  <2>8. CASE ChangeBoard \/ ChangeScope \/ ChangeOtherBoard \/ Drift \/ UNCHANGED vars
    BY <2>2, <2>8 DEF ChangeBoard, ChangeScope, ChangeOtherBoard, Change, Drift, vars
  <2> QED BY <1>1, <2>2, <2>3, <2>4, <2>5, <2>6, <2>7, <2>8 DEF Next, Step
<1>2. IInv /\ [Next]_vars =>
        (\A s \in Socket :
           /\ socket[s].shown.content <= socket'[s].shown.content
           /\ socket[s].shown.scope <= socket'[s].shown.scope
           /\ socket[s].shown.drift <= socket'[s].shown.drift)
  BY <1>1 DEF NoLater
<1> QED BY <1>2, RealtimeInductive, PTL DEF Spec, NeverBackwards
-----------------------------------------------------------------------------
(* The consumer and the database: what an open socket meets is one of the       *)
(* histories of SocketStanding.                                                 *)
Seen(s) == IF Open(s) THEN standing[s] ELSE "closed"
Place == INSTANCE SocketStanding WITH standing <- [s \in Socket |-> Seen(s)]

LEMMA StandingType ==
  ASSUME IInv, [Next]_vars, NEW s \in Socket
  PROVE  /\ standing'[s] = standing[s] \/ <<standing[s], standing'[s]>> \in Place!Move
         /\ standing[s] \in {"none", "live", "expired", "lost"}
         /\ standing'[s] \in {"none", "live", "expired", "lost"}
<1> USE DEF Place!Move, IInv, TypeOK
<1>1. ASSUME NEW q \in Socket, NEW from \in {"live", "expired"}, NEW to \in {"live", "expired", "lost"},
             <<from, to>> \in Place!Move, LeaseMoves(q, from, to)
      PROVE  standing'[s] = standing[s] \/ <<standing[s], standing'[s]>> \in Place!Move
  <2>1. standing[q] = from /\ standing' = [standing EXCEPT ![q] = to]
    BY <1>1 DEF LeaseMoves
  <2>2. CASE q = s
    BY <1>1, <2>1, <2>2
  <2>3. CASE q # s
    BY <2>1, <2>3
  <2> QED BY <2>2, <2>3
<1>2. ASSUME NEW q \in Socket, LeaseExpires(q) \/ LeaseRenewed(q) \/ LeaseLost(q)
      PROVE  standing'[s] = standing[s] \/ <<standing[s], standing'[s]>> \in Place!Move
  <2>1. <<"live", "expired">> \in Place!Move /\ <<"expired", "live">> \in Place!Move
        /\ \A from \in {"live", "expired"} : <<from, "lost">> \in Place!Move
    OBVIOUS
  <2> HIDE DEF Place!Move
  <2> QED BY <1>1, <1>2, <2>1 DEF LeaseExpires, LeaseRenewed, LeaseLost
<1>3. ASSUME NEW q \in Socket, Authenticate(q)
      PROVE  standing'[s] = standing[s] \/ <<standing[s], standing'[s]>> \in Place!Move
  <2>1. standing[q] = "none" /\ standing' = [standing EXCEPT ![q] = "live"]
    BY <1>3 DEF Authenticate
  <2>2. CASE q = s
    BY <2>1, <2>2
  <2>3. CASE q # s
    BY <2>1, <2>3
  <2> QED BY <2>2, <2>3
<1>4. ASSUME NEW q \in Socket, Ping(q) \/ Close(q) \/ RefreshDue(q) \/ Event(q) \/ EventLocks(q) \/ PollWakes(q)
      PROVE  UNCHANGED standing
  BY <1>4 DEF Ping, Close, RefreshDue, Event, EventLocks, PollWakes, Shutdown
<1>5. ASSUME NEW q \in Socket, NEW t \in Task,
             PollCompares(q) \/ ReadScope(q, t) \/ ReadContent(q, t) \/ Send(q, t)
      PROVE  UNCHANGED standing
  BY <1>5 DEF PollCompares, ReadScope, ReadContent, Send, AfterFailedSend, Shutdown
<1>6. ChangeBoard \/ ChangeScope \/ ChangeOtherBoard \/ Drift \/ UNCHANGED vars => UNCHANGED standing
  BY DEF ChangeBoard, ChangeScope, ChangeOtherBoard, Change, Drift, vars
<1>7. TypeOK'
  BY StepInv
<1> QED BY <1>2, <1>3, <1>4, <1>5, <1>6, <1>7 DEF Next, Step, Task

(* A consumer that has shut down does not open again.                           *)
LEMMA ClosedStaysClosed ==
  ASSUME IInv, [Next]_vars, NEW s \in Socket, ~Open(s)
  PROVE  ~Open(s)'
<1> USE DEF Open
<1>1. /\ socket \in [Socket -> SocketRecord] /\ socket[s].phase = "closed"
      /\ socket[s] \in SocketRecord
  BY DEF IInv, TypeOK, SocketRecord
<1>2. ASSUME NEW q \in Socket, Shutdown(q) PROVE ~Open(s)'
  BY <1>1, <1>2 DEF Shutdown, SocketRecord
<1>4. ASSUME NEW q \in Socket, Authenticate(q) PROVE ~Open(s)'
  <2>1. q # s /\ socket' = [socket EXCEPT ![q].phase = "admitted"]
    BY <1>1, <1>4 DEF Authenticate
  <2> QED BY <1>1, <2>1
<1>5. ASSUME NEW q \in Socket, RefreshDue(q) PROVE ~Open(s)'
  <2>1. socket' = [socket EXCEPT ![q] = [socket[q] EXCEPT !.due = TRUE]]
    BY <1>1, <1>5 DEF RefreshDue
  <2> QED BY <1>1, <2>1 DEF SocketRecord
<1>6. ASSUME NEW q \in Socket, Event(q) PROVE ~Open(s)'
  <2>1. \/ UNCHANGED socket
        \/ \E v \in inbox[q] : socket' = [socket EXCEPT ![q] = [socket[q] EXCEPT !.cursor = v]]
    BY <1>1, <1>6 DEF Event
  <2> QED BY <1>1, <2>1 DEF SocketRecord
<1>7. ASSUME NEW q \in Socket, NEW t \in Task, Send(q, t) PROVE ~Open(s)'
  <2>1. q # s
    BY <1>1, <1>7 DEF Send, Doing
  <2>2. Shutdown(q) \/ socket'[s] = socket[s]
    BY <1>1, <1>7, <2>1, SendShows
  <2> QED BY <1>1, <1>2, <2>2
<1>8. ASSUME NEW q \in Socket, NEW t \in Task,
             \/ Ping(q) \/ Close(q) \/ EventLocks(q) \/ PollWakes(q) \/ PollCompares(q)
             \/ ReadScope(q, t) \/ ReadContent(q, t)
             \/ LeaseExpires(q) \/ LeaseRenewed(q) \/ LeaseLost(q)
      PROVE  Shutdown(q) \/ UNCHANGED socket
  BY <1>8 DEF Ping, Close, EventLocks, PollWakes, PollCompares, ReadScope, ReadContent,
              LeaseExpires, LeaseRenewed, LeaseLost, LeaseMoves
<1>9. ChangeBoard \/ ChangeScope \/ ChangeOtherBoard \/ Drift \/ UNCHANGED vars => UNCHANGED socket
  BY DEF ChangeBoard, ChangeScope, ChangeOtherBoard, Change, Drift, vars
<1> QED BY <1>1, <1>2, <1>4, <1>5, <1>6, <1>7, <1>8, <1>9 DEF Next, Step, Task

(* An open socket sees its connection move only as the presence rules allow     *)
(* (TacticalPresenceProofs proves that they do): claimed once, out and back in   *)
(* while its row names it, and lost for good (realtime.py 84-121, 205-224).      *)
THEOREM RealtimeStanding == Spec => Place!Spec
<1>1. Init => Place!Init
  <2> SUFFICES ASSUME Init PROVE [s \in Socket |-> Seen(s)] = [s \in Socket |-> "none"]
    BY DEF Place!Init
  <2> QED BY DEF Init, Seen, Open
<1>2. IInv /\ [Next]_vars => [Place!Next]_([s \in Socket |-> Seen(s)])
  <2> SUFFICES ASSUME IInv, [Next]_vars PROVE Place!Next
    OBVIOUS
  <2>1. ASSUME NEW s \in Socket
        PROVE  /\ Seen(s)' \in Place!Standing
               /\ Seen(s)' = Seen(s) \/ <<Seen(s), Seen(s)'>> \in Place!Move
    <3>1. /\ standing'[s] = standing[s] \/ <<standing[s], standing'[s]>> \in Place!Move
          /\ standing[s] \in {"none", "live", "expired", "lost"}
          /\ standing'[s] \in {"none", "live", "expired", "lost"}
      BY StandingType
    <3>2. ~Open(s) => ~Open(s)'
      BY ClosedStaysClosed
    <3> QED BY <3>1, <3>2 DEF Seen, Place!Standing, Place!Move
  <2> QED BY <2>1 DEF Place!Next
<1> QED BY <1>1, <1>2, RealtimeInductive, PTL DEF Spec, Place!Spec

(* Nothing less is assumed of the database: whatever SocketStanding lets happen  *)
(* to a claimed connection may happen here, in every state of the consumer.     *)
THEOREM EveryMoveAdmitted ==
  ASSUME NEW s \in Socket, NEW to, <<standing[s], to>> \in Place!Move,
         standing[s] # "none", to # "closed",
         standing' = [standing EXCEPT ![s] = to],
         stripped' = [stripped EXCEPT ![s] = IF to = "lost" THEN board.version ELSE @],
         UNCHANGED <<board, socket, task, lock, inbox>>
  PROVE  Next
<1>1. LeaseMoves(s, standing[s], to)
  BY DEF LeaseMoves
<1>2. <<standing[s], to>> \in {<<"live", "expired">>, <<"expired", "live">>, <<"live", "lost">>, <<"expired", "lost">>}
  BY DEF Place!Move
<1>3. LeaseExpires(s) \/ LeaseRenewed(s) \/ LeaseLost(s)
  BY <1>1, <1>2 DEF LeaseExpires, LeaseRenewed, LeaseLost
<1> QED BY <1>3 DEF Next
-----------------------------------------------------------------------------
(* Progress.  Who may hold the lock, and what an admitted socket is doing.      *)
Manned(s) ==
  /\ standing[s] # "none" => socket[s].phase # "accepted"
  /\ \A t \in Task : task[s][t].pc # "idle" => Admitted(s)
  /\ lock[s] # "free" => task[s][lock[s]].pc \in {"version", "scope", "content", "send"}
  /\ task[s]["dispatcher"].pc # "version" /\ task[s]["poll"].pc # "wait"
  /\ Admitted(s) /\ ~socket[s].grouped => lock[s] = "dispatcher"
PInv(s) == IInv /\ Manned(s)

(* A step that leaves the tasks of s, its lock and what it shows alone.         *)
Calm(s) ==
  /\ task'[s] = task[s] /\ lock'[s] = lock[s]
  /\ socket'[s] \in {socket[s], [socket[s] EXCEPT !.due = TRUE]}
  /\ standing[s] = "none" => standing'[s] = "none"

(* Only its own steps do more to a socket.                                      *)
LEMMA Moves ==
  ASSUME IInv, [Next]_vars, NEW s \in Socket
  PROVE  Calm(s) \/ Shutdown(s) \/ Authenticate(s) \/ Step(s)
<1>1. /\ socket \in [Socket -> SocketRecord] /\ task \in [Socket -> [Task -> TaskRecord]]
      /\ lock \in [Socket -> Task \cup {"free"}]
      /\ standing \in [Socket -> {"none", "live", "expired", "lost"}]
  BY DEF IInv, TypeOK, SocketRecord, TaskRecord
<1>2. ASSUME NEW q \in Socket \ {s}, Shutdown(q) PROVE Calm(s)
  BY <1>1, <1>2 DEF Shutdown, Calm
<1>3. ASSUME NEW q \in Socket \ {s}, Authenticate(q) PROVE Calm(s)
  BY <1>1, <1>3 DEF Authenticate, TakeLock, Goto, Become, Calm
<1>4. ASSUME NEW q \in Socket \ {s}, Step(q) PROVE Calm(s)
  <2>1. CASE Event(q)
    BY <1>1, <2>1 DEF Event, Goto, Become, Calm
  <2>2. CASE EventLocks(q) \/ PollWakes(q)
    BY <1>1, <2>2 DEF EventLocks, PollWakes, EnterLock, TakeLock, Goto, Become, Calm
  <2>3. CASE PollCompares(q)
    BY <1>1, <1>2, <2>3 DEF PollCompares, FreeLock, Goto, Become, Calm
  <2>4. ASSUME NEW t \in Task, ReadScope(q, t) \/ ReadContent(q, t) PROVE Calm(s)
    BY <1>1, <1>2, <2>4 DEF ReadScope, ReadContent, Become, Calm
  <2>5. ASSUME NEW t \in Task, Send(q, t) PROVE Calm(s)
    BY <1>1, <1>2, <2>5 DEF Send, AfterFailedSend, FreeLock, Become, Calm
  <2> QED BY <1>4, <2>1, <2>2, <2>3, <2>4, <2>5 DEF Step
<1>5. ASSUME NEW q \in Socket, LeaseExpires(q) \/ LeaseRenewed(q) \/ LeaseLost(q) PROVE Calm(s)
  BY <1>1, <1>5 DEF LeaseExpires, LeaseRenewed, LeaseLost, LeaseMoves, Calm
<1>6. ASSUME NEW q \in Socket, RefreshDue(q) PROVE Calm(s)
  <2>1. socket' = [socket EXCEPT ![q] = [socket[q] EXCEPT !.due = TRUE]]
    BY <1>1, <1>6 DEF RefreshDue
  <2> QED BY <1>1, <1>6, <2>1 DEF RefreshDue, Calm
<1>7. ASSUME NEW q \in Socket, Ping(q) \/ Close(q) PROVE Shutdown(q)
  BY <1>7 DEF Ping, Close
<1>8. CASE ChangeBoard \/ ChangeScope \/ ChangeOtherBoard \/ Drift \/ UNCHANGED vars
  BY <1>8 DEF ChangeBoard, ChangeScope, ChangeOtherBoard, Change, Drift, vars, Calm
<1> QED BY <1>2, <1>3, <1>4, <1>5, <1>6, <1>7, <1>8 DEF Next

(* What a socket's own steps make of its tasks and its lock.                    *)
LEMMA LockSteps ==
  ASSUME IInv, NEW s \in Socket
  PROVE  /\ EventLocks(s) => /\ lock'[s] = "dispatcher" /\ socket' = socket
                             /\ task'[s]["dispatcher"].pc = "scope" /\ task'[s]["poll"] = task[s]["poll"]
         /\ PollWakes(s) => /\ lock'[s] = "poll" /\ socket' = socket /\ Admitted(s) /\ socket[s].grouped
                            /\ task'[s]["poll"].pc = "version"
                            /\ task'[s]["dispatcher"] = task[s]["dispatcher"]
         /\ Event(s) => /\ lock' = lock /\ task'[s]["poll"] = task[s]["poll"]
                        /\ task'[s]["dispatcher"].pc \in {"idle", "wait"}
                        /\ socket'[s].phase = socket[s].phase /\ socket'[s].shown = socket[s].shown
                        /\ socket'[s].grouped = socket[s].grouped /\ socket'[s].due = socket[s].due
<1>1. /\ socket \in [Socket -> SocketRecord] /\ task \in [Socket -> [Task -> TaskRecord]]
      /\ lock \in [Socket -> Task \cup {"free"}] /\ "poll" \in Task /\ "dispatcher" \in Task
  BY DEF IInv, TypeOK, SocketRecord, TaskRecord, Task
<1>2. ASSUME NEW t \in Task, NEW pc, Goto(s, t, pc)
      PROVE  task'[s][t].pc = pc /\ \A u \in Task \ {t} : task'[s][u] = task[s][u]
  BY <1>1, <1>2 DEF Goto, Become, TaskRecord
<1>3. ASSUME NEW t \in Task, TakeLock(s, t) PROVE lock'[s] = t
  BY <1>1, <1>3 DEF TakeLock
<1>4. ASSUME EventLocks(s)
      PROVE  /\ lock'[s] = "dispatcher" /\ socket' = socket
             /\ task'[s]["dispatcher"].pc = "scope" /\ task'[s]["poll"] = task[s]["poll"]
  BY <1>1, <1>2, <1>3, <1>4 DEF EventLocks, EnterLock, Task
<1>5. ASSUME PollWakes(s)
      PROVE  /\ lock'[s] = "poll" /\ socket' = socket /\ Admitted(s) /\ socket[s].grouped
             /\ task'[s]["poll"].pc = "version"
             /\ task'[s]["dispatcher"] = task[s]["dispatcher"]
  BY <1>1, <1>2, <1>3, <1>5 DEF PollWakes, Polls, EnterLock, Task
<1>6. ASSUME Event(s)
      PROVE  /\ lock' = lock /\ task'[s]["poll"] = task[s]["poll"]
             /\ task'[s]["dispatcher"].pc \in {"idle", "wait"}
             /\ socket'[s].phase = socket[s].phase /\ socket'[s].shown = socket[s].shown
             /\ socket'[s].grouped = socket[s].grouped /\ socket'[s].due = socket[s].due
  <2>1. task[s]["dispatcher"].pc = "idle" /\ lock' = lock
    BY <1>6 DEF Event, Doing
  <2>2. PICK v \in inbox[s] :
          \/ UNCHANGED <<socket, task>>
          \/ socket' = [socket EXCEPT ![s].cursor = v] /\ Goto(s, "dispatcher", "wait")
    BY <1>6 DEF Event
  <2>3. CASE UNCHANGED <<socket, task>>
    BY <2>1, <2>3
  <2>4. CASE socket' = [socket EXCEPT ![s].cursor = v] /\ Goto(s, "dispatcher", "wait")
    <3>1. task'[s]["poll"] = task[s]["poll"] /\ task'[s]["dispatcher"].pc = "wait"
      BY <1>1, <1>2, <2>4 DEF Task
    <3>2. socket'[s] = [socket[s] EXCEPT !.cursor = v]
      BY <1>1, <2>4
    <3> QED BY <1>1, <2>1, <3>1, <3>2 DEF SocketRecord
  <2> QED BY <2>2, <2>3, <2>4
<1> QED BY <1>4, <1>5, <1>6

LEMMA HolderSteps ==
  ASSUME IInv, NEW s \in Socket, NEW t \in Task
  PROVE  /\ PollCompares(s) /\ ~Shutdown(s) =>
              /\ socket' = socket /\ task'[s]["dispatcher"] = task[s]["dispatcher"] /\ Authorized(s)
              /\ IF Behind(s) THEN lock' = lock /\ task'[s]["poll"].pc = "scope"
                              ELSE lock'[s] = "free" /\ task'[s]["poll"].pc = "idle"
         /\ ReadScope(s, t) /\ ~Shutdown(s) =>
              /\ socket' = socket /\ lock' = lock /\ standing[s] = "live"
              /\ task'[s][t].pc = "content" /\ task'[s][t].value.geometry = board.scope
              /\ \A u \in Task \ {t} : task'[s][u] = task[s][u]
         /\ ReadContent(s, t) /\ ~Shutdown(s) =>
              /\ socket' = socket /\ lock' = lock /\ standing[s] = "live"
              /\ IF SameScope(s, t) THEN task'[s][t].pc = "send" /\ task'[s][t].value = Visible(board.scope)
                                    ELSE task'[s][t].pc = "scope"
              /\ \A u \in Task \ {t} : task'[s][u] = task[s][u]
         /\ Send(s, t) /\ ~Shutdown(s) =>
              /\ lock'[s] = "free" /\ task'[s][t] = Idle /\ socket'[s].phase = socket[s].phase
              /\ socket'[s].grouped
              /\ NoLater(task[s][t].value, socket'[s].shown)
              /\ \A u \in Task \ {t} : task'[s][u] = task[s][u]
<1>1. /\ socket \in [Socket -> SocketRecord] /\ task \in [Socket -> [Task -> TaskRecord]]
      /\ lock \in [Socket -> Task \cup {"free"}] /\ "poll" \in Task /\ "dispatcher" \in Task
  BY DEF IInv, TypeOK, SocketRecord, TaskRecord, Task
<1>2. ASSUME NEW u \in Task, NEW new, Become(s, u, new)
      PROVE  task'[s][u] = new /\ \A w \in Task \ {u} : task'[s][w] = task[s][w]
  BY <1>1, <1>2 DEF Become
<1>3. ASSUME PollCompares(s), ~Shutdown(s)
      PROVE  /\ socket' = socket /\ task'[s]["dispatcher"] = task[s]["dispatcher"] /\ Authorized(s)
             /\ IF Behind(s) THEN lock' = lock /\ task'[s]["poll"].pc = "scope"
                             ELSE lock'[s] = "free" /\ task'[s]["poll"].pc = "idle"
  <2>1. task[s]["poll"].pc = "version" /\ lock[s] = "poll"
    BY <1>1, <1>3 DEF PollCompares, Doing, IInv, Local, Exclusive
  <2>2. CASE Behind(s)
    <3>1. Become(s, "poll", [task[s]["poll"] EXCEPT !.pc = "scope"]) /\ lock' = lock /\ socket' = socket
          /\ Authorized(s)
      BY <1>3, <2>2 DEF PollCompares, Goto
    <3>2. [task[s]["poll"] EXCEPT !.pc = "scope"].pc = "scope"
      BY <1>1 DEF TaskRecord
    <3> QED BY <1>1, <1>2, <2>2, <3>1, <3>2 DEF Task
  <2>3. CASE ~Behind(s)
    <3>1. Become(s, "poll", Idle) /\ FreeLock(s, "poll") /\ socket' = socket /\ Authorized(s)
      BY <1>3, <2>3 DEF PollCompares
    <3>2. lock'[s] = "free"
      BY <1>1, <2>1, <3>1 DEF FreeLock
    <3> QED BY <1>1, <1>2, <2>3, <3>1, <3>2, IdleType DEF Task
  <2> QED BY <2>2, <2>3
<1>4. ASSUME ReadScope(s, t), ~Shutdown(s)
      PROVE  /\ socket' = socket /\ lock' = lock /\ standing[s] = "live"
             /\ task'[s][t].pc = "content" /\ task'[s][t].value.geometry = board.scope
             /\ \A u \in Task \ {t} : task'[s][u] = task[s][u]
  <2> DEFINE value == [Blank EXCEPT !.geometry = board.scope]
             new == [task[s][t] EXCEPT !.pc = "content", !.value = value]
  <2>1. Become(s, t, new) /\ socket' = socket /\ lock' = lock /\ standing[s] = "live"
    BY <1>4 DEF ReadScope
  <2>2. value.geometry = board.scope
    BY DEF Blank
  <2> HIDE DEF value
  <2>3. new.pc = "content" /\ new.value = value
    BY <1>1 DEF TaskRecord
  <2> HIDE DEF new
  <2> QED BY <1>2, <2>1, <2>2, <2>3
<1>5. ASSUME ReadContent(s, t), ~Shutdown(s)
      PROVE  /\ socket' = socket /\ lock' = lock /\ standing[s] = "live"
             /\ IF SameScope(s, t) THEN task'[s][t].pc = "send" /\ task'[s][t].value = Visible(board.scope)
                                   ELSE task'[s][t].pc = "scope"
             /\ \A u \in Task \ {t} : task'[s][u] = task[s][u]
  <2>1. socket' = socket /\ lock' = lock /\ standing[s] = "live"
    BY <1>5 DEF ReadContent, StillAuthorized
  <2>2. CASE SameScope(s, t)
    <3> DEFINE new == [task[s][t] EXCEPT !.pc = "send", !.value = Visible(task[s][t].value.geometry)]
    <3>1. Become(s, t, new)
      BY <1>5, <2>2 DEF ReadContent
    <3>2. new.pc = "send" /\ new.value = Visible(board.scope)
      BY <1>1, <2>2 DEF TaskRecord, SameScope
    <3> HIDE DEF new
    <3> QED BY <1>2, <2>1, <2>2, <3>1, <3>2
  <2>3. CASE ~SameScope(s, t)
    <3> DEFINE new == [task[s][t] EXCEPT !.pc = "scope", !.try = @ + 1]
    <3>1. Become(s, t, new)
      BY <1>5, <2>3 DEF ReadContent
    <3>2. new.pc = "scope"
      BY <1>1 DEF TaskRecord
    <3> HIDE DEF new
    <3> QED BY <1>2, <2>1, <2>3, <3>1, <3>2
  <2> QED BY <2>2, <2>3
<1>6. ASSUME Send(s, t), ~Shutdown(s)
      PROVE  /\ lock'[s] = "free" /\ task'[s][t] = Idle /\ socket'[s].phase = socket[s].phase
             /\ socket'[s].grouped
             /\ NoLater(task[s][t].value, socket'[s].shown)
             /\ \A u \in Task \ {t} : task'[s][u] = task[s][u]
  <2>1. Become(s, t, Idle) /\ FreeLock(s, t) /\ task[s][t].pc = "send"
    BY <1>6 DEF Send, AfterFailedSend, Doing
  <2>2. lock[s] = t
    BY <2>1 DEF IInv, Local, Exclusive
  <2>3. lock'[s] = "free"
    BY <1>1, <2>1, <2>2 DEF FreeLock
  <2>4. NoLater(task[s][t].value, socket'[s].shown)
    <3>1. task[s][t].value \in Value
      BY <1>1 DEF TaskRecord
    <3>2. NoLater(task[s][t].value, task[s][t].value)
      BY <3>1 DEF NoLater, Value, Version
    <3> QED BY <1>6, <3>2, SendShows
  <2> QED BY <1>2, <1>6, <2>1, <2>3, <2>4, SendShows
<1> QED BY <1>3, <1>4, <1>5, <1>6

LEMMA MannedKeeps == ASSUME NEW s \in Socket, PInv(s), [Next]_vars PROVE PInv(s)'
<1>1. /\ socket \in [Socket -> SocketRecord] /\ task \in [Socket -> [Task -> TaskRecord]]
      /\ lock \in [Socket -> Task \cup {"free"}] /\ Task = {"dispatcher", "poll"}
      /\ standing \in [Socket -> {"none", "live", "expired", "lost"}]
  BY DEF PInv, IInv, TypeOK, SocketRecord, TaskRecord, Task
<1>2. IInv /\ Exclusive(s) /\ Manned(s)
  BY DEF PInv, IInv, Local
<1>3. IInv'
  BY <1>2, StepInv
<1>4. ASSUME Calm(s) PROVE Manned(s)'
  <2>1. socket'[s].phase = socket[s].phase /\ socket'[s].grouped = socket[s].grouped
    BY <1>1, <1>4 DEF Calm, SocketRecord
  <2>2. task'[s] = task[s] /\ lock'[s] = lock[s] /\ (standing[s] = "none" => standing'[s] = "none")
    BY <1>4 DEF Calm
  <2> QED BY <1>2, <2>1, <2>2 DEF Manned, Admitted
<1>5. ASSUME Shutdown(s) PROVE Manned(s)'
  <2>1. socket'[s].phase = "closed" /\ lock'[s] = "free" /\ task'[s] = [t \in Task |-> Idle]
    BY <1>1, <1>5 DEF Shutdown, SocketRecord
  <2> QED BY <1>1, <2>1, IdleType DEF Manned, Admitted
<1>6. ASSUME Authenticate(s) PROVE Manned(s)'
  <2>1. socket'[s].phase = "admitted" /\ lock'[s] = "dispatcher"
    BY <1>1, <1>6 DEF Authenticate, TakeLock, SocketRecord
  <2>2. task'[s]["dispatcher"].pc = "scope" /\ task'[s]["poll"] = task[s]["poll"]
    BY <1>1, <1>6 DEF Authenticate, Goto, Become, TaskRecord
  <2> QED BY <1>2, <2>1, <2>2 DEF Manned, Admitted
<1>7. ASSUME Step(s), ~Shutdown(s) PROVE Manned(s)'
  <2>1. UNCHANGED standing
    <3>1. Event(s) \/ EventLocks(s) \/ PollWakes(s) \/ PollCompares(s) => UNCHANGED standing
      BY DEF Event, EventLocks, PollWakes, PollCompares, Shutdown
    <3>2. \A t \in Task : ReadScope(s, t) \/ ReadContent(s, t) \/ Send(s, t) => UNCHANGED standing
      BY DEF ReadScope, ReadContent, Send, AfterFailedSend, Shutdown
    <3> QED BY <1>7, <3>1, <3>2 DEF Step
  <2>2. CASE Event(s)
    <3>1. lock' = lock /\ task'[s]["poll"] = task[s]["poll"] /\ task'[s]["dispatcher"].pc \in {"idle", "wait"}
          /\ socket'[s].phase = socket[s].phase /\ socket'[s].grouped = socket[s].grouped
      BY <1>2, <2>2, LockSteps
    <3>2. task[s]["dispatcher"].pc = "idle" /\ Admitted(s)
      BY <2>2 DEF Event, Doing
    <3> QED BY <1>1, <1>2, <2>1, <3>1, <3>2 DEF Manned, Admitted
  <2>3. CASE EventLocks(s)
    <3>1. lock'[s] = "dispatcher" /\ socket' = socket
          /\ task'[s]["dispatcher"].pc = "scope" /\ task'[s]["poll"] = task[s]["poll"]
      BY <1>2, <2>3, LockSteps
    <3>2. task[s]["dispatcher"].pc = "wait"
      BY <2>3 DEF EventLocks, Doing
    <3>3. Admitted(s)
      BY <1>1, <1>2, <3>2 DEF Manned
    <3> QED BY <1>2, <2>1, <3>1, <3>3 DEF Manned, Admitted
  <2>4. CASE PollWakes(s)
    <3>1. lock'[s] = "poll" /\ socket' = socket /\ Admitted(s) /\ socket[s].grouped
          /\ task'[s]["poll"].pc = "version" /\ task'[s]["dispatcher"] = task[s]["dispatcher"]
      BY <1>2, <2>4, LockSteps
    <3> QED BY <1>2, <2>1, <3>1 DEF Manned, Admitted
  <2>5. CASE PollCompares(s)
    <3>1. lock[s] = "poll" /\ task[s]["poll"].pc = "version"
      BY <1>1, <1>2, <2>5 DEF PollCompares, Doing, Exclusive
    <3>2. socket' = socket /\ task'[s]["dispatcher"] = task[s]["dispatcher"]
          /\ \/ lock' = lock /\ task'[s]["poll"].pc = "scope"
             \/ lock'[s] = "free" /\ task'[s]["poll"].pc = "idle"
      BY <1>1, <1>2, <1>7, <2>5, HolderSteps
    <3> QED BY <1>1, <1>2, <2>1, <3>1, <3>2 DEF Manned, Admitted
  <2>6. ASSUME NEW t \in Task, ReadScope(s, t) \/ ReadContent(s, t) PROVE Manned(s)'
    <3>1. lock[s] = t
      BY <1>2, <2>6 DEF ReadScope, ReadContent, Doing, Exclusive
    <3>2. /\ socket' = socket /\ lock' = lock /\ task'[s][t].pc \in {"scope", "content", "send"}
          /\ \A u \in Task \ {t} : task'[s][u] = task[s][u]
      BY <1>2, <1>7, <2>6, HolderSteps
    <3> QED BY <1>1, <1>2, <2>1, <3>1, <3>2 DEF Manned, Admitted
  <2>7. ASSUME NEW t \in Task, Send(s, t) PROVE Manned(s)'
    <3>1. /\ lock'[s] = "free" /\ task'[s][t].pc = "idle" /\ socket'[s].phase = socket[s].phase
          /\ socket'[s].grouped /\ \A u \in Task \ {t} : task'[s][u] = task[s][u]
      BY <1>2, <1>7, <2>7, HolderSteps, IdleType
    <3> QED BY <1>1, <1>2, <2>1, <3>1 DEF Manned, Admitted
  <2> QED BY <1>7, <2>2, <2>3, <2>4, <2>5, <2>6, <2>7 DEF Step
<1> QED BY <1>2, <1>3, <1>4, <1>5, <1>6, <1>7, Moves DEF PInv

-----------------------------------------------------------------------------
(* Where an admitted socket can be.                                             *)
At(s, t, pc) == Admitted(s) /\ task[s][t].pc = pc
Free(s) == Admitted(s) /\ lock[s] = "free"

LEMMA Stages ==
  ASSUME NEW s \in Socket, PInv(s), Admitted(s)
  PROVE  \/ Free(s) \/ At(s, "poll", "version")
         \/ \E t \in Task : At(s, t, "scope") \/ At(s, t, "content") \/ At(s, t, "send")
<1>1. lock[s] \in Task \cup {"free"}
  BY Rows DEF PInv, IInv
<1> QED BY <1>1 DEF PInv, Manned, Free, At, Task

LEMMA FreeWakes == ASSUME NEW s \in Socket, PInv(s), Free(s) PROVE CanWake(s)
<1>1. task[s]["poll"].pc \in {"idle", "wait", "version", "scope", "content", "send"}
  BY Rows DEF PInv, IInv, TaskRecord, Task
<1>2. task[s]["poll"].pc = "idle"
  BY <1>1 DEF PInv, IInv, Local, Exclusive, Manned, Free, Task
<1> QED BY <1>2 DEF PInv, Manned, Free, CanWake, Admitted, Doing, Open

(* The task that holds the lock stays where it is until it takes its own step.  *)
LEMMA Holder ==
  ASSUME NEW s \in Socket, NEW t \in Task, NEW pc \in {"version", "scope", "content", "send"},
         PInv(s), [Next]_vars, At(s, t, pc)
  PROVE  \/ ~Open(s)'
         \/ At(s, t, pc)' /\ task'[s][t] = task[s][t] /\ (socket[s].due => socket'[s].due)
         \/ /\ ~Shutdown(s)
            /\ \/ pc = "version" /\ t = "poll" /\ PollCompares(s)
               \/ pc = "scope" /\ ReadScope(s, t)
               \/ pc = "content" /\ ReadContent(s, t)
               \/ pc = "send" /\ Send(s, t)
<1>1. /\ socket[s] \in SocketRecord /\ Task = {"dispatcher", "poll"} /\ lock[s] = t
      /\ \A u \in Task \ {t} : task[s][u].pc \notin {"version", "scope", "content", "send"}
      /\ socket \in [Socket -> SocketRecord] /\ IInv /\ task[s]["dispatcher"].pc # "version"
  BY Rows DEF PInv, IInv, Local, Exclusive, Manned, At, Task, TypeOK, SocketRecord
<1>2. CASE Shutdown(s)
  BY <1>1, <1>2 DEF Shutdown, Open, SocketRecord
<1>3. CASE Calm(s)
  <2>1. socket'[s].phase = socket[s].phase /\ (socket[s].due => socket'[s].due)
    BY <1>1, <1>3 DEF Calm, SocketRecord
  <2> QED BY <1>3, <2>1 DEF Calm, At, Admitted
<1>4. ASSUME Authenticate(s) PROVE FALSE
  BY <1>4 DEF Authenticate, At, Admitted
<1>5. ASSUME EventLocks(s) \/ PollWakes(s) PROVE FALSE
  BY <1>1, <1>5 DEF EventLocks, PollWakes, EnterLock, TakeLock
<1>6. CASE Event(s)
  <2>1. t = "poll"
    BY <1>1, <1>6 DEF Event, Doing, At
  <2>2. task'[s]["poll"] = task[s]["poll"] /\ socket'[s].phase = socket[s].phase /\ socket'[s].due = socket[s].due
    BY <1>1, <1>6, LockSteps
  <2> QED BY <2>1, <2>2 DEF At, Admitted
<1>7. CASE PollCompares(s)
  BY <1>1, <1>2, <1>7 DEF PollCompares, Doing, At
<1>8. ASSUME NEW u \in Task, ReadScope(s, u) \/ ReadContent(s, u) \/ Send(s, u)
      PROVE  \/ pc = "scope" /\ ReadScope(s, t)
             \/ pc = "content" /\ ReadContent(s, t)
             \/ pc = "send" /\ Send(s, t)
  <2>1. u = t
    BY <1>1, <1>8 DEF ReadScope, ReadContent, Send, Doing
  <2> QED BY <1>8, <2>1 DEF ReadScope, ReadContent, Send, Doing, At
<1> QED BY <1>1, <1>2, <1>3, <1>4, <1>5, <1>6, <1>7, <1>8, Moves DEF Step

LEMMA Waits ==
  ASSUME NEW s \in Socket, PInv(s), [Next]_vars, Free(s)
  PROVE  \/ ~Open(s)'
         \/ Free(s)' /\ (socket[s].due => socket'[s].due)
         \/ At(s, "poll", "version")' /\ (socket[s].due => socket'[s].due)
         \/ At(s, "dispatcher", "scope")'
<1>1. /\ socket[s] \in SocketRecord /\ Task = {"dispatcher", "poll"}
      /\ \A u \in Task : task[s][u].pc \notin {"version", "scope", "content", "send"}
      /\ socket \in [Socket -> SocketRecord] /\ IInv
  BY Rows DEF PInv, IInv, Local, Exclusive, Free, Task, TypeOK, SocketRecord
<1>2. CASE Shutdown(s)
  BY <1>1, <1>2 DEF Shutdown, Open, SocketRecord
<1>3. CASE Calm(s)
  <2>1. socket'[s].phase = socket[s].phase /\ (socket[s].due => socket'[s].due)
    BY <1>1, <1>3 DEF Calm, SocketRecord
  <2> QED BY <1>3, <2>1 DEF Calm, Free, Admitted
<1>4. ASSUME Authenticate(s) PROVE FALSE
  BY <1>4 DEF Authenticate, Free, Admitted
<1>5. CASE EventLocks(s)
  BY <1>1, <1>5, LockSteps DEF At, Free, Admitted
<1>6. CASE PollWakes(s)
  BY <1>1, <1>6, LockSteps DEF At, Free, Admitted
<1>7. CASE Event(s)
  BY <1>1, <1>7, LockSteps DEF Free, Admitted
<1>8. ASSUME PollCompares(s) \/ \E u \in Task : ReadScope(s, u) \/ ReadContent(s, u) \/ Send(s, u)
      PROVE  FALSE
  BY <1>1, <1>8 DEF PollCompares, ReadScope, ReadContent, Send, Doing
<1> QED BY <1>1, <1>2, <1>3, <1>4, <1>5, <1>6, <1>7, <1>8, Moves DEF Step

LEMMA SendFrees ==
  ASSUME NEW s \in Socket, NEW t \in Task, PInv(s), At(s, t, "send"), Send(s, t), ~Shutdown(s)
  PROVE  Free(s)' /\ NoLater(task[s][t].value, socket'[s].shown)
<1> QED BY HolderSteps DEF PInv, Free, At, Admitted

(* A connection that is lost stays lost; every reader that notices shuts down.  *)
LEMMA LostSteps ==
  ASSUME NEW s \in Socket, NEW t \in Task, PInv(s), [Next]_vars, standing[s] = "lost"
  PROVE  /\ standing'[s] = "lost"
         /\ At(s, t, "scope") => At(s, t, "scope")' \/ ~Open(s)'
         /\ At(s, t, "content") => At(s, t, "content")' \/ ~Open(s)'
         /\ At(s, t, "send") => At(s, t, "send")' \/ Free(s)' \/ ~Open(s)'
         /\ At(s, "poll", "version") => At(s, "poll", "version")' \/ ~Open(s)'
         /\ Free(s) => Free(s)' \/ At(s, "poll", "version")' \/ At(s, "dispatcher", "scope")' \/ ~Open(s)'
<1>1. standing'[s] = "lost"
  BY StandingType DEF PInv, Place!Move
<1>2. IInv /\ "poll" \in Task
  BY DEF PInv, Task
<1>3. ~Shutdown(s) => ~ReadScope(s, t) /\ ~ReadContent(s, t) /\ ~PollCompares(s)
  BY <1>2, HolderSteps DEF Authorized
<1> QED BY <1>1, <1>2, <1>3, Holder, Waits, SendFrees

LEMMA LostActs ==
  ASSUME NEW s \in Socket, NEW t \in Task, PInv(s), standing[s] = "lost"
  PROVE  /\ ReadScope(s, t) \/ ReadContent(s, t) \/ PollCompares(s) => ~Open(s)'
         /\ At(s, t, "send") /\ Send(s, t) => Free(s)' \/ ~Open(s)'
         /\ Free(s) /\ PollWakes(s) => At(s, "poll", "version")'
<1>1. IInv /\ socket \in [Socket -> SocketRecord]
  BY DEF PInv, IInv, TypeOK, SocketRecord
<1>2. Shutdown(s) => ~Open(s)'
  BY <1>1 DEF Shutdown, Open, SocketRecord
<1>3. ~Shutdown(s) => ~ReadScope(s, t) /\ ~ReadContent(s, t) /\ ~PollCompares(s)
  BY <1>1, HolderSteps DEF Authorized
<1>4. Free(s) /\ PollWakes(s) => At(s, "poll", "version")'
  BY <1>1, LockSteps DEF At, Free, Admitted
<1> QED BY <1>2, <1>3, <1>4, SendFrees

LEMMA Progressive == ASSUME NEW s \in Socket PROVE GuardedSpec => []PInv(s)
<1>1. Init => PInv(s)
  <2> SUFFICES ASSUME Init PROVE Manned(s)
    BY InitInv DEF PInv
  <2> QED BY IdleType DEF Init, Manned, Admitted, Task
<1>2. PInv(s) /\ [Next]_vars => PInv(s)'
  BY MannedKeeps
<1> QED BY <1>1, <1>2, PTL DEF GuardedSpec

LEMMA Scheduled ==
  ASSUME NEW s \in Socket, NEW t \in Task
  PROVE  GuardedSpec =>
           /\ <>[]Doing(s, t, "scope") => []<><<ReadScope(s, t)>>_vars
           /\ <>[]Doing(s, t, "content") => []<><<ReadContent(s, t)>>_vars
           /\ <>[]Doing(s, t, "send") => []<><<Send(s, t)>>_vars
           /\ <>[]Doing(s, "poll", "version") => []<><<PollCompares(s)>>_vars
           /\ []<>CanWake(s) => []<><<PollWakes(s)>>_vars
           /\ <>[]CanRefresh(s) => []<><<RefreshDue(s)>>_vars
<1> QED BY DEF GuardedSpec, FairTo

LEMMA AtDoes ==
  ASSUME NEW s \in Socket, NEW t \in Task, NEW pc
  PROVE  At(s, t, pc) => Doing(s, t, pc)
<1> QED BY DEF At, Admitted, Doing, Open

Lost(s) == standing[s] = "lost"

LEMMA LostHolderCloses ==
  ASSUME NEW s \in Socket, NEW t \in Task
  PROVE  GuardedSpec =>
           /\ [](Lost(s) /\ At(s, t, "scope") => <>~Open(s))
           /\ [](Lost(s) /\ At(s, t, "content") => <>~Open(s))
           /\ [](Lost(s) /\ At(s, "poll", "version") => <>~Open(s))
           /\ [](Lost(s) /\ At(s, t, "send") => <>(~Open(s) \/ (Lost(s) /\ Free(s))))
<1>1. PInv(s) /\ [Next]_vars /\ Lost(s) =>
        /\ Lost(s)'
        /\ At(s, t, "scope") => At(s, t, "scope")' \/ ~Open(s)'
        /\ At(s, t, "content") => At(s, t, "content")' \/ ~Open(s)'
        /\ At(s, t, "send") => At(s, t, "send")' \/ Free(s)' \/ ~Open(s)'
        /\ At(s, "poll", "version") => At(s, "poll", "version")' \/ ~Open(s)'
  BY LostSteps DEF Lost
<1>2. PInv(s) /\ Lost(s) =>
        /\ <<ReadScope(s, t)>>_vars => ~Open(s)'
        /\ <<ReadContent(s, t)>>_vars => ~Open(s)'
        /\ <<PollCompares(s)>>_vars => ~Open(s)'
        /\ At(s, t, "send") /\ <<Send(s, t)>>_vars => Free(s)' \/ ~Open(s)'
  BY LostActs DEF Lost
<1>3. /\ At(s, t, "scope") => Doing(s, t, "scope")
      /\ At(s, t, "content") => Doing(s, t, "content")
      /\ At(s, t, "send") => Doing(s, t, "send")
      /\ At(s, "poll", "version") => Doing(s, "poll", "version")
  BY AtDoes DEF Task
<1>4. GuardedSpec => []PInv(s) /\ [][Next]_vars
  BY Progressive, PTL DEF GuardedSpec
<1>5. GuardedSpec => [](Lost(s) /\ At(s, t, "scope") => <>~Open(s))
  BY <1>1, <1>2, <1>3, <1>4, Scheduled, PTL
<1>6. GuardedSpec => [](Lost(s) /\ At(s, t, "content") => <>~Open(s))
  BY <1>1, <1>2, <1>3, <1>4, Scheduled, PTL
<1>7. GuardedSpec => [](Lost(s) /\ At(s, "poll", "version") => <>~Open(s))
  BY <1>1, <1>2, <1>3, <1>4, Scheduled, PTL
<1>8. GuardedSpec => [](Lost(s) /\ At(s, t, "send") => <>(~Open(s) \/ (Lost(s) /\ Free(s))))
  BY <1>1, <1>2, <1>3, <1>4, Scheduled, PTL
<1> QED BY <1>5, <1>6, <1>7, <1>8

(* A socket whose connection was taken over or whose member was removed is      *)
(* closed: the poll that is always due to wake, or a publication under way,      *)
(* reads the database again (realtime.py 182-192, services.py 805-850).         *)
THEOREM LossClosesHolds == GuardedSpec => LossCloses
<1> SUFFICES ASSUME NEW s \in Socket PROVE GuardedSpec => (Lost(s) ~> ~Open(s))
  BY DEF LossCloses, Lost
<1>1. GuardedSpec => []PInv(s) /\ [][Next]_vars
  BY Progressive, PTL DEF GuardedSpec
<1>2. GuardedSpec =>
        /\ [](Lost(s) /\ At(s, "poll", "scope") => <>~Open(s))
        /\ [](Lost(s) /\ At(s, "poll", "content") => <>~Open(s))
        /\ [](Lost(s) /\ At(s, "poll", "version") => <>~Open(s))
        /\ [](Lost(s) /\ At(s, "poll", "send") => <>(~Open(s) \/ (Lost(s) /\ Free(s))))
  <2> PICK t \in Task : t = "poll"
    BY DEF Task
  <2>1. \A pc : At(s, "poll", pc) <=> At(s, t, pc)
    OBVIOUS
  <2>2. /\ At(s, "poll", "scope") <=> At(s, t, "scope")
        /\ At(s, "poll", "content") <=> At(s, t, "content")
        /\ At(s, "poll", "send") <=> At(s, t, "send")
    BY <2>1
  <2> QED BY <2>2, LostHolderCloses, PTL
<1>3. GuardedSpec =>
        /\ [](Lost(s) /\ At(s, "dispatcher", "scope") => <>~Open(s))
        /\ [](Lost(s) /\ At(s, "dispatcher", "content") => <>~Open(s))
        /\ [](Lost(s) /\ At(s, "dispatcher", "send") => <>(~Open(s) \/ (Lost(s) /\ Free(s))))
  <2> PICK t \in Task : t = "dispatcher"
    BY DEF Task
  <2>1. \A pc : At(s, "dispatcher", pc) <=> At(s, t, pc)
    OBVIOUS
  <2>2. /\ At(s, "dispatcher", "scope") <=> At(s, t, "scope")
        /\ At(s, "dispatcher", "content") <=> At(s, t, "content")
        /\ At(s, "dispatcher", "send") <=> At(s, t, "send")
    BY <2>1
  <2> QED BY <2>2, LostHolderCloses, PTL
<1>4. GuardedSpec => ([]<>CanWake(s) => []<><<PollWakes(s)>>_vars)
  BY Scheduled DEF Task
<1>5. PInv(s) /\ [Next]_vars /\ Lost(s) =>
        /\ Lost(s)'
        /\ Free(s) => Free(s)' \/ At(s, "poll", "version")' \/ At(s, "dispatcher", "scope")' \/ ~Open(s)'
  BY LostSteps DEF Lost, Task
<1>6. PInv(s) /\ Lost(s) /\ Free(s) => CanWake(s) /\ (<<PollWakes(s)>>_vars => At(s, "poll", "version")')
  BY FreeWakes, LostActs DEF Lost, Task
<1>7. PInv(s) /\ Lost(s) =>
        \/ ~Open(s) \/ Free(s) \/ At(s, "poll", "version")
        \/ At(s, "poll", "scope") \/ At(s, "poll", "content") \/ At(s, "poll", "send")
        \/ At(s, "dispatcher", "scope") \/ At(s, "dispatcher", "content") \/ At(s, "dispatcher", "send")
  <2> SUFFICES ASSUME PInv(s), Lost(s), Open(s) PROVE Admitted(s)
    BY Stages DEF Task
  <2>1. socket[s].phase \in {"accepted", "admitted", "closed"}
    BY Rows DEF PInv, IInv, SocketRecord
  <2> QED BY <2>1 DEF PInv, Manned, Lost, Open, Admitted
<1>8. GuardedSpec => (Lost(s) /\ Free(s) ~> ~Open(s) \/ (Lost(s) /\ At(s, "poll", "version"))
                                             \/ (Lost(s) /\ At(s, "dispatcher", "scope")))
  BY <1>1, <1>4, <1>5, <1>6, PTL
<1> QED BY <1>1, <1>2, <1>3, <1>7, <1>8, PTL

(* The two tasks and io_lock never wait for one another (the part of NeverStuck *)
(* that needs no ENABLED): an admitted socket always has a publication to go on *)
(* with or a poll to start (realtime.py 137-204).                               *)
THEOREM AlwaysMovesHolds ==
  Spec => [](\A s \in Socket : Admitted(s) => CanPublish(s) \/ CanWake(s))
<1>1. ASSUME NEW s \in Socket, PInv(s), Admitted(s) PROVE CanPublish(s) \/ CanWake(s)
  <2>1. CASE Free(s)
    BY <1>1, <2>1, FreeWakes
  <2>2. CASE At(s, "poll", "version")
    BY <2>2, AtDoes DEF CanPublish, Task
  <2>3. ASSUME NEW t \in Task, At(s, t, "scope") \/ At(s, t, "content") \/ At(s, t, "send") PROVE CanPublish(s)
    BY <2>3, AtDoes DEF CanPublish
  <2> QED BY <1>1, <2>1, <2>2, <2>3, Stages
<1>2. Init => \A s \in Socket : PInv(s)
  <2> SUFFICES ASSUME Init, NEW s \in Socket PROVE Manned(s)
    BY InitInv DEF PInv
  <2> QED BY IdleType DEF Init, Manned, Admitted, Task
<1>3. (\A s \in Socket : PInv(s)) /\ [Next]_vars => (\A s \in Socket : PInv(s))'
  BY MannedKeeps
<1>4. (\A s \in Socket : PInv(s)) => \A s \in Socket : Admitted(s) => CanPublish(s) \/ CanWake(s)
  BY <1>1
<1> QED BY <1>2, <1>3, <1>4, PTL DEF Spec

-----------------------------------------------------------------------------
(* While nobody changes the board, a publication brings the socket up to date.  *)
Drawn(s, t) == At(s, t, "content") /\ SameScope(s, t)
Read(s, t) ==
  /\ At(s, t, "send") /\ Shows(task[s][t].value) /\ task[s][t].value.drift = board.drift
Ripe(s) == At(s, "poll", "version") /\ socket[s].due
Ready(s) == Free(s) /\ socket[s].due
Done(s) == ~Open(s) \/ UpToDate(s)

LEMMA QuietActs ==
  ASSUME NEW s \in Socket, NEW t \in Task, PInv(s), UNCHANGED board, Open(s)'
  PROVE  /\ At(s, t, "scope") /\ ReadScope(s, t) => Drawn(s, t)'
         /\ Drawn(s, t) /\ ReadContent(s, t) => Read(s, t)'
         /\ At(s, t, "content") /\ ReadContent(s, t) => At(s, t, "scope")' \/ Read(s, t)'
         /\ At(s, t, "send") /\ Send(s, t) => Free(s)'
         /\ At(s, "poll", "version") /\ PollCompares(s) => At(s, "poll", "scope")' \/ Free(s)'
         /\ Ripe(s) /\ PollCompares(s) => At(s, "poll", "scope")'
<1>1. ~Shutdown(s) /\ IInv
  <2>1. socket[s] \in SocketRecord /\ socket \in [Socket -> SocketRecord]
    BY Rows DEF PInv, IInv, TypeOK, SocketRecord
  <2> QED BY <2>1 DEF PInv, Shutdown, Open, SocketRecord
<1>2. At(s, t, "scope") /\ ReadScope(s, t) => Drawn(s, t)'
  BY <1>1, HolderSteps DEF At, Admitted, Drawn, SameScope
<1>3. ASSUME At(s, t, "content"), ReadContent(s, t)
      PROVE  IF SameScope(s, t) THEN Read(s, t)' ELSE At(s, t, "scope")'
  <2>1. Admitted(s)'
    BY <1>1, <1>3, HolderSteps DEF At, Admitted
  <2>2. CASE SameScope(s, t)
    <3>1. task'[s][t].pc = "send" /\ task'[s][t].value = Visible(board.scope)
      BY <1>1, <1>3, <2>2, HolderSteps
    <3> QED BY <2>1, <2>2, <3>1 DEF Read, At, Visible, Shows
  <2>3. CASE ~SameScope(s, t)
    BY <1>1, <1>3, <2>1, <2>3, HolderSteps DEF At
  <2> QED BY <2>2, <2>3
<1>4. At(s, t, "send") /\ Send(s, t) => Free(s)'
  BY <1>1, SendFrees
<1>5. ASSUME At(s, "poll", "version"), PollCompares(s)
      PROVE  IF Behind(s) THEN At(s, "poll", "scope")' ELSE Free(s)'
  BY <1>1, <1>5, HolderSteps DEF At, Free, Admitted
<1> QED BY <1>2, <1>3, <1>4, <1>5 DEF Drawn, Ripe, Behind

(* What was read of an unchanged board and sent is what the board is.           *)
LEMMA SentIsCurrent ==
  ASSUME NEW s \in Socket, NEW t \in Task, PInv(s), [Next]_vars, UNCHANGED board, Open(s)',
         Read(s, t), Send(s, t)
  PROVE  UpToDate(s)'
<1>1. ~Shutdown(s) /\ IInv /\ IInv'
  <2>1. socket[s] \in SocketRecord /\ socket \in [Socket -> SocketRecord]
    BY Rows DEF PInv, IInv, TypeOK, SocketRecord
  <2> QED BY <2>1, StepInv DEF PInv, Shutdown, Open, SocketRecord
<1>2. NoLater(task[s][t].value, socket'[s].shown)
  BY <1>1, SendFrees DEF Read
<1>3. NoLater(socket'[s].shown, board) /\ socket'[s].shown \in Value
  <2>1. Past(s)' /\ (socket[s] \in SocketRecord)'
    BY <1>1, Rows DEF IInv, Local, TypeOK, SocketRecord
  <2> QED BY <2>1 DEF Past, NoLater, SocketRecord
<1>4. board.content \in Int /\ board.scope \in Int /\ board.drift \in Int
  BY <1>1, BoardType DEF IInv, Version
<1> QED BY <1>2, <1>3, <1>4 DEF Read, Shows, NoLater, UpToDate, Value, Version

LEMMA QuietSteps ==
  ASSUME NEW s \in Socket, NEW t \in Task, PInv(s), [Next]_vars, UNCHANGED board
  PROVE  /\ At(s, t, "scope") => At(s, t, "scope")' \/ Drawn(s, t)' \/ ~Open(s)'
         /\ Drawn(s, t) => Drawn(s, t)' \/ Read(s, t)' \/ ~Open(s)'
         /\ At(s, t, "content") => At(s, t, "content")' \/ At(s, t, "scope")' \/ Read(s, t)' \/ ~Open(s)'
         /\ Read(s, t) => Read(s, t)' \/ Done(s)'
         /\ At(s, t, "send") => At(s, t, "send")' \/ Free(s)' \/ ~Open(s)'
         /\ At(s, "poll", "version") => At(s, "poll", "version")' \/ At(s, "poll", "scope")' \/ Free(s)' \/ ~Open(s)'
         /\ Ripe(s) => Ripe(s)' \/ At(s, "poll", "scope")' \/ ~Open(s)'
         /\ Free(s) => Free(s)' \/ At(s, "poll", "version")' \/ At(s, "dispatcher", "scope")' \/ ~Open(s)'
         /\ Ready(s) => Ready(s)' \/ Ripe(s)' \/ At(s, "dispatcher", "scope")' \/ ~Open(s)'
<1> SUFFICES ASSUME Open(s)'
             PROVE  /\ At(s, t, "scope") => At(s, t, "scope")' \/ Drawn(s, t)'
                    /\ Drawn(s, t) => Drawn(s, t)' \/ Read(s, t)'
                    /\ At(s, t, "content") => At(s, t, "content")' \/ At(s, t, "scope")' \/ Read(s, t)'
                    /\ Read(s, t) => Read(s, t)' \/ UpToDate(s)'
                    /\ At(s, t, "send") => At(s, t, "send")' \/ Free(s)'
                    /\ At(s, "poll", "version") => At(s, "poll", "version")' \/ At(s, "poll", "scope")' \/ Free(s)'
                    /\ Ripe(s) => Ripe(s)' \/ At(s, "poll", "scope")'
                    /\ Free(s) => Free(s)' \/ At(s, "poll", "version")' \/ At(s, "dispatcher", "scope")'
                    /\ Ready(s) => Ready(s)' \/ Ripe(s)' \/ At(s, "dispatcher", "scope")'
  BY DEF Done
<1>1. At(s, t, "scope") => At(s, t, "scope")' \/ Drawn(s, t)'
  BY Holder, QuietActs
<1>2. Drawn(s, t) => Drawn(s, t)' \/ Read(s, t)'
  <2>1. At(s, t, "content") => (At(s, t, "content")' /\ task'[s][t] = task[s][t]) \/ ReadContent(s, t)
    BY Holder
  <2> QED BY <2>1, QuietActs DEF Drawn, SameScope
<1>3. At(s, t, "content") => At(s, t, "content")' \/ At(s, t, "scope")' \/ Read(s, t)'
  BY Holder, QuietActs
<1>4. Read(s, t) => Read(s, t)' \/ UpToDate(s)'
  <2>1. At(s, t, "send") => (At(s, t, "send")' /\ task'[s][t] = task[s][t]) \/ Send(s, t)
    BY Holder
  <2> QED BY <2>1, SentIsCurrent DEF Read, Shows
<1>5. At(s, t, "send") => At(s, t, "send")' \/ Free(s)'
  BY Holder, QuietActs
<1>6. "poll" \in Task
  BY DEF Task
<1>7. At(s, "poll", "version") =>
        (At(s, "poll", "version")' /\ (socket[s].due => socket'[s].due)) \/ PollCompares(s)
  BY <1>6, Holder
<1>8. At(s, "poll", "version") => At(s, "poll", "version")' \/ At(s, "poll", "scope")' \/ Free(s)'
  BY <1>6, <1>7, QuietActs
<1>9. Ripe(s) => Ripe(s)' \/ At(s, "poll", "scope")'
  BY <1>6, <1>7, QuietActs DEF Ripe
<1>10. /\ Free(s) => Free(s)' \/ At(s, "poll", "version")' \/ At(s, "dispatcher", "scope")'
       /\ Ready(s) => Ready(s)' \/ Ripe(s)' \/ At(s, "dispatcher", "scope")'
  BY Waits DEF Ready, Ripe
<1> QED BY <1>1, <1>2, <1>3, <1>4, <1>5, <1>8, <1>9, <1>10

LEMMA RestActs ==
  ASSUME NEW s \in Socket, PInv(s), Open(s)'
  PROVE  /\ Free(s) /\ RefreshDue(s) => Ready(s)'
         /\ At(s, "poll", "version") /\ RefreshDue(s) => Ripe(s)'
         /\ Ready(s) /\ PollWakes(s) => Ripe(s)'
<1>1. socket \in [Socket -> SocketRecord] /\ IInv
  BY DEF PInv, IInv, TypeOK, SocketRecord
<1>2. ASSUME RefreshDue(s) PROVE socket'[s].due /\ socket'[s].phase = socket[s].phase /\ lock' = lock /\ task' = task
  <2>1. socket'[s] = [socket[s] EXCEPT !.due = TRUE]
    BY <1>1, <1>2 DEF RefreshDue
  <2> QED BY <1>1, <1>2, <2>1 DEF RefreshDue, SocketRecord
<1> QED BY <1>1, <1>2, LockSteps DEF Ready, Ripe, Free, At, Admitted

LEMMA StaysAdmitted ==
  ASSUME NEW s \in Socket, PInv(s), [Next]_vars, Admitted(s)
  PROVE  Admitted(s)' \/ ~Open(s)'
<1>1. "poll" \in Task /\ IInv
  BY DEF Task, PInv
<1>2. CASE Free(s)
  BY <1>2, Waits DEF Free, At
<1>3. ASSUME NEW t \in Task, ~Shutdown(s), ReadScope(s, t) \/ ReadContent(s, t) \/ PollCompares(s) \/ Send(s, t)
      PROVE  Admitted(s)'
  BY <1>1, <1>3, HolderSteps DEF Admitted
<1>4. ASSUME NEW t \in Task, NEW pc \in {"version", "scope", "content", "send"}, At(s, t, pc)
      PROVE  Admitted(s)' \/ ~Open(s)'
  <2>1. At(s, t, pc)' => Admitted(s)'
    BY DEF At
  <2> QED BY <1>3, <1>4, <2>1, Holder
<1> QED BY <1>1, <1>2, <1>4, Stages

LEMMA QuietPublishes ==
  ASSUME NEW s \in Socket, NEW t \in Task
  PROVE  GuardedSpec => []([][UNCHANGED board]_vars =>
           /\ [](At(s, t, "scope") => <>Done(s))
           /\ [](At(s, t, "content") => <>Done(s))
           /\ [](At(s, t, "send") => <>(Done(s) \/ Free(s))))
<1>1. PInv(s) /\ [Next]_vars /\ [UNCHANGED board]_vars =>
        /\ At(s, t, "scope") => At(s, t, "scope")' \/ Drawn(s, t)' \/ ~Open(s)'
        /\ Drawn(s, t) => Drawn(s, t)' \/ Read(s, t)' \/ ~Open(s)'
        /\ At(s, t, "content") => At(s, t, "content")' \/ At(s, t, "scope")' \/ Read(s, t)' \/ ~Open(s)'
        /\ Read(s, t) => Read(s, t)' \/ Done(s)'
        /\ At(s, t, "send") => At(s, t, "send")' \/ Free(s)' \/ ~Open(s)'
  BY QuietSteps DEF vars
<1>2. PInv(s) /\ [Next]_vars /\ [UNCHANGED board]_vars =>
        /\ At(s, t, "scope") /\ <<ReadScope(s, t)>>_vars => Drawn(s, t)' \/ ~Open(s)'
        /\ Drawn(s, t) /\ <<ReadContent(s, t)>>_vars => Read(s, t)' \/ ~Open(s)'
        /\ At(s, t, "content") /\ <<ReadContent(s, t)>>_vars => At(s, t, "scope")' \/ Read(s, t)' \/ ~Open(s)'
        /\ Read(s, t) /\ <<Send(s, t)>>_vars => Done(s)'
        /\ At(s, t, "send") /\ <<Send(s, t)>>_vars => Free(s)' \/ ~Open(s)'
  BY QuietActs, SentIsCurrent DEF vars, Done
<1>3. /\ At(s, t, "scope") => Doing(s, t, "scope")
      /\ At(s, t, "content") => Doing(s, t, "content")
      /\ At(s, t, "send") => Doing(s, t, "send")
      /\ Drawn(s, t) => Doing(s, t, "content")
      /\ Read(s, t) => Doing(s, t, "send")
      /\ ~Open(s) => Done(s)
  BY AtDoes DEF Drawn, Read, Done
<1>4. GuardedSpec => []PInv(s) /\ [][Next]_vars
  BY Progressive, PTL DEF GuardedSpec
<1>5. GuardedSpec => []([][UNCHANGED board]_vars => [](Read(s, t) => <>Done(s)))
  BY <1>1, <1>2, <1>3, <1>4, Scheduled, PTL
<1>6. GuardedSpec => []([][UNCHANGED board]_vars => [](Drawn(s, t) => <>(Read(s, t) \/ Done(s))))
  BY <1>1, <1>2, <1>3, <1>4, Scheduled, PTL
<1>7. GuardedSpec => []([][UNCHANGED board]_vars => [](At(s, t, "scope") => <>(Drawn(s, t) \/ Done(s))))
  BY <1>1, <1>2, <1>3, <1>4, Scheduled, PTL
<1>8. GuardedSpec => []([][UNCHANGED board]_vars =>
        [](At(s, t, "content") => <>(At(s, t, "scope") \/ Read(s, t) \/ Done(s))))
  BY <1>1, <1>2, <1>3, <1>4, Scheduled, PTL
<1>9. GuardedSpec => []([][UNCHANGED board]_vars => [](At(s, t, "send") => <>(Done(s) \/ Free(s))))
  BY <1>1, <1>2, <1>3, <1>4, Scheduled, PTL
<1> QED BY <1>5, <1>6, <1>7, <1>8, <1>9, PTL

LEMMA QuietRests ==
  ASSUME NEW s \in Socket
  PROVE  GuardedSpec => []([][UNCHANGED board]_vars =>
           [](Free(s) \/ At(s, "poll", "version") =>
                <>(At(s, "poll", "scope") \/ At(s, "dispatcher", "scope") \/ Done(s))))
<1> PICK t \in Task : t = "poll"
  BY DEF Task
<1>1. PInv(s) /\ [Next]_vars /\ [UNCHANGED board]_vars =>
        /\ At(s, "poll", "version") => At(s, "poll", "version")' \/ At(s, "poll", "scope")' \/ Free(s)' \/ ~Open(s)'
        /\ Ripe(s) => Ripe(s)' \/ At(s, "poll", "scope")' \/ ~Open(s)'
        /\ Free(s) => Free(s)' \/ At(s, "poll", "version")' \/ At(s, "dispatcher", "scope")' \/ ~Open(s)'
        /\ Ready(s) => Ready(s)' \/ Ripe(s)' \/ At(s, "dispatcher", "scope")' \/ ~Open(s)'
  BY QuietSteps DEF vars
<1>2. PInv(s) /\ [Next]_vars /\ [UNCHANGED board]_vars =>
        /\ Ripe(s) /\ <<PollCompares(s)>>_vars => At(s, "poll", "scope")' \/ ~Open(s)'
        /\ Free(s) /\ <<RefreshDue(s)>>_vars => Ready(s)' \/ ~Open(s)'
        /\ At(s, "poll", "version") /\ <<RefreshDue(s)>>_vars => Ripe(s)' \/ ~Open(s)'
        /\ Ready(s) /\ <<PollWakes(s)>>_vars => Ripe(s)' \/ ~Open(s)'
  BY QuietActs, RestActs DEF vars
<1>3. PInv(s) =>
        /\ Ripe(s) => Doing(s, "poll", "version")
        /\ Ready(s) => CanWake(s)
        /\ Free(s) /\ ~Ready(s) => CanRefresh(s)
        /\ At(s, "poll", "version") /\ ~Ripe(s) => CanRefresh(s)
        /\ ~Open(s) => Done(s)
  BY FreeWakes, AtDoes DEF Ripe, Ready, Free, At, CanRefresh, Done, Task
<1>4. GuardedSpec => []PInv(s) /\ [][Next]_vars
  BY Progressive, PTL DEF GuardedSpec
<1>5. GuardedSpec => []([][UNCHANGED board]_vars => [](Ripe(s) => <>(At(s, "poll", "scope") \/ Done(s))))
  BY <1>1, <1>2, <1>3, <1>4, Scheduled, PTL
<1>6. GuardedSpec => []([][UNCHANGED board]_vars =>
        [](Ready(s) => <>(Ripe(s) \/ At(s, "dispatcher", "scope") \/ Done(s))))
  BY <1>1, <1>2, <1>3, <1>4, Scheduled, PTL
<1>7. GuardedSpec => []([][UNCHANGED board]_vars =>
        [](Free(s) \/ At(s, "poll", "version") =>
             <>(Ready(s) \/ Ripe(s) \/ At(s, "poll", "scope") \/ At(s, "dispatcher", "scope") \/ Done(s))))
  BY <1>1, <1>2, <1>3, <1>4, Scheduled, PTL
<1> QED BY <1>5, <1>6, <1>7, PTL

(* Once nobody changes the board any more, every admitted socket comes to show  *)
(* it, events or no events, or is closed (realtime.py 137-204).                 *)
THEOREM QuietBoardIsShown ==
  GuardedSpec => \A s \in Socket :
    [](Admitted(s) /\ [][UNCHANGED board]_vars => <>(~Open(s) \/ UpToDate(s)))
<1> SUFFICES ASSUME NEW s \in Socket
             PROVE  GuardedSpec => [](Admitted(s) /\ [][UNCHANGED board]_vars => <>Done(s))
  BY DEF Done
<1>1. GuardedSpec => []([][UNCHANGED board]_vars =>
        /\ [](At(s, "poll", "scope") => <>Done(s))
        /\ [](At(s, "poll", "content") => <>Done(s))
        /\ [](At(s, "poll", "send") => <>(Done(s) \/ Free(s))))
  <2> PICK t \in Task : t = "poll"
    BY DEF Task
  <2>1. \A pc : At(s, "poll", pc) <=> At(s, t, pc)
    OBVIOUS
  <2>2. /\ At(s, "poll", "scope") <=> At(s, t, "scope")
        /\ At(s, "poll", "content") <=> At(s, t, "content")
        /\ At(s, "poll", "send") <=> At(s, t, "send")
    BY <2>1
  <2> QED BY <2>2, QuietPublishes, PTL
<1>2. GuardedSpec => []([][UNCHANGED board]_vars =>
        /\ [](At(s, "dispatcher", "scope") => <>Done(s))
        /\ [](At(s, "dispatcher", "content") => <>Done(s))
        /\ [](At(s, "dispatcher", "send") => <>(Done(s) \/ Free(s))))
  <2> PICK t \in Task : t = "dispatcher"
    BY DEF Task
  <2>1. \A pc : At(s, "dispatcher", pc) <=> At(s, t, pc)
    OBVIOUS
  <2>2. /\ At(s, "dispatcher", "scope") <=> At(s, t, "scope")
        /\ At(s, "dispatcher", "content") <=> At(s, t, "content")
        /\ At(s, "dispatcher", "send") <=> At(s, t, "send")
    BY <2>1
  <2> QED BY <2>2, QuietPublishes, PTL
<1>3. PInv(s) /\ Admitted(s) =>
        \/ Free(s) \/ At(s, "poll", "version")
        \/ At(s, "poll", "scope") \/ At(s, "poll", "content") \/ At(s, "poll", "send")
        \/ At(s, "dispatcher", "scope") \/ At(s, "dispatcher", "content") \/ At(s, "dispatcher", "send")
  BY Stages DEF Task
<1> QED BY <1>1, <1>2, <1>3, QuietRests, Progressive, PTL

(* Converges, when commands and presence changes come to an end.                *)
THEOREM ConvergesWhenQuiet ==
  GuardedSpec /\ <>[][UNCHANGED board]_vars => Converges
<1> SUFFICES ASSUME NEW s \in Socket
             PROVE  GuardedSpec /\ <>[][UNCHANGED board]_vars => (Admitted(s) ~> ~Open(s) \/ UpToDate(s))
  BY DEF Converges
<1>1. PInv(s) /\ [Next]_vars /\ Admitted(s) => Admitted(s)' \/ ~Open(s)'
  BY StaysAdmitted
<1>2. GuardedSpec => []PInv(s) /\ [][Next]_vars
  BY Progressive, PTL DEF GuardedSpec
<1>3. GuardedSpec => [](Admitted(s) /\ [][UNCHANGED board]_vars => <>(~Open(s) \/ UpToDate(s)))
  BY QuietBoardIsShown
<1> QED BY <1>1, <1>2, <1>3, PTL
=============================================================================
