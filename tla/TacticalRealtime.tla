-------------------------- MODULE TacticalRealtime --------------------------
(***************************************************************************)
(* How a committed change of a tactical board reaches a browser: the        *)
(* WebSocket consumer of backend/TacticalCollaboration/realtime.py, the      *)
(* events of events.py, and the two reads it makes of services.py.  Each     *)
(* consumer has two tasks that may touch the board, its dispatcher (frames   *)
(* and group events, one at a time) and its poll; io_lock serialises them.   *)
(* A snapshot is two database reads: the scope, from which the geometry is   *)
(* drawn, and later everything else, under the organization's lock.          *)
(***************************************************************************)
EXTENDS Integers, FiniteSets

CONSTANTS
  Socket,
  MAX_VERSION,   \* bound: commands committed in a behaviour
  MAX_DRIFT,     \* bound: presence changes that nobody announces
  TRIES          \* attempts at a snapshot with an unchanged scope

ASSUME RealtimeAssumption == MAX_VERSION \in Nat /\ MAX_DRIFT \in Nat /\ TRIES \in Nat \ {0}

VARIABLES
  board,     \* the committed organization: version, board content, scope, presence
  standing,  \* what the database says of each socket's lease and membership
  socket,    \* each consumer's fields
  task,      \* its two tasks
  lock,      \* who holds its io_lock
  inbox,     \* group events on their way to it
  stripped   \* history: state_version when the socket lost its standing

vars == <<board, standing, socket, task, lock, inbox, stripped>>

Task == {"dispatcher", "poll"}
Version == 0 .. MAX_VERSION
Blank == [geometry |-> 0, scope |-> 0, content |-> 0, drift |-> 0, version |-> 0]
Value == [geometry: Version, scope: Version, content: Version, drift: 0 .. MAX_DRIFT, version: Version]
Idle == [pc |-> "idle", try |-> 0, value |-> Blank]

TypeOK ==
  /\ board \in [version: Version, content: Version, scope: Version, drift: 0 .. MAX_DRIFT]
  /\ standing \in [Socket -> {"none", "live", "expired", "lost"}]
  /\ socket \in [Socket -> [phase: {"accepted", "admitted", "closed"}, grouped: BOOLEAN,
                            cursor: Version, shown: Value, due: BOOLEAN]]
  /\ task \in [Socket -> [Task -> [pc: {"idle", "wait", "version", "scope", "content", "send"},
                                   try: 0 .. TRIES - 1, value: Value]]]
  /\ lock \in [Socket -> Task \cup {"free"}]
  /\ inbox \in [Socket -> SUBSET Version]
  /\ stripped \in [Socket -> Version]

Init ==
  /\ board = [version |-> 0, content |-> 0, scope |-> 0, drift |-> 0]
  /\ standing = [s \in Socket |-> "none"]
  /\ socket = [s \in Socket |-> [phase |-> "accepted", grouped |-> FALSE, cursor |-> 0,
                                 shown |-> Blank, due |-> FALSE]]
  /\ task = [s \in Socket |-> [t \in Task |-> Idle]]
  /\ lock = [s \in Socket |-> "free"]
  /\ inbox = [s \in Socket |-> {}]
  /\ stripped = [s \in Socket |-> MAX_VERSION]

(***************************************************************************)
(* Helpers                                                                 *)
(***************************************************************************)
Open(s) == socket[s].phase # "closed"
Admitted(s) == socket[s].phase = "admitted"
Doing(s, t, pc) == Open(s) /\ task[s][t].pc = pc
Become(s, t, new) == task' = [task EXCEPT ![s][t] = new]
Goto(s, t, pc) == Become(s, t, [task[s][t] EXCEPT !.pc = pc])

(* shutdown and disconnect: tasks are cancelled, the group is left and      *)
(* events under way are dropped; a lease is never deleted here.             *)
Shutdown(s) ==
  /\ socket' = [socket EXCEPT ![s].phase = "closed", ![s].grouped = FALSE]
  /\ task' = [task EXCEPT ![s] = [t \in Task |-> Idle]]
  /\ lock' = [lock EXCEPT ![s] = "free"]
  /\ inbox' = [inbox EXCEPT ![s] = {}]
  /\ UNCHANGED <<board, standing, stripped>>

TakeLock(s, t) == lock[s] = "free" /\ lock' = [lock EXCEPT ![s] = t]
(* A mistake: the event handler publishes without waiting for the poll.     *)
BadEnterLock(s, t) == IF t = "poll" THEN TakeLock(s, t) ELSE lock' = lock
EnterLock(s, t) == TakeLock(s, t)
(* A mistake: a poll that found nothing new returns with the lock.          *)
BadFreeLock(s, t) == lock' = [lock EXCEPT ![s] = IF t = "poll" THEN @ ELSE "free"]
FreeLock(s, t) == lock' = [lock EXCEPT ![s] = IF @ = t THEN "free" ELSE @]

(***************************************************************************)
(* The database: commands of other members, presence, leases               *)
(***************************************************************************)
(* _publish_state_event runs after the commit; the layer may be out of      *)
(* reach or belong to another process, so any grouped socket may miss it.   *)
Publish ==
  \E heard \in SUBSET {s \in Socket : socket[s].grouped} :
    inbox' = [s \in Socket |-> IF s \in heard THEN inbox[s] \cup {board'.version} ELSE inbox[s]]
Change(new) ==
  /\ board.version < MAX_VERSION
  /\ board' = [new EXCEPT !.version = @ + 1]
  /\ Publish
  /\ UNCHANGED <<standing, socket, task, lock, stripped>>
ChangeBoard == Change([board EXCEPT !.content = @ + 1])
ChangeScope == Change([board EXCEPT !.scope = @ + 1])
ChangeOtherBoard == Change(board)

(* A lease runs out, or an account is disabled: what a snapshot shows of    *)
(* presence changes, and no version is advanced.                            *)
Drift ==
  /\ board.drift < MAX_DRIFT
  /\ board' = [board EXCEPT !.drift = @ + 1]
  /\ UNCHANGED <<standing, socket, task, lock, inbox, stripped>>

(* The socket's own lease expires, is renewed over HTTP, or is taken over   *)
(* by another socket or deleted with the membership.                        *)
LeaseMoves(s, from, to) ==
  /\ standing[s] = from
  /\ standing' = [standing EXCEPT ![s] = to]
  /\ stripped' = [stripped EXCEPT ![s] = IF to = "lost" THEN board.version ELSE @]
  /\ UNCHANGED <<board, socket, task, lock, inbox>>
LeaseExpires(s) == LeaseMoves(s, "live", "expired")
LeaseRenewed(s) == LeaseMoves(s, "expired", "live")
LeaseLost(s) == \E from \in {"live", "expired"} : LeaseMoves(s, from, "lost")

(***************************************************************************)
(* Frames                                                                  *)
(***************************************************************************)
(* The first frame claims the lease for this socket, which starts the first *)
(* snapshot; the poll and the group follow it.                              *)
Authenticate(s) ==
  /\ socket[s].phase = "accepted" /\ standing[s] = "none"
  /\ TakeLock(s, "dispatcher")
  /\ standing' = [standing EXCEPT ![s] = "live"]
  /\ socket' = [socket EXCEPT ![s].phase = "admitted"]
  /\ Goto(s, "dispatcher", "scope")
  /\ UNCHANGED <<board, inbox, stripped>>

(* A ping renews the lease, or closes the socket that has lost it.          *)
Ping(s) ==
  /\ Admitted(s) /\ socket[s].grouped /\ Doing(s, "dispatcher", "idle") /\ lock[s] = "free"
  /\ standing[s] # "live" /\ Shutdown(s)

(* authentication_deadline, expiry_watch, a malformed or thirty-first frame, *)
(* a refused admission and the peer's disconnect all close the socket.      *)
Close(s) == Open(s) /\ Shutdown(s)

(***************************************************************************)
(* tactical_state_event: an event that is not newer is dropped; the cursor  *)
(* moves before the snapshot is read.                                       *)
(***************************************************************************)
Event(s) ==
  /\ Admitted(s) /\ Doing(s, "dispatcher", "idle")
  /\ \E v \in inbox[s] :
       /\ inbox' = [inbox EXCEPT ![s] = @ \ {v}]
       /\ IF v > socket[s].cursor
          THEN /\ socket' = [socket EXCEPT ![s].cursor = v]
               /\ Goto(s, "dispatcher", "wait")
          ELSE UNCHANGED <<socket, task>>
  /\ UNCHANGED <<board, standing, lock, stripped>>
EventLocks(s) ==
  /\ Doing(s, "dispatcher", "wait") /\ EnterLock(s, "dispatcher")
  /\ Goto(s, "dispatcher", "scope")
  /\ UNCHANGED <<board, standing, socket, inbox, stripped>>

(***************************************************************************)
(* poll: once a second, compare the version, and refresh after 20 seconds.  *)
(***************************************************************************)
RefreshDue(s) ==
  /\ Admitted(s) /\ ~socket[s].due
  /\ socket' = [socket EXCEPT ![s].due = TRUE]
  /\ UNCHANGED <<board, standing, task, lock, inbox, stripped>>
(* The poll runs whether or not the group delivers events.                  *)
BadPolls(s) == Admitted(s) /\ socket[s].grouped /\ inbox[s] # {}
Polls(s) == Admitted(s) /\ socket[s].grouped
PollWakes(s) ==
  /\ Polls(s) /\ Doing(s, "poll", "idle") /\ EnterLock(s, "poll")
  /\ Goto(s, "poll", "version")
  /\ UNCHANGED <<board, standing, socket, inbox, stripped>>
BadBehind(s) == board.version # socket[s].cursor
Behind(s) == board.version # socket[s].cursor \/ socket[s].due
(* socket_state_version checks membership, lease and generation.            *)
Authorized(s) == standing[s] = "live"
PollCompares(s) ==
  /\ Doing(s, "poll", "version")
  /\ \/ ~Authorized(s) /\ Shutdown(s)
     \/ /\ Authorized(s)
        /\ IF Behind(s) THEN Goto(s, "poll", "scope") /\ UNCHANGED lock
           ELSE Become(s, "poll", Idle) /\ FreeLock(s, "poll")
        /\ UNCHANGED <<board, standing, socket, inbox, stripped>>

(***************************************************************************)
(* publish_state                                                           *)
(***************************************************************************)
(* socket_snapshot, first read: authority and scope.                        *)
ReadScope(s, t) ==
  /\ Doing(s, t, "scope")
  /\ \/ standing[s] # "live" /\ Shutdown(s)
     \/ /\ standing[s] = "live"
        /\ Become(s, t, [task[s][t] EXCEPT !.pc = "content", !.value = [Blank EXCEPT !.geometry = board.scope]])
        /\ UNCHANGED <<board, standing, socket, lock, inbox, stripped>>

(* Second read, under the row lock: authority again, and the scope must be  *)
(* the one the geometry was drawn for; the third change in a row gives up.  *)
BadSameScope(s, t) == TRUE
SameScope(s, t) == task[s][t].value.geometry = board.scope
BadStillAuthorized(s) == TRUE
StillAuthorized(s) == standing[s] = "live"
LastTry(s, t) == task[s][t].try + 1 = TRIES
Visible(geometry) ==
  [geometry |-> geometry, scope |-> board.scope, content |-> board.content,
   drift |-> board.drift, version |-> board.version]
ReadContent(s, t) ==
  LET me == task[s][t] IN
  /\ Doing(s, t, "content")
  /\ \/ ~StillAuthorized(s) /\ Shutdown(s)
     \/ StillAuthorized(s) /\ ~SameScope(s, t) /\ LastTry(s, t) /\ Shutdown(s)
     \/ /\ StillAuthorized(s) /\ ~SameScope(s, t) /\ ~LastTry(s, t)
        /\ Become(s, t, [me EXCEPT !.pc = "scope", !.try = @ + 1])
        /\ UNCHANGED <<board, standing, socket, lock, inbox, stripped>>
     \/ /\ StillAuthorized(s) /\ SameScope(s, t)
        /\ Become(s, t, [me EXCEPT !.pc = "send", !.value = Visible(me.value.geometry)])
        /\ UNCHANGED <<board, standing, socket, lock, inbox, stripped>>

(* The cursor never goes back; what the client already has is not sent      *)
(* again.  A send that fails or stalls closes the socket.                   *)
Content(value) == [value EXCEPT !.version = 0]
Later(v, w) == IF v > w THEN v ELSE w
BadAfterFailedSend(s, t) ==
  /\ socket' = [socket EXCEPT ![s].cursor = Later(@, task[s][t].value.version), ![s].grouped = TRUE]
  /\ Become(s, t, Idle) /\ FreeLock(s, t)
  /\ UNCHANGED <<board, standing, inbox, stripped>>
AfterFailedSend(s, t) == Shutdown(s)
Send(s, t) ==
  LET value == task[s][t].value IN
  /\ Doing(s, t, "send")
  /\ \/ /\ socket' = [socket EXCEPT ![s].cursor = Later(@, value.version), ![s].due = FALSE,
                                    ![s].grouped = TRUE,
                                    ![s].shown = IF Content(@) = Content(value) THEN @ ELSE value]
        /\ Become(s, t, Idle) /\ FreeLock(s, t)
        /\ UNCHANGED <<board, standing, inbox, stripped>>
     \/ (Content(value) # Content(socket[s].shown) \/ ~socket[s].grouped) /\ AfterFailedSend(s, t)

Step(s) ==
  \/ Event(s) \/ EventLocks(s) \/ PollWakes(s) \/ PollCompares(s)
  \/ \E t \in Task : ReadScope(s, t) \/ ReadContent(s, t) \/ Send(s, t)

Next ==
  \/ ChangeBoard \/ ChangeScope \/ ChangeOtherBoard \/ Drift
  \/ \E s \in Socket :
       \/ LeaseExpires(s) \/ LeaseRenewed(s) \/ LeaseLost(s)
       \/ Authenticate(s) \/ Ping(s) \/ Close(s) \/ RefreshDue(s) \/ Step(s)

(* The event loop runs its tasks and the poll's timer rings; nothing is     *)
(* assumed of clients, commands, events or leases.                          *)
Fairness ==
  \A s \in Socket :
    /\ \A t \in Task : WF_vars(ReadScope(s, t)) /\ WF_vars(ReadContent(s, t)) /\ WF_vars(Send(s, t))
    /\ WF_vars(Event(s)) /\ SF_vars(EventLocks(s)) /\ SF_vars(PollWakes(s)) /\ WF_vars(PollCompares(s))
    /\ WF_vars(RefreshDue(s))

Spec == Init /\ [][Next]_vars /\ Fairness

(* The same scheduling with the guards written out: which of these steps a  *)
(* socket could take next, and what is assumed of one that could.           *)
CanHear(s) == Admitted(s) /\ Doing(s, "dispatcher", "idle") /\ inbox[s] # {}
CanLock(s) == Doing(s, "dispatcher", "wait") /\ lock[s] = "free"
CanWake(s) == Admitted(s) /\ socket[s].grouped /\ Doing(s, "poll", "idle") /\ lock[s] = "free"
CanRefresh(s) == Admitted(s) /\ ~socket[s].due
CanPublish(s) == Doing(s, "poll", "version") \/ \E t \in Task, pc \in {"scope", "content", "send"} : Doing(s, t, pc)

FairTo(s) ==
  /\ \A t \in Task :
       /\ <>[]Doing(s, t, "scope") => []<><<ReadScope(s, t)>>_vars
       /\ <>[]Doing(s, t, "content") => []<><<ReadContent(s, t)>>_vars
       /\ <>[]Doing(s, t, "send") => []<><<Send(s, t)>>_vars
  /\ <>[]Doing(s, "poll", "version") => []<><<PollCompares(s)>>_vars
  /\ <>[]CanHear(s) => []<><<Event(s)>>_vars
  /\ []<>CanLock(s) => []<><<EventLocks(s)>>_vars
  /\ []<>CanWake(s) => []<><<PollWakes(s)>>_vars
  /\ <>[]CanRefresh(s) => []<><<RefreshDue(s)>>_vars
GuardedSpec == Init /\ [][Next]_vars /\ \A s \in Socket : FairTo(s)

(***************************************************************************)
(* Properties                                                              *)
(***************************************************************************)
(* A snapshot never mixes the geometry of one scope with the forces,        *)
(* reports and scope of another (services.py 818-836); and the types.       *)
NeverMixed == TypeOK /\ \A s \in Socket : socket[s].shown.geometry = socket[s].shown.scope

(* Whatever order events, polls and snapshots come in, what a browser is    *)
(* shown never goes back to an earlier state of the board.                  *)
NeverBackwards ==
  [][\A s \in Socket :
       /\ socket[s].shown.content <= socket'[s].shown.content
       /\ socket[s].shown.scope <= socket'[s].shown.scope
       /\ socket[s].shown.drift <= socket'[s].shown.drift]_vars

(* The cursor is advanced before the snapshot is read and sent              *)
(* (realtime.py 159-162, 208).  Yet when no task is on its way, a socket    *)
(* that believes it is up to date shows everything that was announced.      *)
CursorHidesNothing ==
  \A s \in Socket :
    Admitted(s) /\ (\A t \in Task : task[s][t].pc \in {"idle", "version"}) /\ socket[s].cursor = board.version
    => socket[s].shown.content = board.content /\ socket[s].shown.scope = board.scope

(* A member removed or replaced is shown nothing that was committed later,  *)
(* though a snapshot read before may still be on its way.                   *)
NothingAfterLoss == \A s \in Socket : socket[s].shown.version <= stripped[s]

(* The two tasks of a socket and its io_lock never wait for one another: an *)
(* admitted socket always has a publication to go on with or a poll to      *)
(* start.  And the guards above are exactly when their steps are possible,  *)
(* on which the fairness of GuardedSpec rests (realtime.py 62, 137-204).    *)
NeverStuck ==
  \A s \in Socket :
    /\ Admitted(s) => CanPublish(s) \/ CanWake(s)
    /\ \A t \in Task :
         /\ Doing(s, t, "scope") <=> ENABLED <<ReadScope(s, t)>>_vars
         /\ Doing(s, t, "content") <=> ENABLED <<ReadContent(s, t)>>_vars
         /\ Doing(s, t, "send") <=> ENABLED <<Send(s, t)>>_vars
    /\ Doing(s, "poll", "version") <=> ENABLED <<PollCompares(s)>>_vars
    /\ CanHear(s) <=> ENABLED <<Event(s)>>_vars
    /\ CanLock(s) <=> ENABLED <<EventLocks(s)>>_vars
    /\ CanWake(s) <=> ENABLED <<PollWakes(s)>>_vars
    /\ CanRefresh(s) <=> ENABLED <<RefreshDue(s)>>_vars

(* Every open socket comes to show the committed board, events lost or not, *)
(* and also the presence that no event announces.                           *)
UpToDate(s) ==
  LET v == socket[s].shown IN
  v.content = board.content /\ v.scope = board.scope /\ v.drift = board.drift
Converges == \A s \in Socket : Admitted(s) ~> ~Open(s) \/ UpToDate(s)

(* A socket that has lost its membership or its connection is closed.       *)
LossCloses == \A s \in Socket : standing[s] = "lost" ~> ~Open(s)
=============================================================================
