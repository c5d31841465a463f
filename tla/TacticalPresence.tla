-------------------------- MODULE TacticalPresence --------------------------
(***************************************************************************)
(* Who is on a tactical board: the connection leases of                    *)
(* backend/TacticalCollaboration/services.py (admit, leave, claim_socket,  *)
(* socket_heartbeat) and the membership commands and account switches that *)
(* take presence away.  Every operation is one transaction under the       *)
(* organization's row lock, so each is one action.  Times are kept as the  *)
(* seconds that are left, so the model needs no bound on the clock.        *)
(***************************************************************************)
EXTENDS Integers, FiniteSets

CONSTANTS
  User, Connection,   \* accounts, and connection ids chosen by browser tabs
  Socket,             \* physical WebSockets, each with a fresh generation
  Nobody,             \* no row, or socket_generation NULL
  LEASE_S,            \* seconds a lease lasts
  RENEW_S,            \* a lease younger than this is not written again
  CLAIM_WINDOW_S, MAX_CLAIMS,  \* socket claims of a lease per window
  MAX_CONNECTIONS,    \* live leases of one account
  CAPACITY            \* accounts online together

ASSUME PresenceAssumption ==
  /\ {LEASE_S, RENEW_S, CLAIM_WINDOW_S, MAX_CLAIMS, MAX_CONNECTIONS, CAPACITY} \subseteq Nat \ {0}
  /\ RENEW_S < LEASE_S
  /\ Nobody \notin User \cup Socket
  /\ IsFiniteSet(User) /\ IsFiniteSet(Connection)

VARIABLES
  status,     \* Membership.status of each account
  enabled,    \* User.is_active
  lease,      \* the ConnectionLease rows, by connection id
  announced,  \* parity of Organization.state_version
  socket,     \* each socket: not yet claimed, serving a connection, closed
  promised    \* history: seconds left of the last "lease_seconds: 60" answer

vars == <<status, enabled, lease, announced, socket, promised>>

NoLease == [user |-> Nobody, left |-> 0, generation |-> Nobody, window |-> 0, claims |-> 0]
LeaseRow ==
  [user: User, left: 0 .. LEASE_S, generation: Socket \cup {Nobody},
   window: 0 .. CLAIM_WINDOW_S, claims: 0 .. MAX_CLAIMS]
NewSocket == [phase |-> "new", user |-> Nobody, connection |-> Nobody]

TypeOK ==
  /\ status \in [User -> {"active", "removed"}]
  /\ enabled \in [User -> BOOLEAN]
  /\ lease \in [Connection -> LeaseRow \cup {NoLease}]
  /\ announced \in {0, 1}
  /\ socket \in [Socket -> [phase: {"open", "closed"}, user: User \cup {Nobody},
                            connection: Connection \cup {Nobody}] \cup {NewSocket}]
  /\ promised \in [Connection -> 0 .. LEASE_S]

Init ==
  /\ status = [u \in User |-> "active"]
  /\ enabled = [u \in User |-> TRUE]
  /\ lease = [c \in Connection |-> NoLease]
  /\ announced = 0
  /\ socket = [s \in Socket |-> NewSocket]
  /\ promised = [c \in Connection |-> 0]

(***************************************************************************)
(* Helpers.  An operator named Bad... is a plausible mistake in the one    *)
(* after it, used only to show that a property notices the mistake.        *)
(***************************************************************************)
Row(c) == lease[c] # NoLease
Expired(c) == lease[c].left = 0

(* active_leases: only active members with an enabled account count.       *)
Present(u) == status[u] = "active" /\ enabled[u]
Live(c) == Row(c) /\ ~Expired(c) /\ Present(lease[c].user)
Own(u) == {c \in Connection : Live(c) /\ lease[c].user = u}
Online == {lease[c].user : c \in {d \in Connection : Live(d)}}

(* membership(): whoever acts is an active member with an enabled account. *)
Member(u) == Present(u)

(* admit refuses another account's connection id, a fifth connection and a *)
(* hundred-and-first account; renewing a live lease uses no further slot.   *)
BadMayAdmit(u, c) == Row(c) => lease[c].user = u
BadRoom(u, c) ==
  /\ Cardinality(Own(u)) <= MAX_CONNECTIONS
  /\ Own(u) = {} => Cardinality(Online) < CAPACITY
Room(u, c) ==
  /\ Cardinality(Own(u)) < MAX_CONNECTIONS
  /\ Own(u) = {} => Cardinality(Online) < CAPACITY
MayAdmit(u, c) ==
  /\ Row(c) => lease[c].user = u
  /\ ~Row(c) \/ Expired(c) => Room(u, c)

(* A recent lease is not written again; expired rows of others are deleted. *)
BadDueForRenewal(c) == lease[c].left <= LEASE_S - RENEW_S - 1
DueForRenewal(c) == lease[c].left <= LEASE_S - RENEW_S
AdmittedRow(u, c) ==
  IF ~Row(c) THEN [NoLease EXCEPT !.user = u, !.left = LEASE_S]
  ELSE IF DueForRenewal(c) \/ Expired(c) THEN [lease[c] EXCEPT !.left = LEASE_S]
  ELSE lease[c]
Stale(c) == {d \in Connection \ {c} : Row(d) /\ Expired(d)}
Admitted(u, c) ==
  [d \in Connection |-> IF d = c THEN AdmittedRow(u, c)
                        ELSE IF d \in Stale(c) THEN NoLease ELSE lease[d]]

Advance == announced' = 1 - announced
AnnounceIf(changed) == IF changed THEN Advance ELSE UNCHANGED announced
AdmissionAnnounced(c) == AnnounceIf(~Row(c) \/ Stale(c) # {})
Promise(c) == promised' = [promised EXCEPT ![c] = LEASE_S]

(***************************************************************************)
(* HTTP admission and departure                                            *)
(***************************************************************************)
Admit(u, c) ==
  /\ Member(u) /\ MayAdmit(u, c)
  /\ lease' = Admitted(u, c)
  /\ AdmissionAnnounced(c)
  /\ Promise(c)
  /\ UNCHANGED <<status, enabled, socket>>

(* leave asks for no membership: a removed member may still hang up.        *)
Leave(u, c) ==
  /\ Row(c) /\ lease[c].user = u
  /\ lease' = [lease EXCEPT ![c] = NoLease]
  /\ Advance
  /\ promised' = [promised EXCEPT ![c] = 0]
  /\ UNCHANGED <<status, enabled, socket>>

(***************************************************************************)
(* Sockets                                                                 *)
(***************************************************************************)
(* claim_socket admits and gives the lease to this socket alone, unless the *)
(* lease was claimed too often in its window: then the admission is undone.  *)
MayClaim(claims) == claims < MAX_CLAIMS
(* The server draws a new generation for each physical socket.              *)
BadFresh(s) == socket[s].phase # "closed"
Fresh(s) == socket[s].phase = "new"
ClaimSocket(s, u, c) ==
  LET row == AdmittedRow(u, c)
      restarted == row.window = 0
      claims == IF restarted THEN 0 ELSE row.claims IN
  /\ Fresh(s)
  /\ Member(u) /\ MayAdmit(u, c)
  /\ MayClaim(claims)
  /\ lease' = [Admitted(u, c) EXCEPT ![c] =
       [row EXCEPT !.generation = s, !.claims = claims + 1,
                   !.window = IF restarted THEN CLAIM_WINDOW_S ELSE @]]
  /\ AdmissionAnnounced(c)
  /\ Promise(c)
  /\ socket' = [socket EXCEPT ![s] = [phase |-> "open", user |-> u, connection |-> c]]
  /\ UNCHANGED <<status, enabled>>

(* require_socket: the row still names this socket and has not expired.     *)
Holds(s) ==
  LET c == socket[s].connection IN
  Row(c) /\ lease[c].user = socket[s].user /\ lease[c].generation = s /\ ~Expired(c)
Serves(s) == socket[s].phase = "open"
MayServe(s) == Serves(s) /\ Member(socket[s].user) /\ Holds(s)

Heartbeat(s) ==
  LET c == socket[s].connection  u == socket[s].user IN
  /\ MayServe(s)
  /\ MayAdmit(u, c)
  /\ lease' = Admitted(u, c)
  /\ AdmissionAnnounced(c)
  /\ Promise(c)
  /\ UNCHANGED <<status, enabled, socket>>

(* The consumer closes when it is refused (4403 superseded or removed, 4408 *)
(* lease expired), and whenever the transport goes away; a lost transport   *)
(* leaves the lease to its replacement.                                     *)
CloseSocket(s) ==
  /\ socket[s].phase # "closed"
  /\ socket' = [socket EXCEPT ![s].phase = "closed", ![s].user = Nobody, ![s].connection = Nobody]
  /\ UNCHANGED <<status, enabled, lease, announced, promised>>

(***************************************************************************)
(* Members and accounts.  member.remove and member.restore of               *)
(* admin_command; the account switch belongs to the site's administration.   *)
(***************************************************************************)
BadAfterRemoval(u) == lease
AfterRemoval(u) ==
  [c \in Connection |-> IF Row(c) /\ lease[c].user = u THEN NoLease ELSE lease[c]]
RemoveMember(u) ==
  /\ status' = [status EXCEPT ![u] = "removed"]
  /\ lease' = AfterRemoval(u)
  /\ Advance
  /\ promised' = [c \in Connection |-> IF Row(c) /\ lease[c].user = u THEN 0 ELSE promised[c]]
  /\ UNCHANGED <<enabled, socket>>

RestoreMember(u) ==
  /\ status[u] = "removed"
  /\ status' = [status EXCEPT ![u] = "active"]
  /\ Advance
  /\ UNCHANGED <<enabled, lease, socket, promised>>

SwitchAccount(u) ==
  /\ enabled' = [enabled EXCEPT ![u] = ~@]
  /\ UNCHANGED <<status, lease, announced, socket, promised>>

Less(n) == IF n = 0 THEN 0 ELSE n - 1
Tick ==
  /\ \E c \in Connection : Row(c) /\ (lease[c].left > 0 \/ lease[c].window > 0)
  /\ lease' = [c \in Connection |->
       IF Row(c) THEN [lease[c] EXCEPT !.left = Less(@), !.window = Less(@)] ELSE lease[c]]
  /\ promised' = [c \in Connection |-> Less(promised[c])]
  /\ UNCHANGED <<status, enabled, announced, socket>>

Next ==
  \/ \E u \in User, c \in Connection : Admit(u, c) \/ Leave(u, c)
  \/ \E s \in Socket, u \in User, c \in Connection : ClaimSocket(s, u, c)
  \/ \E s \in Socket : Heartbeat(s) \/ CloseSocket(s)
  \/ \E u \in User : RemoveMember(u) \/ RestoreMember(u) \/ SwitchAccount(u)
  \/ Tick

Spec == Init /\ [][Next]_vars

(***************************************************************************)
(* Properties                                                              *)
(***************************************************************************)
(* The limit of connections per account survives everything that makes     *)
(* leases come back to life: a disabled account keeps its rows, and a lease *)
(* that expired is admitted again as a new one (services.py 784-790).        *)
ConnectionLimit == \A u \in User : Cardinality(Own(u)) <= MAX_CONNECTIONS

(* Only enabling an account again may carry the number of accounts online   *)
(* past the capacity; no admission, renewal, heartbeat or restored member    *)
(* does, and the rows of a disabled account are counted again at once.       *)
AdmissionsRespectCapacity ==
  [][Cardinality(Online') > CAPACITY /\ Cardinality(Online') > Cardinality(Online)
     => enabled' # enabled]_vars

(* A removed member holds nothing, so restoring the member restores no      *)
(* connection: neither the leases of before nor the right of a socket that  *)
(* was never closed (services.py 418-419, 724).                              *)
RemovedHoldsNothing ==
  \A c \in Connection : Row(c) => status[lease[c].user] = "active"

(* What a removed member left, and the types of all rows.                    *)
PresenceSound == TypeOK /\ RemovedHoldsNothing

(* A socket that was replaced, or whose lease was deleted, is never accepted *)
(* again, however the lease is renewed, dropped or recreated.  (One whose     *)
(* lease only expired is: the tab renews it over HTTP and the row still names *)
(* the socket.)                                                              *)
Replaced(s) ==
  LET c == socket[s].connection IN Serves(s) /\ ~(Row(c) /\ lease[c].generation = s)
ReplacedStaysReplaced == [][\A s \in Socket : Replaced(s) => ~MayServe(s)']_vars

(* What the rows say of a socket's connection never moves in a way that      *)
(* realtime.py does not expect: nothing is lost before it was claimed, only a *)
(* lease that ran out or an account that was disabled comes back, and what    *)
(* was lost, by a second claim, a departure or a removal, stays lost however  *)
(* many connections of the same account follow (services.py 847-928).         *)
Standing(s) ==
  IF socket[s].phase = "new" THEN "none"
  ELSE IF socket[s].phase = "closed" THEN "closed"
  ELSE IF Replaced(s) THEN "lost"
  ELSE IF MayServe(s) THEN "live" ELSE "expired"
Place == INSTANCE SocketStanding WITH standing <- [s \in Socket |-> Standing(s)]
KeepsStanding == Place!Spec

(* The answer of an admission says the lease lasts LEASE_S more.  Since a    *)
(* recent lease is not rewritten it may last less, but always by less than   *)
(* RENEW_S: a client that renews that much earlier never loses its place.    *)
PromiseNearlyKept ==
  \A c \in Connection : promised[c] - lease[c].left < RENEW_S
=============================================================================
