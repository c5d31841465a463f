----------------------- MODULE TacticalPresenceProofs -----------------------
(* Theorems of TacticalPresence, for any accounts, connections, sockets and    *)
(* limits.                                                                     *)
EXTENDS TacticalPresence, FiniteSetTheorems, TLAPS

(* What an account holds whether or not it counts at the moment: disabling it  *)
(* hides its rows, and enabling it shows them all again.                       *)
Held(u) == {c \in Connection : Row(c) /\ ~Expired(c) /\ lease[c].user = u}
WithinLimit == \A u \in User : Cardinality(Held(u)) <= MAX_CONNECTIONS

(* A socket that serves has claimed a connection for an account.               *)
Claimed == \A s \in Socket : Serves(s) => socket[s].connection \in Connection /\ socket[s].user \in User

IInv == PresenceSound /\ Claimed /\ PromiseNearlyKept /\ WithinLimit

(* What admission, claim and heartbeat have in common.                         *)
Admission(u, c) ==
  /\ Member(u) /\ MayAdmit(u, c)
  /\ UNCHANGED <<status, enabled>>
  /\ promised' = [promised EXCEPT ![c] = LEASE_S]
  /\ announced' \in {0, 1}
  /\ lease' \in [Connection -> LeaseRow \cup {NoLease}]
  /\ lease'[c] \in LeaseRow /\ lease'[c].user = u /\ lease'[c].left > LEASE_S - RENEW_S
  /\ \A d \in Connection \ {c} : lease'[d] = lease[d] \/ (lease'[d] = NoLease /\ lease[d].left = 0)

LEMMA Constants ==
  /\ LEASE_S \in Nat /\ RENEW_S \in Nat /\ CLAIM_WINDOW_S \in Nat /\ MAX_CLAIMS \in Nat
  /\ MAX_CONNECTIONS \in Nat /\ CAPACITY \in Nat
  /\ LEASE_S > 0 /\ RENEW_S > 0 /\ MAX_CLAIMS > 0 /\ RENEW_S < LEASE_S
<1> QED BY PresenceAssumption

LEMMA RowType ==
  ASSUME TypeOK, NEW c \in Connection
  PROVE  /\ Row(c) => lease[c] \in LeaseRow /\ lease[c].user \in User
         /\ ~Row(c) => lease[c].left = 0 /\ lease[c].generation = Nobody /\ lease[c].user = Nobody
         /\ lease[c].left \in 0 .. LEASE_S
<1> QED BY Constants DEF TypeOK, Row, LeaseRow, NoLease

LEMMA AdmittedRowType ==
  ASSUME TypeOK, NEW u \in User, NEW c \in Connection, MayAdmit(u, c)
  PROVE  /\ AdmittedRow(u, c) \in LeaseRow /\ AdmittedRow(u, c).user = u
         /\ AdmittedRow(u, c).left > LEASE_S - RENEW_S
         /\ AdmittedRow(u, c).generation = lease[c].generation
<1>1. lease[c].left \in 0 .. LEASE_S
  BY RowType
<1>2. CASE ~Row(c)
  <2>1. AdmittedRow(u, c) = [user |-> u, left |-> LEASE_S, generation |-> Nobody, window |-> 0, claims |-> 0]
    BY <1>2 DEF AdmittedRow, NoLease
  <2>2. lease[c].generation = Nobody
    BY <1>2, RowType
  <2> QED BY <2>1, <2>2, Constants DEF LeaseRow
<1>3. CASE Row(c) /\ (DueForRenewal(c) \/ Expired(c))
  <2>1. AdmittedRow(u, c) = [lease[c] EXCEPT !.left = LEASE_S]
    BY <1>3 DEF AdmittedRow
  <2>2. lease[c] \in LeaseRow /\ lease[c].user = u
    BY <1>3, RowType DEF MayAdmit
  <2> QED BY <2>1, <2>2, Constants DEF LeaseRow
<1>4. CASE Row(c) /\ ~DueForRenewal(c) /\ ~Expired(c)
  <2>1. AdmittedRow(u, c) = lease[c]
    BY <1>4 DEF AdmittedRow
  <2>2. lease[c] \in LeaseRow /\ lease[c].user = u
    BY <1>4, RowType DEF MayAdmit
  <2> QED BY <1>1, <1>4, <2>1, <2>2, Constants DEF DueForRenewal
<1> QED BY <1>2, <1>3, <1>4

LEMMA AnnouncedType == ASSUME TypeOK, NEW b, AnnounceIf(b) PROVE announced' \in {0, 1}
<1> QED BY DEF AnnounceIf, Advance, TypeOK

LEMMA AdmittedType ==
  ASSUME TypeOK, NEW u \in User, NEW c \in Connection, MayAdmit(u, c), Member(u),
         AdmissionAnnounced(c), Promise(c), UNCHANGED <<status, enabled>>,
         NEW row \in LeaseRow, row.user = u, row.left > LEASE_S - RENEW_S,
         lease' = [d \in Connection |-> IF d = c THEN row ELSE IF d \in Stale(c) THEN NoLease ELSE lease[d]]
  PROVE  Admission(u, c)
<1>1. announced' \in {0, 1}
  BY AnnouncedType DEF AdmissionAnnounced
<1>2. lease' \in [Connection -> LeaseRow \cup {NoLease}]
  BY DEF TypeOK
<1>3. \A d \in Connection \ {c} : lease'[d] = lease[d] \/ (lease'[d] = NoLease /\ lease[d].left = 0)
  BY DEF Stale, Expired
<1> QED BY <1>1, <1>2, <1>3 DEF Admission, Promise

LEMMA AdmitAdmits == ASSUME TypeOK, NEW u \in User, NEW c \in Connection, Admit(u, c) PROVE Admission(u, c)
<1> USE DEF Admit
<1>1. AdmittedRow(u, c) \in LeaseRow /\ AdmittedRow(u, c).user = u /\ AdmittedRow(u, c).left > LEASE_S - RENEW_S
  BY AdmittedRowType
<1> QED BY <1>1, AdmittedType DEF Admitted

LEMMA HeartbeatAdmits ==
  ASSUME TypeOK, Claimed, NEW s \in Socket, Heartbeat(s)
  PROVE  Admission(socket[s].user, socket[s].connection)
<1>1. PICK u \in User, c \in Connection : u = socket[s].user /\ c = socket[s].connection
  BY DEF Heartbeat, MayServe, Claimed
<1>2. AdmittedRow(u, c) \in LeaseRow /\ AdmittedRow(u, c).user = u /\ AdmittedRow(u, c).left > LEASE_S - RENEW_S
  BY <1>1, AdmittedRowType DEF Heartbeat
<1>3. Admission(u, c)
  BY <1>1, <1>2, AdmittedType DEF Admitted, Heartbeat, MayServe
<1> QED BY <1>1, <1>3

LEMMA ClaimAdmits ==
  ASSUME TypeOK, NEW s \in Socket, NEW u \in User, NEW c \in Connection, ClaimSocket(s, u, c)
  PROVE  Admission(u, c)
<1> DEFINE row == AdmittedRow(u, c)
           restarted == row.window = 0
           claims == IF restarted THEN 0 ELSE row.claims
           new == [row EXCEPT !.generation = s, !.claims = claims + 1,
                              !.window = IF restarted THEN CLAIM_WINDOW_S ELSE @]
<1>1. row \in LeaseRow /\ row.user = u /\ row.left > LEASE_S - RENEW_S
  BY AdmittedRowType DEF ClaimSocket
<1>2. claims < MAX_CLAIMS
  BY DEF ClaimSocket, MayClaim
<1>3. claims + 1 \in 0 .. MAX_CLAIMS
  BY <1>1, <1>2, Constants DEF LeaseRow
<1>4. (IF restarted THEN CLAIM_WINDOW_S ELSE row.window) \in 0 .. CLAIM_WINDOW_S
  BY <1>1, Constants DEF LeaseRow
<1> HIDE DEF row, claims, restarted
<1>5. new \in LeaseRow /\ new.user = u /\ new.left > LEASE_S - RENEW_S
  BY <1>1, <1>3, <1>4 DEF LeaseRow
<1>6. lease' = [Admitted(u, c) EXCEPT ![c] = new]
  BY DEF ClaimSocket, row, claims, restarted
<1> HIDE DEF new
<1>7. lease' = [d \in Connection |-> IF d = c THEN new ELSE IF d \in Stale(c) THEN NoLease ELSE lease[d]]
  BY <1>6 DEF Admitted
<1>8. MayAdmit(u, c) /\ Member(u) /\ AdmissionAnnounced(c) /\ Promise(c) /\ UNCHANGED <<status, enabled>>
  BY DEF ClaimSocket
<1> QED BY <1>5, <1>7, <1>8, AdmittedType

-----------------------------------------------------------------------------
(* What an admission does to each part of the invariant.                       *)
LEMMA AdmissionRows ==
  ASSUME IInv, NEW u \in User, NEW c \in Connection, Admission(u, c)
  PROVE  RemovedHoldsNothing' /\ PromiseNearlyKept'
<1>1. \A d \in Connection \ {c} : Row(d)' => Row(d) /\ lease'[d] = lease[d]
  BY DEF Admission, Row
<1>2. RemovedHoldsNothing'
  <2> SUFFICES ASSUME NEW d \in Connection, Row(d)' PROVE status'[lease'[d].user] = "active"
    BY DEF RemovedHoldsNothing
  <2>1. CASE d = c
    BY <2>1 DEF Admission, Member, Present
  <2>2. CASE d # c
    BY <1>1, <2>2 DEF IInv, PresenceSound, RemovedHoldsNothing, Admission
  <2> QED BY <2>1, <2>2
<1>3. PromiseNearlyKept'
  <2> SUFFICES ASSUME NEW d \in Connection PROVE promised'[d] - lease'[d].left < RENEW_S
    BY DEF PromiseNearlyKept
  <2>1. CASE d = c
    <3>1. promised'[c] = LEASE_S /\ lease'[c].left > LEASE_S - RENEW_S /\ lease'[c].left \in 0 .. LEASE_S
      BY DEF Admission, IInv, PresenceSound, TypeOK, LeaseRow
    <3> QED BY <2>1, <3>1, Constants
  <2>2. CASE d # c
    <3>1. promised'[d] = promised[d] /\ promised[d] - lease[d].left < RENEW_S
      BY <2>2 DEF Admission, IInv, PresenceSound, TypeOK, PromiseNearlyKept
    <3>2. lease'[d].left = lease[d].left
      BY <2>2 DEF Admission, NoLease
    <3> QED BY <3>1, <3>2
  <2> QED BY <2>1, <2>2
<1> QED BY <1>2, <1>3

LEMMA HeldFinite == ASSUME NEW u PROVE IsFiniteSet(Held(u)) /\ Cardinality(Held(u)) \in Nat
<1>1. IsFiniteSet(Held(u))
  BY PresenceAssumption, FS_Subset DEF Held
<1> QED BY <1>1, FS_CardinalityType

(* Rows that lose time, go or keep their account do not add to anybody's.      *)
LEMMA FewerKeeps ==
  ASSUME WithinLimit, \A u \in User : Held(u)' \subseteq Held(u)
  PROVE  WithinLimit'
<1> SUFFICES ASSUME NEW u \in User PROVE Cardinality(Held(u)') <= MAX_CONNECTIONS
  BY DEF WithinLimit
<1>1. IsFiniteSet(Held(u)) /\ Cardinality(Held(u)) \in Nat
  BY HeldFinite
<1>2. IsFiniteSet(Held(u)') /\ Cardinality(Held(u)') \in Nat /\ Cardinality(Held(u)') <= Cardinality(Held(u))
  BY <1>1, FS_Subset, FS_CardinalityType
<1> QED BY <1>1, <1>2, Constants DEF WithinLimit

LEMMA AdmissionLimit ==
  ASSUME IInv, NEW u \in User, NEW c \in Connection, Admission(u, c)
  PROVE  WithinLimit'
<1>1. \A v \in User : v # u => Held(v)' \subseteq Held(v)
  BY DEF Held, Admission, Row, Expired, NoLease
<1>2. Held(u)' \subseteq Held(u) \cup {c}
  BY DEF Held, Admission, Row, Expired, NoLease
<1>3. CASE c \in Held(u)
  BY <1>1, <1>2, <1>3, FewerKeeps DEF IInv
<1>4. CASE c \notin Held(u)
  <2>1. ~Row(c) \/ Expired(c)
    BY <1>4 DEF Admission, MayAdmit, Held
  <2>2. Own(u) = Held(u)
    BY DEF Own, Held, Live, Admission, Member
  <2>3. Cardinality(Held(u)) < MAX_CONNECTIONS
    BY <2>1, <2>2 DEF Admission, MayAdmit, Room
  <2>4. IsFiniteSet(Held(u)) /\ Cardinality(Held(u)) \in Nat
    BY HeldFinite
  <2>5. IsFiniteSet(Held(u) \cup {c}) /\ Cardinality(Held(u) \cup {c}) = Cardinality(Held(u)) + 1
    BY <1>4, <2>4, FS_AddElement
  <2>6. Cardinality(Held(u)') <= Cardinality(Held(u) \cup {c}) /\ Cardinality(Held(u)') \in Nat
    BY <1>2, <2>5, FS_Subset, FS_CardinalityType
  <2>7. Cardinality(Held(u)') <= MAX_CONNECTIONS
    BY <2>3, <2>4, <2>5, <2>6, Constants
  <2>8. ASSUME NEW v \in User PROVE Cardinality(Held(v)') <= MAX_CONNECTIONS
    <3>1. CASE v = u
      BY <2>7, <3>1
    <3>2. CASE v # u
      <4>1. IsFiniteSet(Held(v)) /\ Cardinality(Held(v)) \in Nat /\ Cardinality(Held(v)) <= MAX_CONNECTIONS
        BY HeldFinite DEF IInv, WithinLimit
      <4>2. Cardinality(Held(v)') <= Cardinality(Held(v)) /\ Cardinality(Held(v)') \in Nat
        BY <1>1, <3>2, <4>1, FS_Subset, FS_CardinalityType
      <4> QED BY <4>1, <4>2, Constants
    <3> QED BY <3>1, <3>2
  <2> QED BY <2>8 DEF WithinLimit
<1> QED BY <1>3, <1>4

-----------------------------------------------------------------------------
(* The steps.                                                                  *)
LEMMA AdmitKeeps == ASSUME IInv, NEW u \in User, NEW c \in Connection, Admit(u, c) PROVE IInv'
<1>1. Admission(u, c) /\ UNCHANGED socket
  BY AdmitAdmits DEF IInv, PresenceSound, Admit
<1>2. TypeOK'
  BY <1>1, Constants DEF IInv, PresenceSound, TypeOK, Admission
<1>3. Claimed'
  BY <1>1 DEF IInv, Claimed, Serves
<1> QED BY <1>1, <1>2, <1>3, AdmissionRows, AdmissionLimit DEF IInv, PresenceSound

LEMMA HeartbeatKeeps == ASSUME IInv, NEW s \in Socket, Heartbeat(s) PROVE IInv'
<1>1. PICK u \in User, c \in Connection : u = socket[s].user /\ c = socket[s].connection
  BY DEF Heartbeat, MayServe, IInv, Claimed
<1>2. Admission(u, c) /\ UNCHANGED socket
  BY <1>1, HeartbeatAdmits DEF IInv, PresenceSound, Heartbeat
<1>3. TypeOK'
  BY <1>2, Constants DEF IInv, PresenceSound, TypeOK, Admission
<1>4. Claimed'
  BY <1>2 DEF IInv, Claimed, Serves
<1> QED BY <1>2, <1>3, <1>4, AdmissionRows, AdmissionLimit DEF IInv, PresenceSound

LEMMA ClaimKeeps ==
  ASSUME IInv, NEW s \in Socket, NEW u \in User, NEW c \in Connection, ClaimSocket(s, u, c)
  PROVE  IInv'
<1>1. Admission(u, c)
  BY ClaimAdmits DEF IInv, PresenceSound
<1>2. socket' = [socket EXCEPT ![s] = [phase |-> "open", user |-> u, connection |-> c]]
  BY DEF ClaimSocket
<1>3. TypeOK'
  BY <1>1, <1>2, Constants DEF IInv, PresenceSound, TypeOK, Admission
<1>4. Claimed'
  BY <1>2 DEF IInv, PresenceSound, TypeOK, Claimed, Serves
<1> QED BY <1>1, <1>3, <1>4, AdmissionRows, AdmissionLimit DEF IInv, PresenceSound

LEMMA LeaveKeeps == ASSUME IInv, NEW u \in User, NEW c \in Connection, Leave(u, c) PROVE IInv'
<1>1. /\ lease' = [lease EXCEPT ![c] = NoLease] /\ promised' = [promised EXCEPT ![c] = 0]
      /\ announced' = 1 - announced /\ UNCHANGED <<status, enabled, socket>>
  BY DEF Leave, Advance
<1>2. TypeOK' /\ Claimed'
  BY <1>1, Constants DEF IInv, PresenceSound, TypeOK, Claimed, Serves
<1>3. RemovedHoldsNothing'
  BY <1>1 DEF IInv, PresenceSound, TypeOK, RemovedHoldsNothing, Row
<1>4. PromiseNearlyKept'
  BY <1>1, Constants DEF IInv, PresenceSound, TypeOK, PromiseNearlyKept, NoLease
<1>5. \A v \in User : Held(v)' \subseteq Held(v)
  BY <1>1 DEF IInv, PresenceSound, TypeOK, Held, Row, Expired
<1> QED BY <1>2, <1>3, <1>4, <1>5, FewerKeeps DEF IInv, PresenceSound

LEMMA CloseKeeps == ASSUME IInv, NEW s \in Socket, CloseSocket(s) PROVE IInv'
<1>1. /\ socket' = [socket EXCEPT ![s].phase = "closed", ![s].user = Nobody, ![s].connection = Nobody]
      /\ UNCHANGED <<status, enabled, lease, announced, promised>>
  BY DEF CloseSocket
<1>2. TypeOK'
  <2> DEFINE closed == [socket[s] EXCEPT !.phase = "closed", !.user = Nobody, !.connection = Nobody]
  <2>1. socket[s] \in [phase: {"new", "open", "closed"}, user: User \cup {Nobody},
                       connection: Connection \cup {Nobody}]
    BY DEF IInv, PresenceSound, TypeOK, NewSocket
  <2>2. socket' = [socket EXCEPT ![s] = closed]
    BY <1>1
  <2>3. closed \in [phase: {"open", "closed"}, user: User \cup {Nobody}, connection: Connection \cup {Nobody}]
    BY <2>1
  <2> HIDE DEF closed
  <2>4. socket' \in [Socket -> [phase: {"open", "closed"}, user: User \cup {Nobody},
                                 connection: Connection \cup {Nobody}] \cup {NewSocket}]
    BY <2>2, <2>3 DEF IInv, PresenceSound, TypeOK
  <2> QED BY <1>1, <2>4 DEF IInv, PresenceSound, TypeOK
<1>3. Claimed'
  BY <1>1 DEF IInv, PresenceSound, TypeOK, NewSocket, Claimed, Serves
<1>4. RemovedHoldsNothing' /\ PromiseNearlyKept'
  BY <1>1 DEF IInv, PresenceSound, RemovedHoldsNothing, PromiseNearlyKept, Row
<1>5. WithinLimit'
  BY <1>1, FewerKeeps DEF IInv, Held, Row, Expired
<1> QED BY <1>2, <1>3, <1>4, <1>5 DEF IInv, PresenceSound

LEMMA RemoveKeeps == ASSUME IInv, NEW u \in User, RemoveMember(u) PROVE IInv'
<1>1. /\ status' = [status EXCEPT ![u] = "removed"] /\ announced' = 1 - announced
      /\ lease' = [c \in Connection |-> IF Row(c) /\ lease[c].user = u THEN NoLease ELSE lease[c]]
      /\ promised' = [c \in Connection |-> IF Row(c) /\ lease[c].user = u THEN 0 ELSE promised[c]]
      /\ UNCHANGED <<enabled, socket>>
  BY DEF RemoveMember, AfterRemoval, Advance
<1>2. TypeOK' /\ Claimed'
  BY <1>1, Constants DEF IInv, PresenceSound, TypeOK, Claimed, Serves
<1>3. RemovedHoldsNothing'
  BY <1>1 DEF IInv, PresenceSound, TypeOK, RemovedHoldsNothing, Row
<1>4. PromiseNearlyKept'
  BY <1>1, Constants DEF IInv, PresenceSound, PromiseNearlyKept, NoLease
<1>5. \A v \in User : Held(v)' \subseteq Held(v)
  BY <1>1 DEF Held, Row, Expired
<1> QED BY <1>2, <1>3, <1>4, <1>5, FewerKeeps DEF IInv, PresenceSound

LEMMA RestoreKeeps == ASSUME IInv, NEW u \in User, RestoreMember(u) PROVE IInv'
<1>1. /\ status' = [status EXCEPT ![u] = "active"] /\ announced' = 1 - announced
      /\ UNCHANGED <<enabled, lease, socket, promised>>
  BY DEF RestoreMember, Advance
<1>2. TypeOK' /\ Claimed'
  BY <1>1 DEF IInv, PresenceSound, TypeOK, Claimed, Serves
<1>3. RemovedHoldsNothing'
  BY <1>1, RowType DEF IInv, PresenceSound, TypeOK, RemovedHoldsNothing, Row
<1>4. PromiseNearlyKept'
  BY <1>1 DEF IInv, PromiseNearlyKept
<1>5. WithinLimit'
  BY <1>1, FewerKeeps DEF IInv, Held, Row, Expired
<1> QED BY <1>2, <1>3, <1>4, <1>5 DEF IInv, PresenceSound

LEMMA SwitchKeeps == ASSUME IInv, NEW u \in User, SwitchAccount(u) PROVE IInv'
<1>1. /\ enabled' = [enabled EXCEPT ![u] = ~@]
      /\ UNCHANGED <<status, lease, announced, socket, promised>>
  BY DEF SwitchAccount
<1>2. enabled' \in [User -> BOOLEAN]
  BY <1>1, Zenon DEF IInv, PresenceSound, TypeOK
<1>3. TypeOK' /\ Claimed' /\ RemovedHoldsNothing' /\ PromiseNearlyKept'
  BY <1>1, <1>2 DEF IInv, PresenceSound, TypeOK, Claimed, Serves, RemovedHoldsNothing, PromiseNearlyKept, Row
<1>4. WithinLimit'
  BY <1>1, FewerKeeps DEF IInv, Held, Row, Expired
<1> QED BY <1>3, <1>4 DEF IInv, PresenceSound

LEMMA LessFacts == ASSUME NEW n \in Nat, NEW m \in Nat PROVE
  /\ Less(n) \in Nat /\ Less(n) <= n /\ (n <= m => Less(n) <= m)
  /\ Less(n) - Less(m) <= (IF n - m > 0 THEN n - m ELSE 0)
  /\ Less(n) > 0 => n > 0
<1> QED BY DEF Less

LEMMA TickKeeps == ASSUME IInv, Tick PROVE IInv'
<1>1. /\ lease' = [c \in Connection |->
            IF Row(c) THEN [lease[c] EXCEPT !.left = Less(@), !.window = Less(@)] ELSE lease[c]]
      /\ promised' = [c \in Connection |-> Less(promised[c])]
      /\ UNCHANGED <<status, enabled, announced, socket>>
  BY DEF Tick
<1>2. ASSUME NEW c \in Connection, Row(c)
      PROVE  /\ lease'[c] \in LeaseRow /\ lease'[c].user = lease[c].user
             /\ lease'[c].left = Less(lease[c].left)
  <2>1. lease[c] \in LeaseRow /\ lease[c].left \in 0 .. LEASE_S /\ lease[c].window \in 0 .. CLAIM_WINDOW_S
    BY <1>2, RowType DEF LeaseRow, IInv, PresenceSound
  <2>2. Less(lease[c].left) \in 0 .. LEASE_S /\ Less(lease[c].window) \in 0 .. CLAIM_WINDOW_S
    BY <2>1, LessFacts, Constants
  <2>3. lease'[c] = [lease[c] EXCEPT !.left = Less(lease[c].left), !.window = Less(lease[c].window)]
    BY <1>1, <1>2
  <2> HIDE DEF Less
  <2> QED BY <2>1, <2>2, <2>3 DEF LeaseRow
<1>3. \A c \in Connection : ~Row(c) => lease'[c] = lease[c] /\ lease[c] = NoLease
  BY <1>1 DEF Row
<1>4. \A c \in Connection : Row(c)' <=> Row(c)
  <2> SUFFICES ASSUME NEW c \in Connection, Row(c) PROVE lease'[c] # NoLease
    BY <1>3 DEF Row
  <2>1. lease'[c].user \in User
    BY <1>2, RowType DEF IInv, PresenceSound
  <2>2. NoLease.user \notin User
    BY PresenceAssumption DEF NoLease
  <2> QED BY <2>1, <2>2
<1>5. \A c \in Connection : promised'[c] \in 0 .. LEASE_S
  <2> TAKE c \in Connection
  <2>1. promised[c] \in 0 .. LEASE_S
    BY DEF IInv, PresenceSound, TypeOK
  <2>2. Less(promised[c]) \in 0 .. LEASE_S
    BY <2>1, Constants DEF Less
  <2> QED BY <1>1, <2>2
<1>6. lease' \in [Connection -> LeaseRow \cup {NoLease}] /\ promised' \in [Connection -> 0 .. LEASE_S]
  BY <1>1, <1>2, <1>3, <1>5
<1>7. TypeOK' /\ Claimed'
  BY <1>1, <1>6 DEF IInv, PresenceSound, TypeOK, Claimed, Serves
<1>8. RemovedHoldsNothing'
  BY <1>1, <1>2, <1>4 DEF IInv, PresenceSound, RemovedHoldsNothing
<1>9. PromiseNearlyKept'
  <2> SUFFICES ASSUME NEW c \in Connection PROVE promised'[c] - lease'[c].left < RENEW_S
    BY DEF PromiseNearlyKept
  <2>1. promised[c] \in Nat /\ lease[c].left \in Nat /\ promised[c] - lease[c].left < RENEW_S
    BY RowType, Constants DEF IInv, PresenceSound, TypeOK, PromiseNearlyKept
  <2>2. promised'[c] = Less(promised[c])
    BY <1>1
  <2>3. lease'[c].left = Less(lease[c].left)
    BY <1>2, <1>3 DEF NoLease, Less
  <2>4. Less(promised[c]) - Less(lease[c].left) < RENEW_S
    BY <2>1, Constants DEF Less
  <2> QED BY <2>2, <2>3, <2>4
<1>10. \A u \in User : Held(u)' \subseteq Held(u)
  <2> SUFFICES ASSUME NEW u \in User, NEW c \in Connection, Row(c)', ~Expired(c)', lease'[c].user = u
               PROVE  Row(c) /\ ~Expired(c) /\ lease[c].user = u
    BY DEF Held
  <2>1. Row(c) /\ lease[c].user = u /\ Less(lease[c].left) # 0
    BY <1>2, <1>4 DEF Expired
  <2> QED BY <2>1 DEF Expired, Less
<1> QED BY <1>7, <1>8, <1>9, <1>10, FewerKeeps DEF IInv, PresenceSound

LEMMA InitInv == Init => IInv
<1> SUFFICES ASSUME Init PROVE IInv
  OBVIOUS
<1>1. TypeOK /\ Claimed /\ RemovedHoldsNothing
  BY Constants DEF Init, TypeOK, Claimed, Serves, NewSocket, RemovedHoldsNothing, Row
<1>2. PromiseNearlyKept
  BY Constants DEF Init, PromiseNearlyKept, NoLease
<1>3. \A u \in User : Held(u) = {}
  BY DEF Init, Held, Row
<1>4. WithinLimit
  BY <1>3, FS_EmptySet, Constants DEF WithinLimit
<1> QED BY <1>1, <1>2, <1>4 DEF IInv, PresenceSound

LEMMA StepInv == IInv /\ [Next]_vars => IInv'
<1> SUFFICES ASSUME IInv, [Next]_vars PROVE IInv'
  OBVIOUS
<1>1. CASE \E u \in User, c \in Connection : Admit(u, c) \/ Leave(u, c)
  BY <1>1, AdmitKeeps, LeaveKeeps
<1>2. CASE \E s \in Socket, u \in User, c \in Connection : ClaimSocket(s, u, c)
  BY <1>2, ClaimKeeps
<1>3. CASE \E s \in Socket : Heartbeat(s) \/ CloseSocket(s)
  BY <1>3, HeartbeatKeeps, CloseKeeps
<1>4. CASE \E u \in User : RemoveMember(u) \/ RestoreMember(u) \/ SwitchAccount(u)
  BY <1>4, RemoveKeeps, RestoreKeeps, SwitchKeeps
<1>5. CASE Tick
  BY <1>5, TickKeeps
<1>6. CASE UNCHANGED vars
  <2>1. UNCHANGED <<status, enabled, lease, announced, socket, promised>>
    BY <1>6 DEF vars
  <2>2. TypeOK' /\ Claimed' /\ RemovedHoldsNothing' /\ PromiseNearlyKept'
    BY <2>1 DEF IInv, PresenceSound, TypeOK, Claimed, Serves, RemovedHoldsNothing, PromiseNearlyKept, Row
  <2>3. WithinLimit'
    BY <2>1, FewerKeeps DEF IInv, Held, Row, Expired
  <2> QED BY <2>2, <2>3 DEF IInv, PresenceSound
<1> QED BY <1>1, <1>2, <1>3, <1>4, <1>5, <1>6 DEF Next

(* Rows, promises and limits fit together through every admission, removal,     *)
(* account switch and expiry (services.py 776-816, 847-928).                    *)
THEOREM PresenceInductive == Spec => []IInv
<1> QED BY InitInv, StepInv, PTL DEF Spec

(* A removed member holds no lease, so restoring the member restores no         *)
(* connection (services.py 418-419, 724).                                       *)
THEOREM PresenceSoundHolds == Spec => []PresenceSound
<1> QED BY PresenceInductive, PTL DEF IInv

(* An answer's promise of LEASE_S is kept but for less than RENEW_S             *)
(* (services.py 776-816).                                                       *)
THEOREM PromiseNearlyKeptHolds == Spec => []PromiseNearlyKept
<1> QED BY PresenceInductive, PTL DEF IInv

(* No account ever has more live connections than the limit, also when it is    *)
(* enabled again with all its rows (services.py 784-790).                       *)
THEOREM ConnectionLimitHolds == Spec => []ConnectionLimit
<1>1. IInv => ConnectionLimit
  <2> SUFFICES ASSUME IInv, NEW u \in User PROVE Cardinality(Own(u)) <= MAX_CONNECTIONS
    BY DEF ConnectionLimit
  <2>1. Own(u) \subseteq Held(u)
    BY DEF Own, Live, Held
  <2>2. IsFiniteSet(Held(u)) /\ Cardinality(Held(u)) \in Nat /\ Cardinality(Held(u)) <= MAX_CONNECTIONS
    BY HeldFinite DEF IInv, WithinLimit
  <2>3. Cardinality(Own(u)) <= Cardinality(Held(u)) /\ Cardinality(Own(u)) \in Nat
    BY <2>1, <2>2, FS_Subset, FS_CardinalityType
  <2> QED BY <2>2, <2>3, Constants
<1> QED BY <1>1, PresenceInductive, PTL

-----------------------------------------------------------------------------
(* Sockets.  A claim makes a new socket serve, and nothing reopens a closed one. *)
LEMMA SocketMoves ==
  ASSUME IInv, [Next]_vars, NEW s \in Socket
  PROVE  \/ socket'[s] = socket[s]
         \/ socket'[s].phase = "closed"
         \/ \E u \in User, c \in Connection :
              ClaimSocket(s, u, c) /\ socket'[s] = [phase |-> "open", user |-> u, connection |-> c]
<1>1. socket \in [Socket -> [phase: {"open", "closed"}, user: User \cup {Nobody},
                            connection: Connection \cup {Nobody}] \cup {NewSocket}]
  BY DEF IInv, PresenceSound, TypeOK
<1>2. ASSUME NEW q \in Socket, NEW u \in User, NEW c \in Connection, ClaimSocket(q, u, c)
      PROVE  socket'[s] = socket[s] \/ (q = s /\ socket'[s] = [phase |-> "open", user |-> u, connection |-> c])
  <2>1. socket' = [socket EXCEPT ![q] = [phase |-> "open", user |-> u, connection |-> c]]
    BY <1>2 DEF ClaimSocket
  <2> QED BY <1>1, <2>1
<1>3. ASSUME NEW q \in Socket, CloseSocket(q)
      PROVE  socket'[s] = socket[s] \/ socket'[s].phase = "closed"
  <2>1. socket' = [socket EXCEPT ![q] =
          [socket[q] EXCEPT !.phase = "closed", !.user = Nobody, !.connection = Nobody]]
    BY <1>3 DEF CloseSocket
  <2> QED BY <1>1, <2>1 DEF NewSocket
<1>4. (\E u \in User, c \in Connection : Admit(u, c) \/ Leave(u, c)) => UNCHANGED socket
  BY DEF Admit, Leave
<1>5. (\E q \in Socket : Heartbeat(q)) \/ Tick \/ UNCHANGED vars => UNCHANGED socket
  BY DEF Heartbeat, Tick, vars
<1>6. (\E u \in User : RemoveMember(u) \/ RestoreMember(u) \/ SwitchAccount(u)) => UNCHANGED socket
  BY DEF RemoveMember, RestoreMember, SwitchAccount
<1> QED BY <1>2, <1>3, <1>4, <1>5, <1>6 DEF Next

(* A closed socket stays closed.                                               *)
LEMMA ClosedStaysClosed ==
  ASSUME IInv, [Next]_vars, NEW s \in Socket, socket[s].phase = "closed"
  PROVE  socket'[s].phase = "closed"
<1> QED BY SocketMoves DEF ClaimSocket, Fresh

(* While it is open, a socket that was replaced, or whose lease was deleted,    *)
(* never becomes the one its row names again, in any step.                      *)
LEMMA LostStaysLost ==
  ASSUME IInv, [Next]_vars, NEW s \in Socket, Replaced(s), Serves(s)'
  PROVE  Replaced(s)'
<1> DEFINE c == socket[s].connection
<1>1. socket'[s] = socket[s]
  BY SocketMoves DEF Serves, Replaced, ClaimSocket, Fresh
<1>2. c \in Connection /\ lease[c].generation # s
  <2>1. c \in Connection
    BY DEF Replaced, IInv, Claimed
  <2>2. ~Row(c) => lease[c].generation = Nobody
    BY <2>1, RowType DEF IInv, PresenceSound
  <2> QED BY <2>1, <2>2, PresenceAssumption DEF Replaced
<1> HIDE DEF c
<1> SUFFICES lease'[c].generation # s
  BY <1>1 DEF Replaced, c
<1>3. NoLease.generation # s
  BY PresenceAssumption DEF NoLease
<1>4. ASSUME NEW d \in Connection, NEW row,
             lease' = [e \in Connection |-> IF e = d THEN row ELSE IF e \in Stale(d) THEN NoLease ELSE lease[e]],
             row.generation # s \/ d # c
      PROVE  lease'[c].generation # s
  BY <1>2, <1>3, <1>4
<1>5. CASE \E u \in User, d \in Connection : Admit(u, d)
  <2>1. PICK u \in User, d \in Connection : Admit(u, d)
    BY <1>5
  <2>2. AdmittedRow(u, d).generation = lease[d].generation
    BY <2>1, AdmittedRowType DEF IInv, PresenceSound, Admit
  <2> QED BY <1>2, <1>4, <2>1, <2>2 DEF Admit, Admitted
<1>6. CASE \E t \in Socket : Heartbeat(t)
  <2>1. PICK t \in Socket : Heartbeat(t)
    BY <1>6
  <2>2. PICK u \in User, d \in Connection : u = socket[t].user /\ d = socket[t].connection
    BY <2>1 DEF Heartbeat, MayServe, IInv, Claimed
  <2>3. AdmittedRow(u, d).generation = lease[d].generation
    BY <2>1, <2>2, AdmittedRowType DEF IInv, PresenceSound, Heartbeat
  <2> QED BY <1>2, <1>4, <2>1, <2>2, <2>3 DEF Heartbeat, Admitted
<1>7. CASE \E t \in Socket, u \in User, d \in Connection : ClaimSocket(t, u, d)
  <2>1. PICK t \in Socket, u \in User, d \in Connection : ClaimSocket(t, u, d)
    BY <1>7
  <2>2. t # s
    BY <2>1 DEF ClaimSocket, Fresh, Replaced, Serves
  <2>3. AdmittedRow(u, d) \in LeaseRow
    BY <2>1, AdmittedRowType DEF ClaimSocket, IInv, PresenceSound
  <2>4. c = d => lease'[c].generation = t
    BY <1>2, <2>1, <2>3 DEF ClaimSocket, Admitted, LeaseRow
  <2>5. c # d => lease'[c] = NoLease \/ lease'[c] = lease[c]
    BY <1>2, <2>1 DEF ClaimSocket, Admitted
  <2> QED BY <1>2, <1>3, <2>2, <2>4, <2>5
<1>8. CASE \/ \E t \in Socket : CloseSocket(t)
           \/ \E u \in User, d \in Connection : Leave(u, d)
           \/ \E u \in User : RemoveMember(u) \/ RestoreMember(u) \/ SwitchAccount(u)
           \/ UNCHANGED vars
  <2>1. lease'[c] = lease[c] \/ lease'[c] = NoLease
    BY <1>2, <1>8 DEF CloseSocket, Leave, RemoveMember, RestoreMember, SwitchAccount, AfterRemoval, vars,
                      IInv, PresenceSound, TypeOK
  <2> QED BY <1>2, <1>3, <2>1
<1>9. CASE Tick
  <2>1. lease'[c].generation = lease[c].generation
    BY <1>2, <1>9, RowType DEF Tick, LeaseRow, IInv, PresenceSound
  <2> QED BY <1>2, <2>1
<1> QED BY <1>5, <1>6, <1>7, <1>8, <1>9 DEF Next

(* A claim makes the connection this socket's own.                             *)
LEMMA ClaimServes ==
  ASSUME IInv, NEW s \in Socket, NEW u \in User, NEW c \in Connection, ClaimSocket(s, u, c),
         socket'[s] = [phase |-> "open", user |-> u, connection |-> c]
  PROVE  MayServe(s)' /\ ~Replaced(s)'
<1>1. Admission(u, c)
  BY ClaimAdmits DEF IInv, PresenceSound
<1>2. /\ lease'[c] \in LeaseRow /\ lease'[c].user = u /\ lease'[c].left > 0
      /\ Present(u)'
  BY <1>1, Constants DEF Admission, Member, Present, LeaseRow
<1>3. lease'[c].generation = s
  <2>1. AdmittedRow(u, c) \in LeaseRow
    BY AdmittedRowType DEF ClaimSocket, IInv, PresenceSound
  <2> QED BY <2>1 DEF ClaimSocket, Admitted, LeaseRow
<1>4. lease'[c] # NoLease
  BY <1>2, PresenceAssumption DEF NoLease
<1> QED BY <1>2, <1>3, <1>4 DEF MayServe, Serves, Holds, Replaced, Row, Expired, Member

LEMMA StandingStep ==
  ASSUME IInv, [Next]_vars, NEW s \in Socket
  PROVE  Standing(s)' = Standing(s) \/ <<Standing(s), Standing(s)'>> \in Place!Move
<1> USE DEF Standing, Place!Move, Place!Standing
<1>1. /\ socket[s].phase \in {"new", "open", "closed"}
      /\ Replaced(s) \/ MayServe(s) => socket[s].phase = "open"
      /\ Serves(s) <=> socket[s].phase = "open"
  BY DEF IInv, PresenceSound, TypeOK, NewSocket, Replaced, MayServe, Serves
<1>2. CASE socket'[s].phase = "closed"
  BY <1>1, <1>2
<1>3. CASE socket'[s] = socket[s] /\ socket[s].phase = "open"
  <2>1. Serves(s)' /\ Standing(s)' \in {"live", "expired", "lost"}
    BY <1>3 DEF Serves
  <2>2. Replaced(s) => Replaced(s)'
    BY <2>1, LostStaysLost
  <2> QED BY <1>3, <2>1, <2>2
<1>4. CASE socket'[s] = socket[s] /\ socket[s].phase = "new"
  BY <1>4
<1>5. ASSUME NEW u \in User, NEW c \in Connection, ClaimSocket(s, u, c),
             socket'[s] = [phase |-> "open", user |-> u, connection |-> c]
      PROVE  Standing(s)' = Standing(s) \/ <<Standing(s), Standing(s)'>> \in Place!Move
  <2>1. MayServe(s)' /\ ~Replaced(s)'
    BY <1>5, ClaimServes
  <2>2. socket[s].phase = "new" /\ socket'[s].phase = "open"
    BY <1>5 DEF ClaimSocket, Fresh
  <2> QED BY <2>1, <2>2
<1> QED BY <1>1, <1>2, <1>3, <1>4, <1>5, SocketMoves

(* Whatever tabs, members and administrators do, the rows speak of a socket's   *)
(* connection as SocketStanding says: what was lost stays lost, and only what    *)
(* expired comes back (services.py 847-928).                                     *)
THEOREM KeepsStandingHolds == Spec => KeepsStanding
<1>1. Init => Place!Init
  <2> SUFFICES ASSUME Init PROVE [s \in Socket |-> Standing(s)] = [s \in Socket |-> "none"]
    BY DEF Place!Init
  <2>1. \A s \in Socket : Standing(s) = "none"
    BY DEF Init, Standing, NewSocket
  <2> QED BY <2>1
<1>2. IInv /\ [Next]_vars => [Place!Next]_([s \in Socket |-> Standing(s)])
  <2> SUFFICES ASSUME IInv, [Next]_vars PROVE Place!Next
    OBVIOUS
  <2>1. \A s \in Socket : Standing(s)' = Standing(s) \/ <<Standing(s), Standing(s)'>> \in Place!Move
    BY StandingStep
  <2>2. \A s \in Socket : Standing(s)' \in Place!Standing
    BY DEF Standing, Place!Standing
  <2> QED BY <2>1, <2>2 DEF Place!Next
<1> QED BY <1>1, <1>2, PresenceInductive, PTL DEF Spec, KeepsStanding, Place!Spec

(* A socket that was replaced, or whose lease was deleted, is never accepted    *)
(* again, in any step (services.py 847-928).                                    *)
THEOREM ReplacedStaysReplacedHolds == Spec => ReplacedStaysReplaced
<1>1. ASSUME IInv, NEW s \in Socket, Replaced(s), [Next]_vars PROVE ~MayServe(s)'
  BY <1>1, LostStaysLost DEF MayServe, Replaced, Holds
<1>2. IInv /\ [Next]_vars => (\A s \in Socket : Replaced(s) => ~MayServe(s)')
  BY <1>1
<1> QED BY <1>2, PresenceInductive, PTL DEF Spec, ReplacedStaysReplaced

LEMMA OnlineFinite == ASSUME TypeOK PROVE IsFiniteSet(Online) /\ Cardinality(Online) \in Nat
<1>1. Online \subseteq User
  BY RowType DEF Online, Live
<1>2. IsFiniteSet(Online)
  BY <1>1, PresenceAssumption, FS_Subset
<1> QED BY <1>2, FS_CardinalityType

LEMMA AdmissionCapacity ==
  ASSUME IInv, NEW u \in User, NEW c \in Connection, Admission(u, c)
  PROVE  Cardinality(Online') <= CAPACITY \/ Cardinality(Online') <= Cardinality(Online)
<1>1. Online' \subseteq Online \cup {u}
  BY DEF Online, Live, Admission, Row, Expired, Present, NoLease
<1>2. IsFiniteSet(Online) /\ Cardinality(Online) \in Nat
  BY OnlineFinite DEF IInv, PresenceSound
<1>3. CASE u \in Online
  <2>1. Online' \subseteq Online
    BY <1>1, <1>3
  <2> QED BY <1>2, <2>1, FS_Subset
<1>4. CASE u \notin Online
  <2>1. Own(u) = {}
    BY <1>4 DEF Own, Online
  <2>2. ~Row(c) \/ Expired(c)
    BY <2>1 DEF Own, Live, Admission, MayAdmit, Member
  <2>3. Cardinality(Online) < CAPACITY
    BY <2>1, <2>2 DEF Admission, MayAdmit, Room
  <2>4. IsFiniteSet(Online \cup {u}) /\ Cardinality(Online \cup {u}) = Cardinality(Online) + 1
    BY <1>2, <1>4, FS_AddElement
  <2>5. Cardinality(Online') <= Cardinality(Online \cup {u}) /\ Cardinality(Online') \in Nat
    BY <1>1, <2>4, FS_Subset, FS_CardinalityType
  <2> QED BY <1>2, <2>3, <2>4, <2>5, Constants
<1> QED BY <1>3, <1>4

(* Only enabling an account carries the number of accounts online further past  *)
(* the capacity; no admission, heartbeat or restored member does (services.py   *)
(* 784-790).                                                                    *)
THEOREM AdmissionsRespectCapacityHolds == Spec => AdmissionsRespectCapacity
<1>1. ASSUME IInv, [Next]_vars, Cardinality(Online') > CAPACITY, Cardinality(Online') > Cardinality(Online)
      PROVE  enabled' # enabled
  <2>1. IsFiniteSet(Online) /\ Cardinality(Online) \in Nat
    BY <1>1, OnlineFinite DEF IInv, PresenceSound
  <2>2. Cardinality(Online') \in Nat
    <3>1. IInv'
      BY <1>1, StepInv
    <3>2. IsFiniteSet(Online')
      BY <3>1, PresenceAssumption, FS_Subset DEF IInv, PresenceSound, TypeOK, Online, Live, Row, LeaseRow
    <3> QED BY <3>2, FS_CardinalityType
  <2>3. ASSUME Online' \subseteq Online PROVE FALSE
    <3>1. Cardinality(Online') <= Cardinality(Online)
      BY <2>1, <2>3, FS_Subset
    <3> QED BY <1>1, <2>1, <2>2, <3>1
  <2>4. ASSUME NEW u \in User, NEW c \in Connection, Admission(u, c) PROVE FALSE
    <3>1. Cardinality(Online') <= CAPACITY \/ Cardinality(Online') <= Cardinality(Online)
      BY <1>1, <2>4, AdmissionCapacity
    <3> QED BY <1>1, <2>1, <2>2, <3>1, Constants
  <2>5. CASE \E u \in User, c \in Connection : Admit(u, c)
    BY <1>1, <2>4, <2>5, AdmitAdmits DEF IInv, PresenceSound
  <2>6. CASE \E s \in Socket, u \in User, c \in Connection : ClaimSocket(s, u, c)
    BY <1>1, <2>4, <2>6, ClaimAdmits DEF IInv, PresenceSound
  <2>7. CASE \E s \in Socket : Heartbeat(s)
    <3>1. PICK s \in Socket : Heartbeat(s)
      BY <2>7
    <3>2. socket[s].user \in User /\ socket[s].connection \in Connection
      BY <1>1, <3>1 DEF Heartbeat, MayServe, IInv, Claimed
    <3> QED BY <1>1, <2>4, <3>1, <3>2, HeartbeatAdmits DEF IInv, PresenceSound
  <2>8. CASE (\E u \in User, c \in Connection : Leave(u, c)) \/ (\E s \in Socket : CloseSocket(s)) \/ UNCHANGED vars
    <3>1. UNCHANGED <<status, enabled>> /\ \A d \in Connection : lease'[d] \in {lease[d], NoLease}
      BY <1>1, <2>8 DEF Leave, CloseSocket, vars, IInv, PresenceSound, TypeOK
    <3>2. Online' \subseteq Online
      BY <3>1 DEF Online, Live, Row, Expired, Present
    <3> QED BY <2>3, <3>2
  <2>9. CASE \E u \in User : RemoveMember(u)
    <3>1. /\ UNCHANGED enabled /\ (\A d \in Connection : lease'[d] \in {lease[d], NoLease})
          /\ \A v \in User : status'[v] = "active" => status[v] = "active"
      BY <1>1, <2>9 DEF RemoveMember, AfterRemoval, IInv, PresenceSound, TypeOK
    <3>2. \A d \in Connection : Row(d) => lease[d].user \in User
      BY <1>1, RowType DEF IInv, PresenceSound
    <3>3. Online' \subseteq Online
      BY <3>1, <3>2 DEF Online, Live, Row, Expired, Present
    <3> QED BY <2>3, <3>3
  <2>10. CASE \E u \in User : RestoreMember(u)
    <3>1. UNCHANGED <<enabled, lease>>
      BY <2>10 DEF RestoreMember
    <3>2. \A d \in Connection : Row(d) => status[lease[d].user] = "active"
      BY <1>1 DEF IInv, PresenceSound, RemovedHoldsNothing
    <3>3. Online' \subseteq Online
      BY <3>1, <3>2 DEF Online, Live, Row, Expired, Present
    <3> QED BY <2>3, <3>3
  <2>11. CASE \E u \in User : SwitchAccount(u)
    <3>1. PICK u \in User : enabled' = [enabled EXCEPT ![u] = ~@]
      BY <2>11 DEF SwitchAccount
    <3>2. enabled'[u] = ~enabled[u]
      BY <1>1, <3>1, Zenon DEF IInv, PresenceSound, TypeOK
    <3> QED BY <3>2, Zenon
  <2>12. CASE Tick
    <3>1. UNCHANGED <<status, enabled>> /\ \A d \in Connection : Row(d)' => Row(d)
      BY <2>12 DEF Tick, Row
    <3>2. \A d \in Connection : Row(d) => lease'[d].user = lease[d].user /\ lease'[d].left = Less(lease[d].left)
      BY <1>1, <2>12, RowType DEF Tick, LeaseRow, IInv, PresenceSound
    <3>3. Online' \subseteq Online
      BY <3>1, <3>2 DEF Online, Live, Expired, Present, Less
    <3> QED BY <2>3, <3>3
  <2> QED BY <1>1, <2>5, <2>6, <2>7, <2>8, <2>9, <2>10, <2>11, <2>12 DEF Next
<1>2. IInv /\ [Next]_vars =>
        (Cardinality(Online') > CAPACITY /\ Cardinality(Online') > Cardinality(Online) => enabled' # enabled)
  BY <1>1
<1> QED BY <1>2, PresenceInductive, PTL DEF Spec, AdmissionsRespectCapacity
=============================================================================
