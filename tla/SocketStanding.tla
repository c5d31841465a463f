--------------------------- MODULE SocketStanding ---------------------------
(***************************************************************************)
(* What the database may say, over time, of the connection a tactical      *)
(* WebSocket claimed: the contract between services.py, which decides it   *)
(* (TacticalPresence), and realtime.py, which asks for it before every     *)
(* read and every send (TacticalRealtime).                                 *)
(***************************************************************************)
CONSTANT Socket

VARIABLE standing
  \* "none": nothing claimed yet; "live": the connection is the socket's own;
  \* "expired": its row still names the socket, but the lease ran out or the
  \* account is disabled; "lost": another socket claimed the connection or its
  \* row was deleted; "closed": the socket is gone

Standing == {"none", "live", "expired", "lost", "closed"}

(* An expired connection may come back to life.  A lost one never does.     *)
Move ==
  {<<"none", "live">>, <<"live", "expired">>, <<"expired", "live">>,
   <<"live", "lost">>, <<"expired", "lost">>}
    \cup {<<from, "closed">> : from \in Standing}

Init == standing = [s \in Socket |-> "none"]

(* A removed membership or a second that passes moves many sockets at once. *)
Next ==
  /\ standing' \in [Socket -> Standing]
  /\ \A s \in Socket : standing'[s] = standing[s] \/ <<standing[s], standing'[s]>> \in Move

Spec == Init /\ [][Next]_standing
=============================================================================
