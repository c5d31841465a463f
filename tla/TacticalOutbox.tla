--------------------------- MODULE TacticalOutbox ---------------------------
(***************************************************************************)
(* A member's report on its way to the server: the draft in the browser's    *)
(* outbox (front-codex/src/utils/tacticalOutbox.js), the tabs that send it    *)
(* over a network that loses and delays (useTacticalSession.js), and the      *)
(* receipts by which the server recognises a retry (services.py), composed    *)
(* with everything else that TacticalCommand lets happen to the board.        *)
(***************************************************************************)
EXTENDS TacticalCommand

CONSTANTS
  Author,      \* whose draft it is
  DraftTime,   \* observation times the draft may have
  Tab,         \* tabs of one browser, sharing localStorage
  MaxOrphans   \* bound: requests given up by their tab and still under way

ASSUME OutboxAssumption == Author \in User /\ DraftTime \subseteq Time /\ MaxOrphans \in Nat

VARIABLES
  draft,     \* what is sent, and the status of the entry in localStorage
  fate,      \* history: why there is no entry
  waiting,   \* the tabs that wait for an answer
  orphans,   \* requests whose tab no longer waits
  receipt,   \* whether CommandReceipt has this request
  made       \* history: reports this request has created

client == <<draft, fate, waiting, orphans>>
vars == <<server, client, receipt, made>>

Answer == {"ok", "conflict", "busy", "refused"}
NoDraft == [kind |-> "fleet", at |-> 0, force |-> None, version |-> 0, status |-> "none"]
TypeOK ==
  /\ CommandTypeOK
  /\ draft \in [kind: {"fleet", "system_count", "fleet_intel"}, at: Time, force: 1 .. MaxForces \cup {None},
                version: 0 .. MaxVersion, status: {"none", "queued", "sending", "conflict", "blocked"}] \cup {NoDraft}
  /\ fate \in {"unwritten", "kept", "sent", "discarded"}
  /\ waiting \subseteq Tab
  /\ orphans \in 0 .. MaxOrphans /\ receipt \in BOOLEAN /\ made \in 0 .. MaxReports

Init ==
  /\ CommandInit
  /\ draft = NoDraft /\ fate = "unwritten"
  /\ waiting = {} /\ orphans = 0
  /\ receipt = FALSE /\ made = 0

Kept == draft.status # "none"
Status(status) == draft' = IF Kept THEN [draft EXCEPT !.status = status] ELSE draft

(***************************************************************************)
(* The server's answer to this request.  command() asks first for the       *)
(* membership and the lease, then for the receipt, and only then for the      *)
(* rate, the role and the versions.                                          *)
(***************************************************************************)
BadKnown == FALSE
Known == receipt
Target(request) == IF request.force = None THEN Len(force) + 1 ELSE request.force
Stale(request) ==
  request.force # None /\ (force[request.force].archived \/ force[request.force].version # request.version)
BadConflicts(request) == Active(Author) /\ Stale(request)
Conflicts(request) == Active(Author) /\ ~Known /\ MayReport(Author, request.kind) /\ Stale(request)
Create(request) ==
  IF request.kind = "fleet_intel" THEN CreateFleet(Author, Target(request), request.at)
  ELSE CreateReport(Author, request.kind, request.at)

Serve(request, answer) ==
  \/ /\ answer = "ok" /\ Active(Author) /\ Known
     /\ UNCHANGED <<server, receipt, made>>
  \/ /\ answer = "ok" /\ ~Known /\ ~Stale(request)
     /\ Create(request) /\ receipt' = TRUE /\ made' = made + 1
  \/ /\ answer = "conflict" /\ Conflicts(request)
     /\ UNCHANGED <<server, receipt, made>>
  \/ /\ answer = "refused" /\ (Known => ~Active(Author))    \* removed, throttled, full, forbidden
     /\ UNCHANGED <<server, receipt, made>>
  \/ /\ answer = "busy"                                     \* lease expired, or a failing server
     /\ UNCHANGED <<server, receipt, made>>

(***************************************************************************)
(* The browser                                                             *)
(***************************************************************************)
(* queueReportOutbox keeps the exact content under its request id.           *)
Queue ==
  /\ fate = "unwritten" /\ fate' = "kept"
  /\ \E at \in DraftTime :
       \/ \E kind \in {"fleet", "system_count", "fleet_intel"} :
            draft' = [NoDraft EXCEPT !.kind = kind, !.at = at, !.status = "queued"]
       \/ \E f \in ForceId :
            /\ LiveEnemy(f)
            /\ draft' = [NoDraft EXCEPT !.kind = "fleet_intel", !.at = at, !.force = f,
                                        !.version = force[f].version, !.status = "queued"]
  /\ UNCHANGED <<server, waiting, orphans, receipt, made>>

(* retryReportOutbox, on the user's click in any tab.                        *)
Retry(t) ==
  /\ t \notin waiting /\ draft.status \in {"queued", "sending"}
  /\ Status("sending") /\ waiting' = waiting \cup {t}
  /\ UNCHANGED <<server, fate, orphans, receipt, made>>

(* The answer settles the draft, if there still is one.                      *)
Gone(answer) == answer = "ok"
After == [conflict |-> "conflict", busy |-> "queued", refused |-> "blocked"]
Settle(answer) ==
  IF Gone(answer) THEN Status("none") /\ fate' = IF Kept THEN "sent" ELSE fate
  ELSE Status(After[answer]) /\ UNCHANGED fate
(* Content never changes, so a request under way carries what was queued.    *)
Exchange(t) ==
  /\ t \in waiting
  /\ \E answer \in Answer : Serve(draft, answer) /\ Settle(answer)
  /\ waiting' = waiting \ {t} /\ UNCHANGED orphans

(* The 15 second deadline, a lost answer, or another board selected in the   *)
(* meantime: no status, so the draft may be retried; the request itself may   *)
(* be lost, or be served later.                                              *)
GiveUp(t) ==
  /\ t \in waiting /\ waiting' = waiting \ {t} /\ Status("queued")
  /\ orphans' \in {orphans} \cup (IF orphans < MaxOrphans THEN {orphans + 1} ELSE {})
  /\ UNCHANGED <<server, fate, receipt, made>>
ServeOrphan ==
  /\ orphans > 0 /\ orphans' = orphans - 1
  /\ \E answer \in Answer : Serve(draft, answer)
  /\ UNCHANGED <<draft, fate, waiting>>

(* The user drops the draft, or it is a day old.                             *)
Discard ==
  /\ Kept /\ Status("none") /\ fate' = "discarded"
  /\ UNCHANGED <<server, waiting, orphans, receipt, made>>

Next ==
  \/ CommandNext /\ UNCHANGED <<client, receipt, made>>
  \/ Queue \/ Discard \/ ServeOrphan
  \/ \E t \in Tab : Retry(t) \/ Exchange(t) \/ GiveUp(t)

Spec == Init /\ [][Next]_vars

(***************************************************************************)
(* Properties                                                              *)
(***************************************************************************)
(* The board's rows agree with each other, whatever was sent and retried:    *)
(* estimates with their sources (SourcesAgree), applications with memberships *)
(* (NobodyAppliesTwice).                                                      *)
Consistent == TypeOK /\ SourcesAgree /\ NobodyAppliesTwice

(* However often, from however many tabs and however late a draft is sent,   *)
(* its report is created at most once; and a draft leaves the outbox as sent  *)
(* only if its report exists.                                                *)
SentOnce == made <= 1 /\ (fate = "sent" => made = 1)

(* A draft put aside because it conflicts was not applied by an earlier       *)
(* attempt whose answer was lost, and no request still under way applies it:  *)
(* the user may safely write it anew.                                        *)
ConflictIsFinal == draft.status = "conflict" => made = 0
=============================================================================
