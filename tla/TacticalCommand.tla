--------------------------- MODULE TacticalCommand ---------------------------
(***************************************************************************)
(* The commands of an organization and of its war board: join, review, role, *)
(* remove and restore; reports, their revisions and the forces drawn from     *)
(* them (backend/TacticalCollaboration/services.py).  Every command is one    *)
(* transaction under the organization's row lock, so one action; a refused    *)
(* one changes nothing and is no action here.  An edit carries the version    *)
(* its author saw and is refused when that is no longer the row's, so the     *)
(* edits below are edits of current rows.                                     *)
(***************************************************************************)
EXTENDS Integers, Sequences, FiniteSets

CONSTANTS
  User, Founder,
  Time,          \* observation times, a set of naturals
  MaxReports, MaxForces, MaxVersion,   \* bounds of the model
  None           \* no force, no report

ASSUME CommandAssumption ==
  /\ Founder \in User /\ Time \subseteq Nat
  /\ {MaxReports, MaxForces, MaxVersion} \subseteq Nat \ {0} /\ None \notin Nat

VARIABLES
  member,    \* Membership rows: role and status, or no row
  pending,   \* JoinApplication rows still to be reviewed, by applicant
  report,    \* Report rows, oldest first
  force,     \* Force rows, oldest first
  adopted    \* ForceSource rows: the revisions confirmed into a force

server == <<member, pending, report, force, adopted>>

ReportId == DOMAIN report
ForceId == DOMAIN force
ReportRow ==
  [author: User, kind: {"fleet", "system_count", "fleet_intel"}, version: 1 .. MaxVersion, at: Time,
   linked: 1 .. MaxForces \cup {None}, status: {"pending", "confirmed", "corrected", "withdrawn"}]
ForceRow ==
  [version: 1 .. MaxVersion, at: Time, side: {"enemy", "friendly"}, archived: BOOLEAN,
   source: 1 .. MaxReports \cup {None}]
CommandTypeOK ==
  /\ member \in [User -> {"none", "removed", "scout", "commander", "founder"}]
  /\ pending \in [User -> 0 .. 1]
  /\ report \in Seq(ReportRow) /\ Len(report) <= MaxReports
  /\ force \in Seq(ForceRow) /\ Len(force) <= MaxForces
  /\ adopted \subseteq [report: 1 .. MaxReports, version: 1 .. MaxVersion]

CommandInit ==
  /\ member = [u \in User |-> IF u = Founder THEN "founder" ELSE "none"]
  /\ pending = [u \in User |-> 0]
  /\ report = <<>> /\ force = <<>> /\ adopted = {}

(***************************************************************************)
(* Helpers.  An operator named Bad... is a plausible mistake in the one    *)
(* after it, used only to show that a property notices the mistake.        *)
(***************************************************************************)
Active(u) == member[u] \in {"scout", "commander", "founder"}
Commands(u) == member[u] \in {"commander", "founder"}
(* A scout reports how many people are in a system, and nothing else.       *)
MayReport(u, kind) == Active(u) /\ (member[u] = "scout" => kind = "system_count")
Live(f) == f \in ForceId /\ ~force[f].archived
LiveEnemy(f) == Live(f) /\ force[f].side = "enemy"
Countable(f) == force[f].version < MaxVersion   \* within the model's bound

(* is_current_fleet_source: the estimate follows this report's corrections.  *)
Follows(r) ==
  report[r].linked # None /\ LiveEnemy(report[r].linked) /\ force[report[r].linked].source = r
Estimate(row, at, source) == [row EXCEPT !.at = at, !.source = source, !.version = @ + 1]
Adopted(r) == \E a \in adopted : a.report = r

(***************************************************************************)
(* Members                                                                 *)
(***************************************************************************)
MayJoin(u) == member[u] = "none"
Join(u) ==
  /\ MayJoin(u) /\ pending[u] = 0
  /\ pending' = [pending EXCEPT ![u] = 1]
  /\ UNCHANGED <<member, report, force, adopted>>
Review(u) ==
  /\ pending[u] > 0 /\ pending' = [pending EXCEPT ![u] = @ - 1]
  /\ \/ member[u] = "none" /\ member' = [member EXCEPT ![u] = "scout"]
     \/ UNCHANGED member
  /\ UNCHANGED <<report, force, adopted>>
SetMember(u, from, to) ==
  /\ u # Founder /\ member[u] \in from /\ member' = [member EXCEPT ![u] = to]
  /\ UNCHANGED <<pending, report, force, adopted>>
Promote(u) == SetMember(u, {"scout"}, "commander")
Demote(u) == SetMember(u, {"commander"}, "scout")
Remove(u) == SetMember(u, {"scout", "commander"}, "removed")
Restore(u) == SetMember(u, {"removed"}, "scout")

(***************************************************************************)
(* Reports                                                                 *)
(***************************************************************************)
NewReport(u, kind, at, linked) ==
  [author |-> u, kind |-> kind, version |-> 1, at |-> at, linked |-> linked, status |-> "pending"]
NewForce(side, at, source) ==
  [version |-> 1, at |-> at, side |-> side, archived |-> FALSE, source |-> source]

CreateReport(u, kind, at) ==
  /\ kind # "fleet_intel" /\ MayReport(u, kind) /\ Len(report) < MaxReports
  /\ report' = Append(report, NewReport(u, kind, at, None))
  /\ UNCHANGED <<member, pending, force, adopted>>

(* create_fleet_observation: the time of the observation, not its arrival,   *)
(* decides whether it becomes the estimate; at equal times the newer does.    *)
BadTakesOver(f, at) == TRUE
TakesOver(f, at) == at >= force[f].at
CreateFleet(u, f, at) ==
  LET id == Len(report) + 1
      new == f \notin ForceId IN
  /\ MayReport(u, "fleet_intel") /\ id <= MaxReports
  /\ IF new THEN f = Len(force) + 1 /\ f <= MaxForces ELSE LiveEnemy(f) /\ Countable(f)
  /\ report' = Append(report, NewReport(u, "fleet_intel", at, f))
  /\ force' = IF new THEN Append(force, NewForce("enemy", at, id))
              ELSE IF TakesOver(f, at) THEN [force EXCEPT ![f] = Estimate(@, at, id)] ELSE force
  /\ UNCHANGED <<member, pending, adopted>>

Editable(u, r) == Active(u) /\ report[r].status # "withdrawn" /\ report[r].version < MaxVersion
(* report.update, update_fleet_observation: only the author corrects a report. *)
UpdateReport(u, r, at) ==
  /\ Editable(u, r) /\ report[r].author = u /\ MayReport(u, report[r].kind)
  /\ Follows(r) => at >= force[report[r].linked].at /\ Countable(report[r].linked)
  /\ report' = [report EXCEPT ![r].at = at, ![r].version = @ + 1,
                              ![r].status = IF Adopted(r) THEN "corrected" ELSE @]
  /\ force' = IF Follows(r) THEN [force EXCEPT ![report[r].linked] = Estimate(@, at, r)] ELSE force
  /\ UNCHANGED <<member, pending, adopted>>

(* report.move and report.withdraw of a count, by its author or a commander.  *)
AdjustReport(u, r, status) ==
  /\ Editable(u, r) /\ report[r].kind = "system_count"
  /\ report[r].author = u \/ Commands(u)
  /\ report' = [report EXCEPT ![r].version = @ + 1, ![r].status = status]
  /\ UNCHANGED <<member, pending, force, adopted>>
MoveReport(u, r) == AdjustReport(u, r, report[r].status)
WithdrawReport(u, r) == AdjustReport(u, r, "withdrawn")

(* report.confirm: a revision of a fleet report becomes a force, or replaces  *)
(* the values of one; the force then follows nobody's corrections.            *)
BadConfirmed(f, at) == [force[f] EXCEPT !.at = at, !.version = @ + 1]
Confirmed(f, at) == Estimate(force[f], at, None)
ConfirmReport(u, r, f) ==
  LET revision == [report |-> r, version |-> report[r].version] IN
  /\ Commands(u) /\ report[r].kind = "fleet" /\ revision \notin adopted
  /\ \/ /\ LiveEnemy(f) /\ Countable(f) /\ force' = [force EXCEPT ![f] = Confirmed(f, report[r].at)]
     \/ /\ f = Len(force) + 1 /\ f <= MaxForces /\ ~Adopted(r)
        /\ force' = Append(force, NewForce("enemy", report[r].at, None))
  /\ adopted' = adopted \cup {revision}
  /\ report' = [report EXCEPT ![r].status = "confirmed"]
  /\ UNCHANGED <<member, pending>>

(***************************************************************************)
(* Forces, edited by commanders                                            *)
(***************************************************************************)
CreateForce(u, side, at) ==
  /\ Commands(u) /\ Len(force) < MaxForces
  /\ force' = Append(force, NewForce(side, at, None))
  /\ UNCHANGED <<member, pending, report, adopted>>
EditForce(u, f, row) ==
  /\ Commands(u) /\ Live(f) /\ Countable(f)
  /\ force' = [force EXCEPT ![f] = [row EXCEPT !.version = row.version + 1]]
  /\ UNCHANGED <<member, pending, report, adopted>>
UpdateForce(u, f, side, at) ==
  EditForce(u, f, [force[f] EXCEPT !.at = at, !.side = side, !.source = None])
(* A move changes the place alone: the source goes on following its author.  *)
MoveForce(u, f) == EditForce(u, f, force[f])
ArchiveForce(u, f) == EditForce(u, f, [force[f] EXCEPT !.archived = TRUE])

AdminCommand == \E u \in User : Join(u) \/ Review(u) \/ Promote(u) \/ Demote(u) \/ Remove(u) \/ Restore(u)
ReportCommand ==
  \E u \in User :
    \/ \E at \in Time, kind \in {"fleet", "system_count"} : CreateReport(u, kind, at)
    \/ \E at \in Time, f \in 1 .. MaxForces : CreateFleet(u, f, at)
    \/ \E r \in ReportId :
         \/ \E at \in Time : UpdateReport(u, r, at)
         \/ MoveReport(u, r) \/ WithdrawReport(u, r)
         \/ \E f \in 1 .. MaxForces : ConfirmReport(u, r, f)
ForceCommand ==
  \E u \in User :
    \/ \E side \in {"enemy", "friendly"}, at \in Time :
         CreateForce(u, side, at) \/ \E f \in ForceId : UpdateForce(u, f, side, at)
    \/ \E f \in ForceId : MoveForce(u, f) \/ ArchiveForce(u, f)
CommandNext == AdminCommand \/ ReportCommand \/ ForceCommand

(***************************************************************************)
(* Properties                                                              *)
(***************************************************************************)
(* A live force with a source shows exactly what that report says now, and   *)
(* that report is a named-fleet observation of this force, however           *)
(* corrections, newer observations, confirmations, edits and archiving of    *)
(* several members come one after another (models.py 122-124).               *)
SourcesAgree ==
  \A f \in ForceId : force[f].source # None =>
    LET r == force[f].source IN
    /\ r \in ReportId /\ report[r].kind = "fleet_intel" /\ report[r].linked = f
    /\ force[f].side = "enemy"
    /\ ~force[f].archived => force[f].at = report[r].at

(* Observations never take the estimate back in time, in whatever order they *)
(* arrive or are corrected: only a commander's own edit does, and then the    *)
(* force follows no report (services.py 522, 540).                           *)
EstimateForward ==
  [][\A f \in ForceId : force'[f].at < force[f].at => force'[f].source = None]_server

(* Whoever has an application under review is in no way a member, removed    *)
(* ones included: no review can bring a removed member back.                 *)
NobodyAppliesTwice == \A u \in User : pending[u] > 0 => member[u] = "none"
=============================================================================
