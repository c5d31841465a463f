------------------------ MODULE TacticalOutboxProofs ------------------------
(* Theorems of TacticalOutbox and of the commands it is composed with, for any  *)
(* members, observation times, tabs and bounds.                                 *)
EXTENDS TacticalOutbox, SequenceTheorems, TLAPS

Board == CommandTypeOK /\ SourcesAgree /\ NobodyAppliesTwice

(* What no command does to a force: take it away, reopen it, set its version or *)
(* its estimate back.                                                           *)
ForcesGrow ==
  \A f \in ForceId :
    /\ f \in DOMAIN force' /\ force'[f].version >= force[f].version
    /\ force[f].archived => force'[f].archived
    /\ force'[f].at < force[f].at => force'[f].source = None
BoardKept == Board' /\ ForcesGrow

LEMMA Types ==
  ASSUME CommandTypeOK
  PROVE  /\ Len(report) \in Nat /\ ReportId = 1 .. Len(report)
         /\ Len(force) \in Nat /\ ForceId = 1 .. Len(force)
         /\ \A r \in ReportId : report[r] \in ReportRow
         /\ \A f \in ForceId : force[f] \in ForceRow
         /\ ForceId \subseteq 1 .. MaxForces /\ ReportId \subseteq 1 .. MaxReports
<1>1. report \in Seq(ReportRow) /\ force \in Seq(ForceRow) /\ Len(report) <= MaxReports /\ Len(force) <= MaxForces
  BY DEF CommandTypeOK
<1>2. Len(report) \in Nat /\ DOMAIN report = 1 .. Len(report) /\ Len(force) \in Nat /\ DOMAIN force = 1 .. Len(force)
  BY <1>1, LenProperties
<1>3. (\A r \in 1 .. Len(report) : report[r] \in ReportRow) /\ (\A f \in 1 .. Len(force) : force[f] \in ForceRow)
  BY <1>1, ElementOfSeq
<1> QED BY <1>1, <1>2, <1>3, CommandAssumption DEF ReportId, ForceId

LEMMA ReportSet ==
  ASSUME CommandTypeOK, NEW r \in ReportId, NEW row \in ReportRow, report' = [report EXCEPT ![r] = row]
  PROVE  /\ report' \in Seq(ReportRow) /\ Len(report') <= MaxReports /\ DOMAIN report' = ReportId
         /\ report'[r] = row /\ \A q \in ReportId : q # r => report'[q] = report[q]
<1>1. report \in Seq(ReportRow) /\ r \in 1 .. Len(report)
  BY Types DEF CommandTypeOK
<1>2. report' \in Seq(ReportRow) /\ Len(report') = Len(report)
      /\ \A q \in 1 .. Len(report) : report'[q] = IF q = r THEN row ELSE report[q]
  BY <1>1, ExceptSeq
<1>3. DOMAIN report' = 1 .. Len(report')
  BY <1>2, LenProperties
<1> QED BY <1>1, <1>2, <1>3, Types DEF CommandTypeOK

LEMMA ForceSet ==
  ASSUME CommandTypeOK, NEW f \in ForceId, NEW row \in ForceRow, force' = [force EXCEPT ![f] = row]
  PROVE  /\ force' \in Seq(ForceRow) /\ Len(force') <= MaxForces /\ DOMAIN force' = ForceId
         /\ force'[f] = row /\ \A g \in ForceId : g # f => force'[g] = force[g]
<1>1. force \in Seq(ForceRow) /\ f \in 1 .. Len(force)
  BY Types DEF CommandTypeOK
<1>2. force' \in Seq(ForceRow) /\ Len(force') = Len(force)
      /\ \A g \in 1 .. Len(force) : force'[g] = IF g = f THEN row ELSE force[g]
  BY <1>1, ExceptSeq
<1>3. DOMAIN force' = 1 .. Len(force')
  BY <1>2, LenProperties
<1> QED BY <1>1, <1>2, <1>3, Types DEF CommandTypeOK

LEMMA ReportAdded ==
  ASSUME CommandTypeOK, NEW row \in ReportRow, report' = Append(report, row), Len(report) < MaxReports
  PROVE  /\ report' \in Seq(ReportRow) /\ Len(report') <= MaxReports
         /\ DOMAIN report' = ReportId \cup {Len(report) + 1} /\ Len(report) + 1 \notin ReportId
         /\ report'[Len(report) + 1] = row /\ \A q \in ReportId : report'[q] = report[q]
<1>1. report \in Seq(ReportRow)
  BY DEF CommandTypeOK
<1>2. report' \in Seq(ReportRow) /\ Len(report') = Len(report) + 1 /\ report'[Len(report) + 1] = row
      /\ \A q \in 1 .. Len(report) : report'[q] = report[q]
  BY <1>1, AppendProperties
<1>3. DOMAIN report' = 1 .. Len(report')
  BY <1>2, LenProperties
<1> QED BY <1>2, <1>3, Types, CommandAssumption

LEMMA ForceAdded ==
  ASSUME CommandTypeOK, NEW row \in ForceRow, force' = Append(force, row), Len(force) < MaxForces
  PROVE  /\ force' \in Seq(ForceRow) /\ Len(force') <= MaxForces
         /\ DOMAIN force' = ForceId \cup {Len(force) + 1} /\ Len(force) + 1 \notin ForceId
         /\ force'[Len(force) + 1] = row /\ \A g \in ForceId : force'[g] = force[g]
<1>1. force \in Seq(ForceRow)
  BY DEF CommandTypeOK
<1>2. force' \in Seq(ForceRow) /\ Len(force') = Len(force) + 1 /\ force'[Len(force) + 1] = row
      /\ \A g \in 1 .. Len(force) : force'[g] = force[g]
  BY <1>1, AppendProperties
<1>3. DOMAIN force' = 1 .. Len(force')
  BY <1>2, LenProperties
<1> QED BY <1>2, <1>3, Types, CommandAssumption

LEMMA Numbers ==
  ASSUME CommandTypeOK
  PROVE  \A f \in ForceId : force[f].version \in Nat /\ force[f].at \in Nat
<1> SUFFICES ASSUME NEW f \in ForceId PROVE force[f].version \in Nat /\ force[f].at \in Nat
  OBVIOUS
<1>1. force[f] \in ForceRow
  BY Types
<1>2. force[f].version \in 1 .. MaxVersion /\ force[f].at \in Time
  BY <1>1 DEF ForceRow
<1>3. MaxVersion \in Nat /\ Time \subseteq Nat
  BY CommandAssumption
<1>4. \A n \in 1 .. MaxVersion : n \in Nat
  BY <1>3
<1> QED BY <1>2, <1>3, <1>4

LEMMA SameForces == ASSUME CommandTypeOK, UNCHANGED force PROVE ForcesGrow
<1>1. \A f \in ForceId : force[f].version \in Nat /\ force[f].at \in Nat
  BY Numbers
<1> QED BY <1>1 DEF ForcesGrow, ForceId

LEMMA SourceShown ==
  ASSUME SourcesAgree, NEW f \in ForceId, force[f].source # None
  PROVE  /\ force[f].source \in ReportId /\ report[force[f].source].kind = "fleet_intel"
         /\ report[force[f].source].linked = f /\ force[f].side = "enemy"
         /\ ~force[f].archived => force[f].at = report[force[f].source].at
BY DEF SourcesAgree

-----------------------------------------------------------------------------
LEMMA AdminKeeps == ASSUME Board, AdminCommand PROVE BoardKept
<1>1. UNCHANGED <<report, force, adopted>>
  BY DEF AdminCommand, Join, Review, Promote, Demote, Remove, Restore, SetMember
<1>2. PICK u \in User : Join(u) \/ Review(u) \/ Promote(u) \/ Demote(u) \/ Remove(u) \/ Restore(u)
  BY DEF AdminCommand
<1>3. (CommandTypeOK /\ NobodyAppliesTwice)'
  <2>1. CASE Join(u)
    BY <1>1, <2>1 DEF Join, MayJoin, Board, CommandTypeOK, NobodyAppliesTwice
  <2>2. CASE Review(u)
    <3>1. pending[u] = 1 /\ pending' = [pending EXCEPT ![u] = 0]
      <4>1. pending[u] \in 0 .. 1 /\ pending[u] > 0 /\ pending' = [pending EXCEPT ![u] = pending[u] - 1]
        BY <2>2 DEF Review, Board, CommandTypeOK
      <4>2. pending[u] = 1 /\ pending[u] - 1 = 0
        BY <4>1
      <4> QED BY <4>1, <4>2
    <3> QED BY <1>1, <2>2, <3>1 DEF Review, Board, CommandTypeOK, NobodyAppliesTwice
  <2>3. CASE Promote(u) \/ Demote(u) \/ Remove(u) \/ Restore(u)
    BY <1>1, <2>3 DEF Promote, Demote, Remove, Restore, SetMember, Board, CommandTypeOK, NobodyAppliesTwice
  <2> QED BY <1>2, <2>1, <2>2, <2>3
<1>4. SourcesAgree' /\ ForcesGrow
  BY <1>1, SameForces DEF Board, SourcesAgree, ForceId, ReportId
<1> QED BY <1>3, <1>4 DEF BoardKept, Board

LEMMA CreateReportKeeps ==
  ASSUME Board, NEW u \in User, NEW kind \in {"fleet", "system_count"}, NEW at \in Time, CreateReport(u, kind, at)
  PROVE  BoardKept
<1>1. NewReport(u, kind, at, None) \in ReportRow
  BY CommandAssumption DEF NewReport, ReportRow
<1>2. /\ Len(report) < MaxReports /\ report' = Append(report, NewReport(u, kind, at, None))
      /\ UNCHANGED <<member, pending, force, adopted>>
  BY DEF CreateReport
<1>3. /\ report' \in Seq(ReportRow) /\ Len(report') <= MaxReports
      /\ DOMAIN report' = ReportId \cup {Len(report) + 1} /\ \A q \in ReportId : report'[q] = report[q]
  BY <1>1, <1>2, ReportAdded DEF Board
<1>4. (CommandTypeOK /\ NobodyAppliesTwice)'
  BY <1>2, <1>3 DEF Board, CommandTypeOK, NobodyAppliesTwice
<1>5. SourcesAgree' /\ ForcesGrow
  BY <1>2, <1>3, SameForces DEF Board, SourcesAgree, ForceId, ReportId
<1> QED BY <1>4, <1>5 DEF BoardKept, Board

(* An observation becomes the estimate or leaves the force alone.               *)
LEMMA CreateFleetKeeps ==
  ASSUME Board, NEW u \in User, NEW at \in Time, NEW f \in 1 .. MaxForces, CreateFleet(u, f, at)
  PROVE  BoardKept
<1> DEFINE id == Len(report) + 1
           row == NewReport(u, "fleet_intel", at, f)
<1>1. row \in ReportRow
  BY CommandAssumption DEF NewReport, ReportRow
<1>2. Len(report) < MaxReports /\ report' = Append(report, row) /\ UNCHANGED <<member, pending, adopted>>
  BY Types, CommandAssumption DEF CreateFleet, Board
<1>3. /\ report' \in Seq(ReportRow) /\ Len(report') <= MaxReports /\ id \notin ReportId
      /\ DOMAIN report' = ReportId \cup {id} /\ report'[id] = row /\ \A q \in ReportId : report'[q] = report[q]
  BY <1>1, <1>2, ReportAdded DEF Board
<1>4. id \in 1 .. MaxReports
  BY <1>2, Types, CommandAssumption DEF Board
<1>5. row.kind = "fleet_intel" /\ row.linked = f /\ row.at = at
  BY DEF NewReport
<1> HIDE DEF id, row
<1>6. CASE f \notin ForceId
  <2> DEFINE new == NewForce("enemy", at, id)
  <2>1. new \in ForceRow /\ new.source = id /\ new.side = "enemy" /\ new.at = at
    BY <1>4, CommandAssumption DEF NewForce, ForceRow
  <2>2. f = Len(force) + 1 /\ Len(force) < MaxForces /\ force' = Append(force, new)
    BY <1>6, Types, CommandAssumption DEF CreateFleet, id, Board
  <2> HIDE DEF new
  <2>3. /\ force' \in Seq(ForceRow) /\ Len(force') <= MaxForces /\ DOMAIN force' = ForceId \cup {f}
        /\ force'[f] = new /\ \A g \in ForceId : force'[g] = force[g]
    BY <2>1, <2>2, ForceAdded DEF Board
  <2>4. (CommandTypeOK /\ NobodyAppliesTwice)'
    BY <1>2, <1>3, <2>3 DEF Board, CommandTypeOK, NobodyAppliesTwice
  <2>5. SourcesAgree'
    BY <1>3, <1>5, <2>1, <2>3 DEF Board, SourcesAgree, ForceId, ReportId
  <2>6. ForcesGrow
    BY <2>3, Numbers DEF ForcesGrow, Board
  <2> QED BY <2>4, <2>5, <2>6 DEF BoardKept, Board
<1>7. CASE f \in ForceId /\ at >= force[f].at
  <2> DEFINE new == Estimate(force[f], at, id)
  <2>1. force[f] \in ForceRow /\ force[f].version < MaxVersion /\ force[f].side = "enemy" /\ ~force[f].archived
    BY <1>7, Types DEF CreateFleet, Countable, LiveEnemy, Live, Board
  <2>2. force[f].version + 1 \in 1 .. MaxVersion
    BY <2>1, CommandAssumption DEF ForceRow
  <2>3. /\ new \in ForceRow /\ new.source = id /\ new.side = "enemy" /\ new.at = at /\ ~new.archived
        /\ new.version = force[f].version + 1
    BY <1>4, <2>1, <2>2 DEF Estimate, ForceRow
  <2>4. force' = [force EXCEPT ![f] = new]
    BY <1>7 DEF CreateFleet, TakesOver, id
  <2> HIDE DEF new
  <2>5. /\ force' \in Seq(ForceRow) /\ Len(force') <= MaxForces /\ DOMAIN force' = ForceId
        /\ force'[f] = new /\ \A g \in ForceId : g # f => force'[g] = force[g]
    BY <1>7, <2>3, <2>4, ForceSet DEF Board
  <2>6. (CommandTypeOK /\ NobodyAppliesTwice)'
    BY <1>2, <1>3, <2>5 DEF Board, CommandTypeOK, NobodyAppliesTwice
  <2>7. SourcesAgree'
    <3> SUFFICES ASSUME NEW g \in ForceId, force'[g].source # None
                 PROVE  LET r == force'[g].source IN
                        /\ r \in DOMAIN report' /\ report'[r].kind = "fleet_intel" /\ report'[r].linked = g
                        /\ force'[g].side = "enemy" /\ (~force'[g].archived => force'[g].at = report'[r].at)
      BY <2>5 DEF SourcesAgree, ForceId, ReportId
    <3>1. CASE g = f
      BY <1>3, <1>5, <2>3, <2>5, <3>1
    <3>2. CASE g # f
      BY <1>3, <2>5, <3>2 DEF Board, SourcesAgree
    <3> QED BY <3>1, <3>2
  <2>8. ForcesGrow
    <3>1. at \in Nat /\ \A g \in ForceId : force[g].version \in Nat /\ force[g].at \in Nat
      BY Numbers, CommandAssumption DEF Board
    <3> QED BY <1>7, <2>1, <2>3, <2>5, <3>1 DEF ForcesGrow
  <2> QED BY <2>6, <2>7, <2>8 DEF BoardKept, Board
<1>8. CASE f \in ForceId /\ ~(at >= force[f].at)
  <2>1. UNCHANGED force
    BY <1>8 DEF CreateFleet, TakesOver
  <2>2. (CommandTypeOK /\ NobodyAppliesTwice)'
    BY <1>2, <1>3, <2>1 DEF Board, CommandTypeOK, NobodyAppliesTwice
  <2>3. SourcesAgree' /\ ForcesGrow
    BY <1>3, <2>1, SameForces DEF Board, SourcesAgree, ForceId, ReportId
  <2> QED BY <2>2, <2>3 DEF BoardKept, Board
<1> QED BY <1>6, <1>7, <1>8

(* What the commands that change a report row leave as it was: its kind and its *)
(* force, and what a live force shows of it.                                    *)
ReportsStay ==
  /\ report' \in Seq(ReportRow) /\ Len(report') <= MaxReports /\ DOMAIN report' = ReportId
  /\ \A r \in ReportId : report'[r].kind = report[r].kind /\ report'[r].linked = report[r].linked
AdoptedTyped == adopted' \subseteq [report: 1 .. MaxReports, version: 1 .. MaxVersion]

LEMMA ForceUnedited ==
  ASSUME Board, UNCHANGED <<member, pending, force>>, ReportsStay, AdoptedTyped,
         \A f \in ForceId : force[f].source # None /\ ~force[f].archived =>
           report'[force[f].source].at = report[force[f].source].at
  PROVE  BoardKept
<1>1. (CommandTypeOK /\ NobodyAppliesTwice)'
  BY DEF Board, CommandTypeOK, NobodyAppliesTwice, ReportsStay, AdoptedTyped
<1>2. SourcesAgree'
  BY DEF Board, SourcesAgree, ForceId, ReportId, ReportsStay
<1>3. ForcesGrow
  BY SameForces DEF Board
<1> QED BY <1>1, <1>2, <1>3 DEF BoardKept, Board

LEMMA ForceEdited ==
  ASSUME Board, UNCHANGED <<member, pending>>, ReportsStay, AdoptedTyped,
         NEW f \in ForceId, NEW row \in ForceRow, force' = [force EXCEPT ![f] = row],
         row.version = force[f].version + 1, ~force[f].archived,
         row.at < force[f].at => row.source = None,
         row.source # None =>
           /\ row.source \in ReportId /\ report[row.source].kind = "fleet_intel" /\ report[row.source].linked = f
           /\ row.side = "enemy" /\ (~row.archived => row.at = report'[row.source].at),
         \A g \in ForceId : g # f /\ force[g].source # None /\ ~force[g].archived =>
           report'[force[g].source].at = report[force[g].source].at
  PROVE  BoardKept
<1>1. /\ force' \in Seq(ForceRow) /\ Len(force') <= MaxForces /\ DOMAIN force' = ForceId
      /\ force'[f] = row /\ \A g \in ForceId : g # f => force'[g] = force[g]
  BY ForceSet DEF Board
<1>2. (CommandTypeOK /\ NobodyAppliesTwice)'
  BY <1>1 DEF Board, CommandTypeOK, NobodyAppliesTwice, ReportsStay, AdoptedTyped
<1>3. SourcesAgree'
  <2> SUFFICES ASSUME NEW g \in ForceId, force'[g].source # None
               PROVE  LET r == force'[g].source IN
                      /\ r \in DOMAIN report' /\ report'[r].kind = "fleet_intel" /\ report'[r].linked = g
                      /\ force'[g].side = "enemy" /\ (~force'[g].archived => force'[g].at = report'[r].at)
    BY <1>1 DEF SourcesAgree, ForceId, ReportId
  <2>1. CASE g = f
    BY <1>1, <2>1 DEF ReportsStay
  <2>2. CASE g # f
    BY <1>1, <2>2 DEF Board, SourcesAgree, ReportsStay
  <2> QED BY <2>1, <2>2
<1>4. ForcesGrow
  <2>1. \A g \in ForceId : force[g].version \in Nat /\ force[g].at \in Nat
    BY Numbers DEF Board
  <2> QED BY <1>1, <2>1 DEF ForcesGrow
<1> QED BY <1>2, <1>3, <1>4 DEF BoardKept, Board

LEMMA ForceOpened ==
  ASSUME Board, UNCHANGED <<member, pending>>, ReportsStay, AdoptedTyped, Len(force) < MaxForces,
         NEW row \in ForceRow, force' = Append(force, row), row.source = None,
         \A r \in ReportId : report'[r].at = report[r].at
  PROVE  BoardKept
<1>1. /\ force' \in Seq(ForceRow) /\ Len(force') <= MaxForces /\ DOMAIN force' = ForceId \cup {Len(force) + 1}
      /\ force'[Len(force) + 1] = row /\ \A g \in ForceId : force'[g] = force[g]
  BY ForceAdded DEF Board
<1>2. (CommandTypeOK /\ NobodyAppliesTwice)'
  BY <1>1 DEF Board, CommandTypeOK, NobodyAppliesTwice, ReportsStay, AdoptedTyped
<1>3. SourcesAgree'
  <2> SUFFICES ASSUME NEW g \in ForceId, force'[g].source # None
               PROVE  LET r == force'[g].source IN
                      /\ r \in DOMAIN report' /\ report'[r].kind = "fleet_intel" /\ report'[r].linked = g
                      /\ force'[g].side = "enemy" /\ (~force'[g].archived => force'[g].at = report'[r].at)
    BY <1>1 DEF SourcesAgree, ForceId, ReportId
  <2> QED BY <1>1 DEF Board, SourcesAgree, ReportsStay
<1>4. ForcesGrow
  BY <1>1, Numbers DEF Board, ForcesGrow
<1> QED BY <1>2, <1>3, <1>4 DEF BoardKept, Board

LEMMA NoReportChanged ==
  ASSUME Board, UNCHANGED <<report, adopted>>
  PROVE  ReportsStay /\ AdoptedTyped
BY DEF Board, CommandTypeOK, ReportsStay, AdoptedTyped, ReportId

LEMMA VersionRises ==
  ASSUME CommandTypeOK
  PROVE  /\ \A r \in ReportId : report[r].version < MaxVersion => report[r].version + 1 \in 1 .. MaxVersion
         /\ \A f \in ForceId : force[f].version < MaxVersion => force[f].version + 1 \in 1 .. MaxVersion
<1>1. /\ \A r \in ReportId : report[r].version \in 1 .. MaxVersion
      /\ \A f \in ForceId : force[f].version \in 1 .. MaxVersion
  BY Types DEF ReportRow, ForceRow
<1> QED BY <1>1, CommandAssumption

(* A correction shows at once wherever its report is the source: whatever else  *)
(* it sources is archived.                                                      *)
LEMMA UpdateReportKeeps ==
  ASSUME Board, NEW u \in User, NEW r \in ReportId, NEW at \in Time, UpdateReport(u, r, at)
  PROVE  BoardKept
<1> DEFINE row == [report[r] EXCEPT !.at = at, !.version = report[r].version + 1,
                              !.status = IF Adopted(r) THEN "corrected" ELSE report[r].status]
<1>1. report[r] \in ReportRow /\ report[r].version + 1 \in 1 .. MaxVersion
  BY Types, VersionRises DEF UpdateReport, Editable, Board
<1>2. /\ row \in ReportRow /\ row.kind = report[r].kind /\ row.linked = report[r].linked /\ row.at = at
  BY <1>1 DEF ReportRow
<1>3. report' = [report EXCEPT ![r] = row] /\ UNCHANGED <<member, pending, adopted>>
  BY DEF UpdateReport
<1> HIDE DEF row
<1>4. /\ report' \in Seq(ReportRow) /\ Len(report') <= MaxReports /\ DOMAIN report' = ReportId
      /\ report'[r] = row /\ \A q \in ReportId : q # r => report'[q] = report[q]
  BY <1>2, <1>3, ReportSet DEF Board
<1>5. ReportsStay /\ AdoptedTyped
  BY <1>2, <1>3, <1>4 DEF ReportsStay, AdoptedTyped, Board, CommandTypeOK
<1>6. CASE Follows(r)
  <2> DEFINE f == report[r].linked
             new == Estimate(force[f], at, r)
  <2>1. /\ f \in ForceId /\ ~force[f].archived /\ force[f].side = "enemy" /\ force[f].source = r
        /\ at >= force[f].at /\ force[f].version < MaxVersion /\ force' = [force EXCEPT ![f] = new]
    BY <1>6 DEF UpdateReport, Follows, LiveEnemy, Live, Countable
  <2>2. force[f] \in ForceRow /\ force[f].version + 1 \in 1 .. MaxVersion /\ r \in 1 .. MaxReports
    BY <2>1, Types, VersionRises DEF Board
  <2>3. /\ new \in ForceRow /\ new.version = force[f].version + 1 /\ new.at = at /\ new.source = r
        /\ new.side = "enemy"
    BY <2>1, <2>2 DEF Estimate, ForceRow
  <2>4. r # None /\ report[r].kind = "fleet_intel" /\ report[r].linked = f
    BY <2>1, <2>2, CommandAssumption DEF Board, SourcesAgree
  <2>5. force[f].at \in Nat /\ at \in Nat
    BY <2>1, Numbers, CommandAssumption DEF Board
  <2>6. \A g \in ForceId : force[g].source = r => report[r].linked = g
    BY <2>4 DEF Board, SourcesAgree
  <2>7. \A g \in ForceId : force[g].source # None => force[g].source \in ReportId
    BY DEF Board, SourcesAgree
  <2> HIDE DEF new, f
  <2>8. \A g \in ForceId : g # f /\ force[g].source # None => report'[force[g].source].at = report[force[g].source].at
    BY <1>4, <2>4, <2>6, <2>7
  <2>9. (new.at < force[f].at => new.source = None) /\ new.at = report'[new.source].at
    BY <1>2, <1>4, <2>1, <2>3, <2>5
  <2> QED BY <1>3, <1>5, <2>1, <2>3, <2>4, <2>8, <2>9, ForceEdited
<1>7. CASE ~Follows(r)
  <2>1. UNCHANGED force
    BY <1>7 DEF UpdateReport
  <2>2. \A f \in ForceId : force[f].source # None /\ ~force[f].archived => force[f].source # r /\ force[f].source \in ReportId
    <3> SUFFICES ASSUME NEW f \in ForceId, force[f].source # None, ~force[f].archived
                 PROVE  force[f].source # r /\ force[f].source \in ReportId
      OBVIOUS
    <3>1. force[f].source \in ReportId /\ report[force[f].source].linked = f /\ force[f].side = "enemy"
      BY DEF Board, SourcesAgree
    <3>2. f # None
      BY Types, CommandAssumption DEF Board
    <3>3. ASSUME force[f].source = r PROVE FALSE
      BY <1>7, <3>1, <3>2, <3>3 DEF Follows, LiveEnemy, Live
    <3> QED BY <3>1, <3>3
  <2> QED BY <1>3, <1>4, <1>5, <2>1, <2>2, ForceUnedited
<1> QED BY <1>6, <1>7

LEMMA AdjustReportKeeps ==
  ASSUME Board, NEW u \in User, NEW r \in ReportId, NEW status \in {"withdrawn", report[r].status},
         AdjustReport(u, r, status)
  PROVE  BoardKept
<1> DEFINE row == [report[r] EXCEPT !.version = report[r].version + 1, !.status = status]
<1>1. report[r] \in ReportRow /\ report[r].version + 1 \in 1 .. MaxVersion
  BY Types, VersionRises DEF AdjustReport, Editable, Board
<1>2. /\ row \in ReportRow /\ row.kind = report[r].kind /\ row.linked = report[r].linked /\ row.at = report[r].at
  BY <1>1 DEF ReportRow
<1>3. report' = [report EXCEPT ![r] = row] /\ UNCHANGED <<member, pending, force, adopted>>
  BY DEF AdjustReport
<1> HIDE DEF row
<1>4. /\ report' \in Seq(ReportRow) /\ Len(report') <= MaxReports /\ DOMAIN report' = ReportId
      /\ report'[r] = row /\ \A q \in ReportId : q # r => report'[q] = report[q]
  BY <1>2, <1>3, ReportSet DEF Board
<1>5. ReportsStay /\ AdoptedTyped
  BY <1>2, <1>3, <1>4 DEF ReportsStay, AdoptedTyped, Board, CommandTypeOK
<1>6. \A f \in ForceId : force[f].source # None => report'[force[f].source].at = report[force[f].source].at
  BY <1>2, <1>4 DEF Board, SourcesAgree
<1> QED BY <1>3, <1>5, <1>6, ForceUnedited

LEMMA ConfirmReportKeeps ==
  ASSUME Board, NEW u \in User, NEW r \in ReportId, NEW f \in 1 .. MaxForces, ConfirmReport(u, r, f)
  PROVE  BoardKept
<1> DEFINE row == [report[r] EXCEPT !.status = "confirmed"]
           revision == [report |-> r, version |-> report[r].version]
<1>1. report[r] \in ReportRow /\ r \in 1 .. MaxReports
  BY Types DEF Board
<1>2. /\ row \in ReportRow /\ row.kind = report[r].kind /\ row.linked = report[r].linked /\ row.at = report[r].at
      /\ revision \in [report: 1 .. MaxReports, version: 1 .. MaxVersion] /\ report[r].at \in Time
  BY <1>1 DEF ReportRow
<1>3. report' = [report EXCEPT ![r] = row] /\ UNCHANGED <<member, pending>> /\ adopted' = adopted \cup {revision}
  BY DEF ConfirmReport
<1> HIDE DEF row, revision
<1>4. /\ report' \in Seq(ReportRow) /\ Len(report') <= MaxReports /\ DOMAIN report' = ReportId
      /\ report'[r] = row /\ \A q \in ReportId : q # r => report'[q] = report[q]
  BY <1>2, <1>3, ReportSet DEF Board
<1>5. ReportsStay /\ AdoptedTyped
  BY <1>2, <1>3, <1>4 DEF ReportsStay, AdoptedTyped, Board, CommandTypeOK
<1>6. \A q \in ReportId : report'[q].at = report[q].at
  BY <1>2, <1>4
<1>7. \A g \in ForceId : force[g].source # None => report'[force[g].source].at = report[force[g].source].at
  BY <1>6 DEF Board, SourcesAgree
<1>8. CASE LiveEnemy(f) /\ Countable(f) /\ force' = [force EXCEPT ![f] = Confirmed(f, report[r].at)]
  <2> DEFINE new == Confirmed(f, report[r].at)
  <2>1. f \in ForceId /\ ~force[f].archived /\ force[f].version < MaxVersion
    BY <1>8 DEF LiveEnemy, Live, Countable
  <2>2. force[f] \in ForceRow /\ force[f].version + 1 \in 1 .. MaxVersion
    BY <2>1, Types, VersionRises DEF Board
  <2>3. new \in ForceRow /\ new.version = force[f].version + 1 /\ new.source = None
    BY <1>2, <2>2 DEF Confirmed, Estimate, ForceRow
  <2> HIDE DEF new
  <2>4. force' = [force EXCEPT ![f] = new]
    BY <1>8 DEF new
  <2> QED BY <1>3, <1>5, <1>7, <2>1, <2>3, <2>4, ForceEdited
<1>9. CASE f = Len(force) + 1 /\ force' = Append(force, NewForce("enemy", report[r].at, None))
  <2> DEFINE new == NewForce("enemy", report[r].at, None)
  <2>1. new \in ForceRow /\ new.source = None
    BY <1>2, CommandAssumption DEF NewForce, ForceRow
  <2>2. Len(force) < MaxForces
    BY <1>9, Types, CommandAssumption DEF Board
  <2> HIDE DEF new
  <2>3. force' = Append(force, new)
    BY <1>9 DEF new
  <2> QED BY <1>3, <1>5, <1>6, <2>1, <2>2, <2>3, ForceOpened
<1> QED BY <1>8, <1>9 DEF ConfirmReport

LEMMA CreateForceKeeps ==
  ASSUME Board, NEW u \in User, NEW side \in {"enemy", "friendly"}, NEW at \in Time, CreateForce(u, side, at)
  PROVE  BoardKept
<1> DEFINE new == NewForce(side, at, None)
<1>1. new \in ForceRow /\ new.source = None
  BY CommandAssumption DEF NewForce, ForceRow
<1>2. Len(force) < MaxForces /\ force' = Append(force, new) /\ UNCHANGED <<member, pending, report, adopted>>
  BY DEF CreateForce
<1> HIDE DEF new
<1> QED BY <1>1, <1>2, NoReportChanged, ForceOpened

LEMMA EditForceKeeps ==
  ASSUME Board, NEW u \in User, NEW f \in ForceId, NEW row \in ForceRow, EditForce(u, f, row),
         row.version = force[f].version, row.at < force[f].at => row.source = None,
         row.source # None => row.source = force[f].source /\ row.side = force[f].side /\ row.at = force[f].at
  PROVE  BoardKept
<1> DEFINE new == [row EXCEPT !.version = row.version + 1]
<1>1. /\ ~force[f].archived /\ force[f].version < MaxVersion /\ force' = [force EXCEPT ![f] = new]
      /\ UNCHANGED <<member, pending, report, adopted>>
  BY DEF EditForce, Live, Countable
<1>2. row.version + 1 \in 1 .. MaxVersion
  BY <1>1, VersionRises DEF Board
<1>3. /\ new \in ForceRow /\ new.version = force[f].version + 1 /\ new.at = row.at /\ new.source = row.source
      /\ new.side = row.side
  BY <1>2 DEF ForceRow
<1> HIDE DEF new
<1>4. force[f].source # None =>
        /\ force[f].source \in ReportId /\ report[force[f].source].kind = "fleet_intel"
        /\ report[force[f].source].linked = f /\ force[f].side = "enemy"
        /\ force[f].at = report[force[f].source].at
  BY <1>1, SourceShown DEF Board
<1>5. ReportsStay /\ AdoptedTyped
  BY <1>1, NoReportChanged
<1>6. new.source # None =>
        /\ new.source \in ReportId /\ report[new.source].kind = "fleet_intel" /\ report[new.source].linked = f
        /\ new.side = "enemy" /\ (~new.archived => new.at = report'[new.source].at)
  BY <1>1, <1>3, <1>4
<1>7. new.at < force[f].at => new.source = None
  BY <1>3
<1>8. \A g \in ForceId : report'[force[g].source].at = report[force[g].source].at
  BY <1>1
<1> QED BY ONLY Board, f \in ForceId, <1>1, <1>3, <1>5, <1>6, <1>7, <1>8, ForceEdited

LEMMA ForceCommandKeeps == ASSUME Board, ForceCommand PROVE BoardKept
<1>1. PICK u \in User :
        \/ \E side \in {"enemy", "friendly"}, at \in Time :
             CreateForce(u, side, at) \/ \E f \in ForceId : UpdateForce(u, f, side, at)
        \/ \E f \in ForceId : MoveForce(u, f) \/ ArchiveForce(u, f)
  BY DEF ForceCommand
<1>2. CASE \E side \in {"enemy", "friendly"}, at \in Time : CreateForce(u, side, at)
  BY <1>2, CreateForceKeeps
<1>3. ASSUME NEW side \in {"enemy", "friendly"}, NEW at \in Time, NEW f \in ForceId, UpdateForce(u, f, side, at)
      PROVE  BoardKept
  <2> DEFINE row == [force[f] EXCEPT !.at = at, !.side = side, !.source = None]
  <2>1. force[f] \in ForceRow
    BY Types DEF Board
  <2>2. row \in ForceRow /\ row.version = force[f].version /\ row.source = None
    BY <2>1 DEF ForceRow
  <2>3. EditForce(u, f, row)
    BY <1>3 DEF UpdateForce
  <2> HIDE DEF row
  <2> QED BY <2>2, <2>3, EditForceKeeps
<1>4. ASSUME NEW f \in ForceId, MoveForce(u, f) PROVE BoardKept
  <2>1. force[f] \in ForceRow /\ force[f].at \in Nat
    BY Types, Numbers DEF Board
  <2>2. ~(force[f].at < force[f].at) /\ EditForce(u, f, force[f])
    BY <1>4, <2>1 DEF MoveForce
  <2> QED BY <2>1, <2>2, EditForceKeeps
<1>5. ASSUME NEW f \in ForceId, ArchiveForce(u, f) PROVE BoardKept
  <2> DEFINE row == [force[f] EXCEPT !.archived = TRUE]
  <2>1. force[f] \in ForceRow /\ force[f].at \in Nat
    BY Types, Numbers DEF Board
  <2>2. /\ row \in ForceRow /\ row.version = force[f].version /\ row.source = force[f].source
        /\ row.at = force[f].at /\ row.side = force[f].side
    BY <2>1 DEF ForceRow
  <2>3. EditForce(u, f, row)
    BY <1>5 DEF ArchiveForce
  <2> HIDE DEF row
  <2>4. ~(row.at < force[f].at)
    BY <2>1, <2>2
  <2> QED BY <2>2, <2>3, <2>4, EditForceKeeps
<1> QED BY <1>1, <1>2, <1>3, <1>4, <1>5

LEMMA ReportCommandKeeps == ASSUME Board, ReportCommand PROVE BoardKept
<1>1. PICK u \in User :
        \/ \E at \in Time, kind \in {"fleet", "system_count"} : CreateReport(u, kind, at)
        \/ \E at \in Time, f \in 1 .. MaxForces : CreateFleet(u, f, at)
        \/ \E r \in ReportId :
             \/ \E at \in Time : UpdateReport(u, r, at)
             \/ MoveReport(u, r) \/ WithdrawReport(u, r)
             \/ \E f \in 1 .. MaxForces : ConfirmReport(u, r, f)
  BY DEF ReportCommand
<1>2. ASSUME NEW r \in ReportId, MoveReport(u, r) \/ WithdrawReport(u, r) PROVE BoardKept
  BY <1>2, AdjustReportKeeps DEF MoveReport, WithdrawReport
<1> QED BY <1>1, <1>2, CreateReportKeeps, CreateFleetKeeps, UpdateReportKeeps, ConfirmReportKeeps

LEMMA CommandKeeps == ASSUME Board, CommandNext PROVE BoardKept
BY AdminKeeps, ReportCommandKeeps, ForceCommandKeeps DEF CommandNext

LEMMA Idle == ASSUME Board, UNCHANGED server PROVE BoardKept
<1>1. Board'
  BY DEF Board, server, CommandTypeOK, SourcesAgree, NobodyAppliesTwice, ForceId, ReportId
<1> QED BY <1>1, SameForces DEF Board, BoardKept, server

-----------------------------------------------------------------------------
DraftRow ==
  [kind: {"fleet", "system_count", "fleet_intel"}, at: Time, force: 1 .. MaxForces \cup {None},
   version: 0 .. MaxVersion, status: {"none", "queued", "sending", "conflict", "blocked"}]

(* The client's part of the invariant.  A conflict is final because staleness   *)
(* is: a force's version never goes back, and an archived force stays archived. *)
ClientTypeOK ==
  /\ fate \in {"unwritten", "kept", "sent", "discarded"}
  /\ waiting \subseteq Tab /\ orphans \in 0 .. MaxOrphans
Written ==
  IF fate = "unwritten" THEN draft = NoDraft /\ waiting = {} /\ orphans = 0 ELSE draft \in DraftRow
Seen == draft.force # None => draft.force \in ForceId /\ draft.version <= force[draft.force].version
Receipted == receipt \in BOOLEAN /\ made = IF receipt THEN 1 ELSE 0
Settled ==
  /\ fate = "sent" => receipt
  /\ draft.status = "conflict" => ~receipt /\ Stale(draft)
OutboxInv == Board /\ ClientTypeOK /\ Written /\ Seen /\ Receipted /\ Settled

LEMMA StaysStale ==
  ASSUME Board, Board', ForcesGrow, Seen, draft.version \in Nat,
         draft'.force = draft.force, draft'.version = draft.version
  PROVE  Seen' /\ (Stale(draft) => Stale(draft)')
<1>1. CASE draft.force = None
  BY <1>1 DEF Seen, Stale
<1>2. CASE draft.force # None
  <2> DEFINE f == draft.force
  <2>1. f \in ForceId /\ draft.version <= force[f].version
    BY <1>2 DEF Seen
  <2>2. f \in DOMAIN force' /\ force'[f].version >= force[f].version /\ (force[f].archived => force'[f].archived)
    BY <2>1 DEF ForcesGrow
  <2>3. force[f].version \in Nat /\ force'[f].version \in Nat
    <3>1. force' \in Seq(ForceRow)
      BY DEF Board, CommandTypeOK
    <3>2. force'[f] \in ForceRow
      BY <2>2, <3>1, LenProperties, ElementOfSeq
    <3>3. \A n \in 1 .. MaxVersion : n \in Nat
      BY CommandAssumption
    <3> QED BY <2>1, <3>2, <3>3, Numbers DEF Board, ForceRow
  <2>4. draft.version <= force'[f].version
    BY <2>1, <2>2, <2>3
  <2>5. force[f].version # draft.version => force'[f].version # draft.version
    BY <2>1, <2>2, <2>3
  <2> QED BY <2>1, <2>2, <2>4, <2>5 DEF Seen, Stale, ForceId
<1> QED BY <1>1, <1>2

LEMMA ServeKeeps ==
  ASSUME OutboxInv, fate # "unwritten", NEW answer \in Answer, Serve(draft, answer)
  PROVE  /\ BoardKept /\ Receipted'
         /\ answer = "ok" => receipt'
         /\ receipt => receipt'
         /\ Stale(draft) => receipt' = receipt
         /\ answer = "conflict" => Stale(draft) /\ ~receipt'
<1>1. CASE UNCHANGED <<server, receipt, made>>
  <2>1. BoardKept /\ Receipted'
    BY <1>1, Idle DEF OutboxInv, Receipted
  <2>2. answer = "ok" => receipt
    BY <1>1 DEF Serve, Known, OutboxInv, Receipted
  <2>3. answer = "conflict" => Stale(draft) /\ ~receipt
    BY DEF Serve, Conflicts, Known
  <2> QED BY <1>1, <2>1, <2>2, <2>3
<1>2. CASE answer = "ok" /\ ~Known /\ ~Stale(draft) /\ Create(draft) /\ receipt' = TRUE /\ made' = made + 1
  <2>1. draft \in DraftRow
    BY DEF OutboxInv, Written
  <2>2. draft.kind \in {"fleet", "system_count", "fleet_intel"} /\ draft.at \in Time
    BY <2>1 DEF DraftRow
  <2>3. Author \in User
    BY OutboxAssumption
  <2>4. BoardKept
    <3>1. CASE draft.kind = "fleet_intel"
      <4>1. CreateFleet(Author, Target(draft), draft.at)
        BY <1>2, <3>1 DEF Create
      <4>2. Target(draft) \in 1 .. MaxForces
        <5>1. draft.force # None => draft.force \in ForceId
          BY DEF OutboxInv, Seen
        <5>2. Len(force) + 1 \notin ForceId /\ Len(force) + 1 >= 1 /\ Len(force) + 1 \in Nat
          BY Types DEF OutboxInv, Board
        <5>3. CASE draft.force = None
          <6>1. Target(draft) = Len(force) + 1
            BY <5>3 DEF Target
          <6> QED BY <4>1, <5>2, <6>1, CommandAssumption DEF CreateFleet
        <5>4. CASE draft.force # None
          BY <5>1, <5>4, Types DEF Target, OutboxInv, Board
        <5> QED BY <5>3, <5>4
      <4> QED BY <2>2, <2>3, <4>1, <4>2, CreateFleetKeeps DEF OutboxInv
    <3>2. CASE draft.kind # "fleet_intel"
      BY <1>2, <2>2, <2>3, <3>2, CreateReportKeeps DEF OutboxInv, Create
    <3> QED BY <3>1, <3>2
  <2>5. Receipted'
    BY <1>2 DEF OutboxInv, Receipted, Known
  <2> QED BY <1>2, <2>4, <2>5 DEF Answer
<1> QED BY <1>1, <1>2 DEF Serve

(* The content of a written draft never changes: only its status does.          *)
LEMMA Restatus ==
  ASSUME Written, fate # "unwritten", fate' \in {"kept", "sent", "discarded"},
         NEW status \in {"none", "queued", "sending", "conflict", "blocked"}, Status(status)
  PROVE  /\ Written' /\ draft.version \in Nat /\ draft'.force = draft.force /\ draft'.version = draft.version
         /\ draft'.status = (IF Kept THEN status ELSE "none")
<1>1. draft \in DraftRow
  BY DEF Written
<1>2. draft.version \in Nat
  <2>1. \A n \in 0 .. MaxVersion : n \in Nat
    BY CommandAssumption
  <2> QED BY <1>1, <2>1 DEF DraftRow
<1>3. /\ draft' \in DraftRow /\ draft'.force = draft.force /\ draft'.version = draft.version
      /\ draft'.status = IF Kept THEN status ELSE "none"
  BY <1>1 DEF Status, Kept, DraftRow
<1> QED BY <1>2, <1>3 DEF Written

LEMMA WrittenFate ==
  ASSUME Written
  PROVE  Kept \/ waiting # {} \/ orphans # 0 => fate # "unwritten"
BY DEF Written, Kept, NoDraft

(* Every step leaves the board as the commands do.                              *)
StepKept == OutboxInv' /\ ForcesGrow

LEMMA ClientStep ==
  ASSUME OutboxInv, BoardKept, ClientTypeOK', Written', Receipted', draft.version \in Nat,
         draft'.force = draft.force, draft'.version = draft.version,
         fate' = "sent" => receipt',
         draft'.status = "conflict" => Stale(draft) /\ ~receipt'
  PROVE  StepKept
<1>1. Seen' /\ (Stale(draft) => Stale(draft)')
  BY StaysStale DEF OutboxInv, BoardKept
<1>2. Settled'
  BY <1>1 DEF Settled
<1> QED BY <1>1, <1>2 DEF StepKept, OutboxInv, BoardKept

LEMMA ExchangeKeeps == ASSUME OutboxInv, NEW t \in Tab, Exchange(t) PROVE StepKept
<1>1. fate # "unwritten"
  BY WrittenFate DEF Exchange, OutboxInv
<1>2. PICK answer \in Answer : Serve(draft, answer) /\ Settle(answer)
  BY DEF Exchange
<1>3. /\ BoardKept /\ Receipted' /\ (answer = "ok" => receipt') /\ (receipt => receipt')
      /\ (answer = "conflict" => Stale(draft) /\ ~receipt')
  BY <1>1, <1>2, ServeKeeps
<1>4. fate' \in {"kept", "sent", "discarded"} /\ (fate' = "sent" => receipt')
  BY <1>1, <1>2, <1>3 DEF Settle, Gone, OutboxInv, ClientTypeOK, Settled
<1>5. PICK status \in {"none", "queued", "conflict", "blocked"} :
        Status(status) /\ (status = "conflict" => answer = "conflict")
  <2>1. CASE answer = "ok"
    BY <1>2, <2>1 DEF Settle, Gone
  <2>2. CASE answer # "ok"
    <3>1. After[answer] \in {"queued", "conflict", "blocked"} /\ (After[answer] = "conflict" => answer = "conflict")
      BY <2>2 DEF After, Answer
    <3>2. Status(After[answer])
      BY <1>2, <2>2 DEF Settle, Gone
    <3> QED BY <3>1, <3>2
  <2> QED BY <2>1, <2>2
<1>6. /\ Written' /\ draft.version \in Nat /\ draft'.force = draft.force /\ draft'.version = draft.version
      /\ draft'.status = IF Kept THEN status ELSE "none"
  BY <1>1, <1>4, <1>5, Restatus DEF OutboxInv
<1>7. ClientTypeOK'
  BY <1>4 DEF Exchange, OutboxInv, ClientTypeOK
<1> QED BY <1>3, <1>4, <1>5, <1>6, <1>7, ClientStep

LEMMA OrphanKeeps == ASSUME OutboxInv, ServeOrphan PROVE StepKept
<1>1. fate # "unwritten" /\ orphans \in Nat /\ orphans > 0 /\ orphans' = orphans - 1 /\ UNCHANGED <<draft, fate, waiting>>
  <2>1. \A n \in 0 .. MaxOrphans : n \in Nat
    BY OutboxAssumption
  <2>2. orphans \in Nat
    BY <2>1 DEF OutboxInv, ClientTypeOK
  <2> QED BY <2>2, WrittenFate DEF ServeOrphan, OutboxInv
<1>2. PICK answer \in Answer : Serve(draft, answer)
  BY DEF ServeOrphan
<1>3. BoardKept /\ Receipted' /\ (receipt => receipt') /\ (Stale(draft) => receipt' = receipt)
  BY <1>1, <1>2, ServeKeeps
<1>4. orphans' \in 0 .. MaxOrphans
  BY <1>1, OutboxAssumption DEF OutboxInv, ClientTypeOK
<1>5. ClientTypeOK' /\ Written'
  BY <1>1, <1>4 DEF OutboxInv, ClientTypeOK, Written
<1>6. draft.version \in Nat
  <2>1. \A n \in 0 .. MaxVersion : n \in Nat
    BY CommandAssumption
  <2> QED BY <1>1, <2>1 DEF OutboxInv, Written, DraftRow
<1> QED BY <1>1, <1>3, <1>5, <1>6, ClientStep DEF OutboxInv, Settled

LEMMA LocalKeeps ==
  ASSUME OutboxInv, UNCHANGED <<server, receipt, made>>, NEW status \in {"none", "queued", "sending"}, Status(status),
         fate # "unwritten", fate' \in {fate, "discarded"},
         waiting' \subseteq Tab, orphans' \in 0 .. MaxOrphans
  PROVE  StepKept
<1>1. fate' \in {"kept", "sent", "discarded"} /\ (fate' = "sent" => receipt')
  BY DEF OutboxInv, ClientTypeOK, Settled
<1>2. /\ Written' /\ draft.version \in Nat /\ draft'.force = draft.force /\ draft'.version = draft.version
      /\ draft'.status = IF Kept THEN status ELSE "none"
  BY <1>1, Restatus DEF OutboxInv
<1>3. BoardKept /\ ClientTypeOK' /\ Receipted'
  BY <1>1, Idle DEF OutboxInv, ClientTypeOK, Receipted
<1> QED BY <1>1, <1>2, <1>3, ClientStep

LEMMA QueueKeeps == ASSUME OutboxInv, Queue PROVE StepKept
<1>1. /\ UNCHANGED <<server, waiting, orphans, receipt, made>> /\ fate = "unwritten" /\ fate' = "kept"
  BY DEF Queue
<1>2. BoardKept /\ ClientTypeOK' /\ Receipted'
  BY <1>1, Idle DEF OutboxInv, ClientTypeOK, Receipted
<1>3. draft' \in DraftRow /\ draft'.status = "queued"
      /\ (draft'.force # None => draft'.force \in ForceId /\ draft'.version = force[draft'.force].version)
  <2>1. PICK at \in Time :
          \/ \E kind \in {"fleet", "system_count", "fleet_intel"} :
               draft' = [NoDraft EXCEPT !.kind = kind, !.at = at, !.status = "queued"]
          \/ \E f \in ForceId :
               draft' = [NoDraft EXCEPT !.kind = "fleet_intel", !.at = at, !.force = f,
                                        !.version = force[f].version, !.status = "queued"]
    BY OutboxAssumption DEF Queue
  <2>2. 0 \in 0 .. MaxVersion
    BY CommandAssumption
  <2>3. ASSUME NEW kind \in {"fleet", "system_count", "fleet_intel"},
               draft' = [NoDraft EXCEPT !.kind = kind, !.at = at, !.status = "queued"]
        PROVE  draft' \in DraftRow /\ draft'.status = "queued" /\ draft'.force = None
    BY <2>2, <2>3 DEF NoDraft, DraftRow
  <2>4. ASSUME NEW f \in ForceId,
               draft' = [NoDraft EXCEPT !.kind = "fleet_intel", !.at = at, !.force = f,
                                        !.version = force[f].version, !.status = "queued"]
        PROVE  draft' \in DraftRow /\ draft'.status = "queued" /\ draft'.force = f /\ draft'.version = force[f].version
    <3>1. f \in 1 .. MaxForces /\ force[f].version \in 1 .. MaxVersion
      BY Types DEF OutboxInv, Board, ForceRow
    <3>2. force[f].version \in 0 .. MaxVersion
      BY <3>1, CommandAssumption
    <3> QED BY <2>4, <3>1, <3>2 DEF NoDraft, DraftRow
  <2> QED BY <2>1, <2>3, <2>4
<1>4. Seen'
  <2>1. \A f \in ForceId : force[f].version \in Nat
    BY Numbers DEF OutboxInv, Board
  <2> QED BY <1>1, <1>3, <2>1 DEF Seen, server, ForceId
<1>5. Written' /\ Settled'
  BY <1>1, <1>3 DEF Written, Settled
<1> QED BY <1>2, <1>4, <1>5 DEF StepKept, OutboxInv, BoardKept

LEMMA StepKeeps == ASSUME OutboxInv, [Next]_vars PROVE StepKept
<1>1. CASE CommandNext /\ UNCHANGED <<client, receipt, made>>
  <2>1. BoardKept
    BY <1>1, CommandKeeps DEF OutboxInv
  <2>2. CASE fate = "unwritten"
    <3>1. (ClientTypeOK /\ Written /\ Receipted)' /\ draft = NoDraft
      BY <1>1, <2>2 DEF client, OutboxInv, ClientTypeOK, Written, Receipted
    <3>2. Seen' /\ Settled'
      BY <1>1, <2>2, <3>1 DEF client, Seen, Settled, NoDraft
    <3> QED BY <2>1, <3>1, <3>2 DEF StepKept, OutboxInv, BoardKept
  <2>3. CASE fate # "unwritten"
    <3>1. draft.version \in Nat
      <4>1. \A n \in 0 .. MaxVersion : n \in Nat
        BY CommandAssumption
      <4> QED BY <2>3, <4>1 DEF OutboxInv, Written, DraftRow
    <3>2. (ClientTypeOK /\ Written /\ Receipted)'
      BY <1>1 DEF client, OutboxInv, ClientTypeOK, Written, Receipted
    <3> QED BY <1>1, <2>1, <3>1, <3>2, ClientStep DEF client, OutboxInv, Settled
  <2> QED BY <2>2, <2>3
<1>2. CASE Queue
  BY <1>2, QueueKeeps
<1>3. CASE Discard
  BY <1>3, LocalKeeps, WrittenFate DEF Discard, OutboxInv, ClientTypeOK
<1>4. CASE ServeOrphan
  BY <1>4, OrphanKeeps
<1>5. ASSUME NEW t \in Tab, Retry(t) PROVE StepKept
  <2>1. fate # "unwritten"
    BY <1>5, WrittenFate DEF Retry, Kept, OutboxInv
  <2> QED BY <1>5, <2>1, LocalKeeps DEF Retry, OutboxInv, ClientTypeOK
<1>6. ASSUME NEW t \in Tab, GiveUp(t) PROVE StepKept
  <2>1. fate # "unwritten"
    BY <1>6, WrittenFate DEF GiveUp, OutboxInv
  <2>2. orphans' \in 0 .. MaxOrphans
    BY <1>6, OutboxAssumption DEF GiveUp, OutboxInv, ClientTypeOK
  <2> QED BY <1>6, <2>1, <2>2, LocalKeeps DEF GiveUp, OutboxInv, ClientTypeOK
<1>7. CASE UNCHANGED vars
  <2>1. BoardKept
    BY <1>7, Idle DEF OutboxInv, vars
  <2>2. (ClientTypeOK /\ Written /\ Receipted /\ Seen /\ Settled)'
    BY <1>7 DEF vars, client, server, OutboxInv, ClientTypeOK, Written, Receipted, Seen, Settled, Stale, ForceId
  <2> QED BY <2>1, <2>2 DEF StepKept, OutboxInv, BoardKept
<1> QED BY <1>1, <1>2, <1>3, <1>4, <1>5, <1>6, <1>7, ExchangeKeeps DEF Next

-----------------------------------------------------------------------------
(* The invariant that carries the theorems below: the board's rows agree, the   *)
(* draft knows only versions that were, and a receipt is one report.            *)
THEOREM OutboxInductive == Spec => []OutboxInv
<1>1. Init => OutboxInv
  <2> SUFFICES ASSUME Init PROVE OutboxInv
    OBVIOUS
  <2>1. report \in Seq(ReportRow) /\ Len(report) = 0 /\ force \in Seq(ForceRow) /\ Len(force) = 0 /\ ForceId = {}
    BY EmptySeq DEF Init, CommandInit, ForceId
  <2>2. Board
    BY <2>1, CommandAssumption DEF Init, CommandInit, Board, CommandTypeOK, SourcesAgree, NobodyAppliesTwice
  <2>3. ClientTypeOK /\ Written
    BY OutboxAssumption DEF Init, ClientTypeOK, Written
  <2>4. draft.force = None /\ draft.status = "none"
    BY DEF Init, NoDraft
  <2>5. Seen /\ Receipted /\ Settled
    BY <2>4 DEF Init, Seen, Receipted, Settled
  <2> QED BY <2>2, <2>3, <2>5 DEF OutboxInv
<1>2. OutboxInv /\ [Next]_vars => OutboxInv'
  BY StepKeeps DEF StepKept
<1> QED BY <1>1, <1>2, PTL DEF Spec

(* A live force shows what the report it follows says now, however corrections, *)
(* confirmations and edits of any number of members interleave, and nobody has  *)
(* an application and a membership (services.py 450-590).                       *)
THEOREM ConsistentHolds == Spec => []Consistent
<1>1. OutboxInv => Consistent
  <2> SUFFICES ASSUME OutboxInv PROVE Consistent
    OBVIOUS
  <2>1. made \in 0 .. MaxReports
    BY CommandAssumption DEF OutboxInv, Receipted
  <2>2. draft \in DraftRow \cup {NoDraft}
    BY DEF OutboxInv, Written
  <2>3. TypeOK
    BY <2>1, <2>2 DEF OutboxInv, Board, ClientTypeOK, Receipted, TypeOK, DraftRow
  <2> QED BY <2>3 DEF Consistent, OutboxInv, Board
<1> QED BY <1>1, OutboxInductive, PTL

(* From however many tabs and however often and late a draft is sent, it makes  *)
(* one report at most (services.py 319-380, tacticalOutbox.js).                 *)
THEOREM SentOnceHolds == Spec => []SentOnce
<1>1. OutboxInv => SentOnce
  BY DEF OutboxInv, Receipted, Settled, SentOnce
<1> QED BY <1>1, OutboxInductive, PTL

(* A conflict tells the truth for good: a force once stale for a draft stays    *)
(* so, and no request still under way can make its report.                      *)
THEOREM ConflictIsFinalHolds == Spec => []ConflictIsFinal
<1>1. OutboxInv => ConflictIsFinal
  BY DEF OutboxInv, Receipted, Settled, ConflictIsFinal
<1> QED BY <1>1, OutboxInductive, PTL

(* Only a commander's own edit takes an estimate back in time.                  *)
THEOREM EstimateForwardHolds == Spec => EstimateForward
<1>1. OutboxInv /\ [Next]_vars =>
        [\A f \in ForceId : force'[f].at < force[f].at => force'[f].source = None]_server
  BY StepKeeps DEF StepKept, ForcesGrow
<1> QED BY <1>1, OutboxInductive, PTL DEF Spec, EstimateForward
=============================================================================
