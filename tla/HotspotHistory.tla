---------------------------- MODULE HotspotHistory ----------------------------
(* AnomalyHotspots/history.py: a directory of immutable samples, an index of   *)
(* them (manifest.json) and a list of attempts, written by one collector (the  *)
(* collector's lock) and read by the web workers at any moment.  The collector *)
(* is killed, loses power or is refused by the disk between any two of its     *)
(* system calls.                                                               *)
(* An operator named Bad... is a plausible mistake in the one that follows it. *)
(*                                                                             *)
(* "dir" is what processes see, "durable" what the last fsync of the directory *)
(* made certain.  After a power loss every rename, link and unlink made since  *)
(* may or may not have reached the disk, each on its own.                      *)
EXTENDS Naturals, Sequences, FiniteSets, FiniteSetsExt

CONSTANTS
    Stamp,          \* milliseconds, as the wall clock may give them
    Rows,           \* what a pass collected
    Retention,      \* RETENTION_MS
    MaxSamples,     \* MAX_SAMPLES, the bytes a store may hold expressed in samples
    MaxAttempts,    \* MAX_ATTEMPTS
    Absent          \* there is no manifest.json

Sample == [id : Stamp, rows : Rows]

ASSUME HistoryAssumption ==
    /\ Stamp \subseteq Nat
    /\ Retention \in Nat
    /\ MaxSamples \in Nat \ {0}
    /\ MaxAttempts \in Nat \ {0}
    /\ Absent \notin Seq(Sample)

VARIABLES
    dir, durable,
    spare,          \* published samples whose temporary name is still there
    pc, sample,     \* the pass that runs: where it is, what it collected
    reader          \* one web request

vars == <<dir, durable, spare, pc, sample, reader>>

Index == {Absent} \cup Seq(Sample)
Attempt == [at : Stamp, recorded : BOOLEAN]
Directory == [index : Index, samples : SUBSET Sample, attempts : Seq(Attempt)]

Entries(index) == IF index = Absent THEN << >> ELSE index
Members(entries) == {entries[i] : i \in DOMAIN entries}
Listed(index) == Members(Entries(index))
Last(index) == index[Len(index)]

-----------------------------------------------------------------------------
(* Fsync of the directory: the step of the pass that follows each change.      *)
AfterSync ==
    [indexed |-> "clear", cleared |-> "publish", published |-> "commit",
     committed |-> "prune", pruned |-> "audit", audited |-> "idle"]

SyncDirectory ==
    /\ pc \in DOMAIN AfterSync
    /\ durable' = dir
    /\ pc' = AfterSync[pc]
    /\ UNCHANGED <<dir, spare, sample, reader>>

Goto(place) == pc' = place
SetIndex(index) == dir' = [dir EXCEPT !.index = index]
SetSamples(samples) == dir' = [dir EXCEPT !.samples = samples]

(* A pass has collected rows, or failed to; either way it will be recorded.    *)
BeginPass ==
    /\ pc = "idle"
    /\ sample' \in Sample
    /\ \/ Goto("open")
       \/ Goto("unrecorded")
    /\ UNCHANGED <<dir, durable, spare, reader>>

(* What the index and the latest sample make of the pass.  The pass reads the  *)
(* index once; as nobody else writes it, it is still dir.index when it is used. *)
Damaged ==
    \/ dir.index = Absent /\ dir.samples # {}
    \/ \E e \in Listed(dir.index) : e \notin dir.samples
FirstPass == dir.index = Absent
Repeats == Entries(dir.index) # << >> /\ Last(dir.index) = sample
BadRefused == FALSE
Refused ==
    /\ Entries(dir.index) # << >>
    /\ sample.id <= Last(dir.index).id
    /\ ~Repeats

(* Remove the temporaries a dead pass left, then read the index and decide.    *)
Open ==
    /\ pc = "open"
    /\ spare' = {}
    /\ durable' = dir
    /\ Goto(IF Damaged \/ Refused THEN "unrecorded"
            ELSE IF Repeats THEN "prune"
            ELSE IF FirstPass THEN "index"
            ELSE "clear")
    /\ UNCHANGED <<dir, sample, reader>>

(* Before the first sample there is an empty index, or a crash after it would  *)
(* leave a store that looks damaged.                                           *)
CreateIndex ==
    /\ pc = "index"
    /\ SetIndex(<< >>)
    /\ Goto("indexed")
    /\ UNCHANGED <<durable, spare, sample, reader>>

(* Samples no index refers to are removed one by one; those of the stamp about *)
(* to be published are left.                                                   *)
Orphans(keep) == {s \in dir.samples : s.id \notin {e.id : e \in keep}}

RemoveOrphan(from, to, keep) ==
    /\ pc = from
    /\ \/ /\ \E s \in Orphans(keep) : SetSamples(dir.samples \ {s})
          /\ UNCHANGED pc
       \/ /\ Orphans(keep) = {}
          /\ Goto(to)
          /\ UNCHANGED dir
    /\ UNCHANGED <<durable, spare, sample, reader>>

BadClearOrphans ==
    /\ pc = "clear"
    /\ Goto("cleared")
    /\ UNCHANGED <<dir, durable, spare, sample, reader>>
ClearOrphans == RemoveOrphan("clear", "cleared", Listed(dir.index) \cup {sample})

(* _physical_budget: one more sample than the index may hold.                  *)
WithinBudget(more) == Cardinality(dir.samples) + more <= MaxSamples + 1

(* A sample is linked under its name, complete and only if the name is free;   *)
(* an equal one that a dead pass left is taken over.                           *)
Published == {s \in dir.samples : s.id = sample.id}

PublishSample ==
    /\ pc = "publish"
    /\ \/ /\ Published = {}
          /\ WithinBudget(1)
          /\ SetSamples(dir.samples \cup {sample})
          /\ spare' = {sample.id}
          /\ Goto("linked")
       \/ /\ Published = {sample}
          /\ Goto("commit")
          /\ UNCHANGED <<dir, spare>>
       \/ /\ \/ Published \notin {{}, {sample}}
             \/ Published = {} /\ ~WithinBudget(1)
          /\ Goto("unrecorded")
          /\ UNCHANGED <<dir, spare>>
    /\ UNCHANGED <<durable, sample, reader>>

UnlinkTemporary ==
    /\ pc = "linked"
    /\ spare' = {}
    /\ Goto("published")
    /\ UNCHANGED <<dir, durable, sample, reader>>

(* The index without what is past the retention, which is its oldest part as   *)
(* its stamps grow, with the new sample, and without its oldest when there are *)
(* too many.                                                                   *)
Fresh(e) == e.id + Retention >= sample.id
Newest(entries, n) == SubSeq(entries, 1 + (IF Len(entries) > n THEN Len(entries) - n ELSE 0), Len(entries))
FirstFresh == Min({i \in 1..Len(dir.index) + 1 : i = Len(dir.index) + 1 \/ Fresh(dir.index[i])})
Retained == Newest(Append(SubSeq(dir.index, FirstFresh, Len(dir.index)), sample), MaxSamples)

BadCommitIndex ==
    /\ pc = "commit"
    /\ SetIndex(Retained)
    /\ Goto("prune")
    /\ UNCHANGED <<durable, spare, sample, reader>>
CommitIndex ==
    /\ pc = "commit"
    /\ IF WithinBudget(0)
         THEN /\ SetIndex(Retained)
              /\ Goto("committed")
         ELSE /\ Goto("unrecorded")
              /\ UNCHANGED dir
    /\ UNCHANGED <<durable, spare, sample, reader>>

BadPrune == RemoveOrphan("prune", "pruned", {sample})
Prune == RemoveOrphan("prune", "pruned", Listed(dir.index))

(* record_attempt: what became of the pass, newest first.                      *)
RecordAttempt ==
    /\ pc \in {"audit", "unrecorded"}
    /\ spare' = {}
    /\ LET attempt == [at |-> sample.id, recorded |-> pc = "audit"]
           all == <<attempt>> \o dir.attempts
       IN dir' = [dir EXCEPT !.attempts =
                    SubSeq(all, 1, IF Len(all) < MaxAttempts THEN Len(all) ELSE MaxAttempts)]
    /\ Goto("audited")
    /\ UNCHANGED <<durable, sample, reader>>

-----------------------------------------------------------------------------
(* A system call of the pass fails: the pass goes on to record the failure, or *)
(* ends if that is what failed.  The finally clause removes the temporary if   *)
(* the disk lets it.                                                           *)
BadDiskError ==
    /\ pc \notin {"idle", "audit", "unrecorded", "audited"}
    /\ Goto("audit")
    /\ UNCHANGED <<dir, durable, spare, sample, reader>>
DiskError ==
    /\ pc # "idle"
    /\ spare' \in {spare, {}}
    /\ Goto(IF pc \in {"audit", "unrecorded", "audited"} THEN "idle" ELSE "unrecorded")
    /\ UNCHANGED <<dir, durable, sample, reader>>

Kill ==
    /\ pc # "idle"
    /\ Goto("idle")
    /\ UNCHANGED <<dir, durable, spare, sample, reader>>

NoReader == [pc |-> "idle", index |-> << >>, next |-> 0, pair |-> << >>]

(* Any mixture of the changes since the last fsync is what the disk shows.     *)
PowerLoss ==
    /\ \E index \in {dir.index, durable.index},
          attempts \in {dir.attempts, durable.attempts},
          changed \in SUBSET ((dir.samples \ durable.samples) \cup (durable.samples \ dir.samples)) :
         /\ dir' = [index |-> index, attempts |-> attempts,
                    samples |-> (durable.samples \ changed) \cup (changed \ durable.samples)]
         /\ durable' = dir'
         /\ spare' \in {{}, {id \in spare : \E s \in dir'.samples : s.id = id}}
    /\ Goto("idle")
    /\ reader' = NoReader
    /\ UNCHANGED sample

-----------------------------------------------------------------------------
(* read_changes in a web worker: the index, the name of every sample it lists, *)
(* then the two samples of one interval, each checked against its entry.       *)
Reading(place) == reader.pc = place
Finish(how) == reader' = [NoReader EXCEPT !.pc = how]
CollectorRests == UNCHANGED <<dir, durable, spare, pc, sample>>

ReadIndex ==
    /\ reader.pc \in {"idle", "failed"}
    /\ reader' = [NoReader EXCEPT !.pc = IF dir.index = Absent THEN "missing" ELSE "checking",
                                  !.index = dir.index, !.next = 1]
    /\ CollectorRests

(* No index: a new store only if there are no samples either.                  *)
CheckMissing ==
    /\ Reading("missing")
    /\ Finish(IF dir.samples = {} THEN "idle" ELSE "failed")
    /\ CollectorRests

Intact(e) == \E s \in dir.samples : s.id = e.id /\ s.id \notin spare

CheckName ==
    /\ Reading("checking")
    /\ reader.next \in DOMAIN reader.index
    /\ IF Intact(reader.index[reader.next])
         THEN reader' = [reader EXCEPT !.next = @ + 1]
         ELSE Finish("failed")
    /\ CollectorRests

(* The request chooses an interval among the entries its own clock accepts.    *)
ChoosePair ==
    /\ Reading("checking")
    /\ reader.next \notin DOMAIN reader.index
    /\ \/ Finish("idle")
       \/ \E i \in 2..Len(reader.index) :
            reader' = [reader EXCEPT !.pc = "reading",
                                     !.pair = <<reader.index[i - 1], reader.index[i]>>]
    /\ CollectorRests

ReadSample ==
    /\ Reading("reading")
    /\ IF Head(reader.pair) \in dir.samples /\ Intact(Head(reader.pair))
         THEN IF Len(reader.pair) = 1 THEN Finish("idle")
                                      ELSE reader' = [reader EXCEPT !.pair = Tail(@)]
         ELSE Finish("failed")
    /\ CollectorRests

-----------------------------------------------------------------------------
Init ==
    /\ dir = [index |-> Absent, samples |-> {}, attempts |-> << >>]
    /\ durable = dir
    /\ spare = {}
    /\ pc = "idle"
    /\ sample \in Sample
    /\ reader = NoReader

Collector ==
    \/ BeginPass \/ Open \/ CreateIndex \/ ClearOrphans \/ PublishSample
    \/ UnlinkTemporary \/ CommitIndex \/ Prune \/ RecordAttempt \/ SyncDirectory

Fault == DiskError \/ Kill \/ PowerLoss

Request == ReadIndex \/ CheckMissing \/ CheckName \/ ChoosePair \/ ReadSample

Next == Collector \/ Fault \/ Request

Spec == Init /\ [][Next]_vars

-----------------------------------------------------------------------------
TypeOK ==
    /\ dir \in Directory /\ durable \in Directory
    /\ spare \subseteq Stamp
    /\ pc \in DOMAIN AfterSync \cup {"idle", "open", "index", "clear", "publish",
              "linked", "commit", "prune", "audit", "unrecorded"}
    /\ sample \in Sample

(* Whatever the disk would show after a power loss now, the index it shows     *)
(* refers only to samples that are there, whole and under one name; and there  *)
(* are no samples without an index, which every later pass would take for      *)
(* damage and refuse (history.py:287, record_success).                         *)
StoreSurvives ==
    /\ TypeOK
    /\ \A index \in {dir.index, durable.index} :
          /\ Listed(index) \subseteq dir.samples \cap durable.samples
          /\ \A e \in Listed(index) : e.id \notin spare
          /\ index = Absent => dir.samples = {} /\ durable.samples = {}

(* Crashes never leave so many samples that the budget of physical files       *)
(* refuses the next one: the refusal would be permanent, since only a pass     *)
(* that gets further removes them (history.py:238, _physical_budget).          *)
BudgetNeverRefuses ==
    /\ Cardinality(dir.samples \cup durable.samples) <= MaxSamples + 1
    /\ pc = "publish" => Published # {} \/ WithinBudget(1)

(* An attempt that says its sample was recorded is right even after a power    *)
(* loss: the sample is in the index, or the index holds only newer ones        *)
(* (anomaly_collect.py:50, the history_status of an attempt).                  *)
AttemptsAreTrue ==
    \A a \in Members(dir.attempts) \cup Members(durable.attempts) :
        a.recorded =>
            /\ Listed(durable.index) # {}
            /\ \/ \E e \in Listed(durable.index) : e.id = a.at
               \/ \A e \in Listed(durable.index) : e.id > a.at

(* A request fails only because a pass replaced the index while it was served: *)
(* a store at rest, whatever crashes it has seen, answers every request        *)
(* (read_changes against _remove_orphans).                                     *)
OnlyOverlapFails ==
    [][reader.pc # "failed" /\ reader'.pc = "failed" => dir.index # reader.index]_vars

(* What is certain to survive is the log the history promises.                 *)
Store == INSTANCE HotspotStore WITH log <- Entries(durable.index)
KeepsItsPromise == Store!Spec
=============================================================================
