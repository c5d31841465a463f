-------------------------- MODULE ReleaseTransaction --------------------------
(* scripts/deploy/release.py: how a release of the front end and the back end  *)
(* is planned, published, undone and rolled back, and what keeps the           *)
(* collectors off a back end that is being switched.  Every file that is       *)
(* replaced, link that is moved and service that is restarted is a step; the   *)
(* publisher may be interrupted (SIGTERM raises an exception anywhere), fail,  *)
(* or be killed between any two.                                               *)
(*                                                                             *)
(* An operator named Bad... is a plausible mistake in the one that follows it. *)
(*                                                                             *)
(* publish.lock admits one publisher at a time, so there is one.  Validation   *)
(* and staging of a package come before the first step here: they only refuse, *)
(* or add a directory nobody uses yet.                                         *)

CONSTANTS
    Release,        \* releases that were ever staged
    Source,         \* the git tree of each component of each release
    Content,        \* its product files; another tree may give the same files
                    \* (new tests), and one tree other files (another build)
    Collects,       \* the releases whose back end has this collector
    Legacy,         \* releases from before the version endpoints and manifests:
                    \* a plan does not know their files
    None

Component == {"frontend", "backend"}
Collector == {"market", "killboard"}
State == [Component -> Release]
Names == [old : State, new : State, before : State \cup {None}]

ASSUME ReleaseAssumption ==
    /\ DOMAIN Source = Release /\ \A r \in Release : DOMAIN Source[r] = Component
    /\ DOMAIN Content = Release /\ \A r \in Release : DOMAIN Content[r] = Component
    /\ Collects \in [Collector -> SUBSET Release]
    /\ Legacy \subseteq Release
    /\ None \notin State \cup Names

VARIABLES
    state, previous,    \* state.json and previous.json
    journal,            \* transaction.json, which names the two states
    link, next,         \* current/<component>, and <component>.next left behind
    running,            \* the release the back end's processes have loaded
    delta,              \* a planned package: the state it was planned for
    pub,                \* the publisher
    held,               \* the collectors' locks it holds
    col,                \* where each collector process is
    loaded              \* the back end whose code it has loaded

files == <<state, previous, journal, link, next>>
vars == <<files, running, delta, pub, held, col, loaded>>

Package == [target : Release, base : State, changed : SUBSET Component]
NoPublisher == [pc |-> "idle"]
Places == {"lock", "prepare", "armed", "switch", "placed", "restart", "health",
           "previous", "state", "committed", "undone"}

TypeOK ==
    /\ state \in State /\ previous \in State \cup {None}
    /\ journal \in Names \cup {None}
    /\ link \in State /\ next \subseteq Component
    /\ running \in Release
    /\ delta \in Package \cup {None}
    /\ pub \in {NoPublisher} \cup
         [pc : Places, undoing : BOOLEAN, old : State, new : State, before : State \cup {None},
          changed : SUBSET Component, left : SUBSET Component]
    /\ held \subseteq Collector
    /\ col \in [Collector -> {"idle", "started", "locked", "checked", "working"}]
    /\ loaded \in [Collector -> Release]

Init ==
    /\ \E r \in Release : state = [c \in Component |-> r] /\ running = r
                          /\ loaded = [k \in Collector |-> r]
    /\ link = state /\ previous \in {None, state}
    /\ journal = None /\ next = {} /\ delta = None
    /\ pub = NoPublisher /\ held = {}
    /\ col = [k \in Collector |-> "idle"]

-----------------------------------------------------------------------------
At(place) == pub.pc = place
Goto(place) == pub' = [pub EXCEPT !.pc = place]
(* The locks are held until the publisher is out of the transaction.           *)
Leave == pub' = NoPublisher /\ held' = {}
Idle == At("idle")
Rest == UNCHANGED <<delta, col, loaded>>

(* read_active_state: an unfinished transaction blocks everything.             *)
Readable == journal = None /\ link = state

(* changed_components: where the tree of a release is not the active one, for  *)
(* a full package.  _release_plan: where its files are not, for a delta.       *)
Renewed(target) == {c \in Component : Source[state[c]][c] # Source[target][c]}
Differing(target) ==
    {c \in Component : state[c] \in Legacy \/ Content[state[c]][c] # Content[target][c]}
Replaced(changed, target) == [c \in Component |-> IF c \in changed THEN target ELSE state[c]]

Begin(new, changed) ==
    /\ Idle /\ Readable
    /\ pub' = [pc |-> "lock", undoing |-> FALSE, old |-> state, new |-> new,
               before |-> previous, changed |-> changed, left |-> changed]
    /\ UNCHANGED <<files, running, held>> /\ Rest

(* plan_release.  The package that is then built holds these components alone. *)
Plan ==
    /\ Idle /\ Readable
    /\ \E r \in Release : delta' = [target |-> r, base |-> state, changed |-> Differing(r)]
    /\ UNCHANGED <<files, running, pub, held, col, loaded>>

PublishFull ==
    \E r \in Release : Renewed(r) # {} /\ Begin(Replaced(Renewed(r), r), Renewed(r))

(* check_delta_plan: the state planned for is still the active one.            *)
PlanHolds == delta.base = state /\ delta.changed = Differing(delta.target)
PublishDelta ==
    /\ delta # None /\ PlanHolds /\ delta.changed # {}
    /\ Begin(Replaced(delta.changed, delta.target), delta.changed)

Rollback ==
    /\ previous # None
    /\ Begin(previous, {c \in Component : previous[c] # state[c]})

-----------------------------------------------------------------------------
(* transact: the lock of each collector that the old or the new back end has,  *)
(* if it is free.                                                              *)
BadNeeded(k) == pub.new["backend"] \in Collects[k]
Needed(k) == pub.old["backend"] \in Collects[k] \/ pub.new["backend"] \in Collects[k]
Holding(k) == col[k] \in {"locked", "checked", "working"}

TakeLock ==
    /\ At("lock")
    /\ \/ \E k \in Collector :
            /\ Needed(k) /\ k \notin held /\ ~Holding(k)
            /\ k = "killboard" /\ Needed("market") => "market" \in held
            /\ held' = held \cup {k}
            /\ UNCHANGED pub
       \/ (\A k \in Collector : Needed(k) => k \in held) /\ Goto("prepare") /\ UNCHANGED held
    /\ UNCHANGED <<files, running>> /\ Rest

(* _transact_locked.                                                           *)
Journal ==
    /\ At("prepare") /\ journal = None
    /\ journal' = [old |-> pub.old, new |-> pub.new, before |-> pub.before]
    /\ Goto("armed")
    /\ UNCHANGED <<state, previous, link, next, running, held>> /\ Rest

EnterTry ==
    /\ At("armed") /\ Goto("switch")
    /\ UNCHANGED <<files, running, held>> /\ Rest

(* for component in changed: switch(component, ...), the front end first.      *)
Aim == IF pub.undoing THEN pub.old ELSE pub.new
Turn(c) == c \in pub.left /\ (c = "backend" => "frontend" \notin pub.left)

PlaceNext(c) ==
    /\ At("switch") /\ Turn(c) /\ c \notin next
    /\ next' = next \cup {c}
    /\ Goto("placed")
    /\ UNCHANGED <<state, previous, journal, link, running, held>> /\ Rest
MoveLink(c) ==
    /\ At("placed") /\ Turn(c)
    /\ link' = [link EXCEPT ![c] = Aim[c]] /\ next' = next \ {c}
    /\ pub' = [pub EXCEPT !.pc = "switch", !.left = @ \ {c}]
    /\ UNCHANGED <<state, previous, journal, running, held>> /\ Rest
EndSwitch ==
    /\ At("switch") /\ pub.left = {}
    /\ Goto(IF "backend" \in pub.changed THEN "restart" ELSE "health")
    /\ UNCHANGED <<files, running, held>> /\ Rest

Restart ==
    /\ At("restart")
    /\ running' = link["backend"]
    /\ Goto("health")
    /\ UNCHANGED <<files, held>> /\ Rest

(* The live versions are those of the state; a legacy one cannot be asked.     *)
Serves(s) ==
    /\ s["frontend"] \in Legacy \/ link["frontend"] = s["frontend"]
    /\ s["backend"] \in Legacy \/ running = s["backend"]
Healthy ==
    /\ At("health") /\ Serves(Aim)
    /\ Goto(IF pub.undoing THEN "state" ELSE "previous")
    /\ UNCHANGED <<files, running, held>> /\ Rest

(* Forth: previous, then state.  Back: state, then previous.                   *)
BadWritePrevious ==
    /\ At("previous")
    /\ previous' = pub.old
    /\ Goto(IF pub.undoing THEN "undone" ELSE "state")
    /\ UNCHANGED <<state, journal, link, next, running, held>> /\ Rest
WritePrevious ==
    /\ At("previous")
    /\ previous' = IF pub.undoing THEN pub.before ELSE pub.old
    /\ Goto(IF pub.undoing THEN "undone" ELSE "state")
    /\ UNCHANGED <<state, journal, link, next, running, held>> /\ Rest
BadWriteState ==
    /\ At("state")
    /\ state' = IF pub.undoing THEN state ELSE pub.new
    /\ Goto(IF pub.undoing THEN "previous" ELSE "committed")
    /\ UNCHANGED <<previous, journal, link, next, running, held>> /\ Rest
WriteState ==
    /\ At("state")
    /\ state' = Aim
    /\ Goto(IF pub.undoing THEN "previous" ELSE "committed")
    /\ UNCHANGED <<previous, journal, link, next, running, held>> /\ Rest
Finish ==
    /\ pub.pc \in {"committed", "undone"}
    /\ journal' = None
    /\ Leave
    /\ UNCHANGED <<state, previous, link, next, running>> /\ Rest

-----------------------------------------------------------------------------
(* An exception: a command that fails, a check that fails, or SIGTERM.  Before *)
(* the try, and while undoing, it ends the publisher; the journal, if there is *)
(* one, stays.  A symbolic link that was placed is removed, unless the signal  *)
(* came while it was being removed; a failed restart may have happened.        *)
InTry == ~pub.undoing /\ pub.pc \in {"switch", "placed", "restart", "health", "previous", "state", "committed"}
Outside == At("committed") \/ pub.undoing \/ pub.pc \in {"lock", "prepare", "armed"}

Debris ==
    /\ next' \in {next} \cup (IF At("placed") THEN {{c \in next : ~Turn(c)}} ELSE {})
    /\ running' \in {running} \cup (IF At("restart") THEN {link["backend"]} ELSE {})
UndoFrom == [pub EXCEPT !.pc = "switch", !.undoing = TRUE, !.left = pub.changed]
Interrupt ==
    /\ ~Idle
    /\ Debris
    /\ \/ InTry /\ pub' = UndoFrom /\ UNCHANGED held
       \/ Outside /\ Leave
    /\ UNCHANGED <<state, previous, journal, link>> /\ Rest

(* SIGKILL or a reboot of the host: the locks are the kernel's and are free.   *)
Kill ==
    /\ ~Idle /\ Leave
    /\ UNCHANGED <<files, running>> /\ Rest

(* The service manager starts the back end again on its own.                   *)
ServiceRestarts ==
    /\ running' = link["backend"]
    /\ UNCHANGED <<files, pub, held>> /\ Rest

(* Operator recovery: the collectors are quiesced, links, services and files   *)
(* put into one of the two states the journal names, and the journal removed.  *)
OperatorRecovers(s, before) ==
    /\ Idle /\ \A k \in Collector : col[k] = "idle"
    /\ state' = s /\ previous' = before /\ link' = s /\ next' = {} /\ running' = s["backend"]
    /\ journal' = None
    /\ UNCHANGED <<pub, held>> /\ Rest

-----------------------------------------------------------------------------
(* market_tick loads its code, takes the lock, and only then looks for a       *)
(* journal and whether its code is still the current one.  The shell wrapper   *)
(* of killboard_collect (and of anomaly_collect, under the same lock) takes    *)
(* the lock first and loads the current code under it.                         *)
Move(k, place) == col' = [col EXCEPT ![k] = place]
Load(k) == loaded' = [loaded EXCEPT ![k] = link["backend"]]
Others == UNCHANGED <<files, running, delta, pub, held>>

Start(k) ==
    /\ col[k] = "idle" /\ link["backend"] \in Collects[k]
    /\ Move(k, "started") /\ Load(k) /\ Others
Acquire(k) ==
    /\ col[k] = "started"
    /\ Move(k, IF k \notin held THEN "locked" ELSE "idle")
    /\ UNCHANGED loaded /\ Others
CheckJournal(k) ==
    /\ col[k] = "locked"
    /\ IF k = "market"
         THEN Move(k, IF journal # None THEN "idle" ELSE "checked") /\ UNCHANGED loaded
         ELSE Load(k) /\ Move(k, IF link["backend"] \in Collects[k] THEN "working" ELSE "idle")
    /\ Others
IsCurrent(k) == loaded[k] = link["backend"]
CheckCurrent(k) ==
    /\ col[k] = "checked"
    /\ Move(k, IF IsCurrent(k) THEN "working" ELSE "idle")
    /\ UNCHANGED loaded /\ Others
End(k) ==
    /\ col[k] # "idle" /\ Move(k, "idle")
    /\ UNCHANGED loaded /\ Others

Publisher ==
    \/ Plan \/ PublishFull \/ PublishDelta \/ Rollback
    \/ TakeLock \/ Journal \/ EnterTry \/ EndSwitch \/ Restart \/ Healthy
    \/ WritePrevious \/ WriteState \/ Finish
    \/ \E c \in Component : PlaceNext(c) \/ MoveLink(c)
CollectorStep ==
    \E k \in Collector : Start(k) \/ Acquire(k) \/ CheckJournal(k) \/ CheckCurrent(k) \/ End(k)
Operator ==
    /\ journal # None
    /\ OperatorRecovers(journal.old, journal.before) \/ OperatorRecovers(journal.new, journal.old)

Next == Publisher \/ CollectorStep \/ Interrupt \/ Kill \/ ServiceRestarts \/ Operator

Spec == Init /\ [][Next]_vars

-----------------------------------------------------------------------------
(* Both components of a state have the files of one release, as a delta leaves *)
(* them, or the trees of one, as a full package does (it keeps a component     *)
(* whose tree is the same, whatever its bytes): no package is ever laid over a *)
(* state that it was not selected for, through rollbacks, other publishers and *)
(* recoveries.                                                                 *)
OneRelease(s) ==
    \E r \in Release :
        \/ \A c \in Component : Content[s[c]][c] = Content[r][c]
        \/ \A c \in Component : Source[s[c]][c] = Source[r][c]

(* Without a journal the links, the running back end and the recorded state    *)
(* agree, whatever failed, was interrupted or was killed before.               *)
Settled ==
    Idle /\ journal = None => link = state /\ running = state["backend"] /\ next = {}

(* With one, it names all that an operator needs: every file and link is as    *)
(* one of its two states has it.                                               *)
Recoverable ==
    journal # None =>
        /\ state \in {journal.old, journal.new}
        /\ previous \in {journal.before, journal.old}
        /\ running \in {journal.old["backend"], journal.new["backend"]}
        /\ \A c \in Component : link[c] \in {journal.old[c], journal.new[c]}

(* A release is entirely committed, entirely undone, or entirely recoverable   *)
(* from its journal (release.py 421-462), and never half of another.           *)
CommittedOrUndone ==
    /\ TypeOK /\ Settled /\ Recoverable
    /\ OneRelease(state) /\ (previous # None => OneRelease(previous))

(* Taken when nothing is under way, and from the journal while something is,   *)
(* the two state files are a history of whole publications and rollbacks:      *)
(* whatever failed, was undone, killed or recovered by hand, no publication    *)
(* counts before it is finished, none counts in part, and previous.json is     *)
(* what was current before it (release.py 421-462).                            *)
Current == IF journal = None THEN state ELSE journal.old
Former == IF journal = None THEN previous ELSE journal.before
History == INSTANCE ReleaseHistory WITH current <- Current, previous <- Former
ReleasesAreAtomic == History!Spec

(* A collector at work runs the back end that is linked, through every switch  *)
(* and whatever was killed; the one of the market, which looks for a journal,  *)
(* runs one that was verified (release.py 364-418, deploy_guard.py,            *)
(* market_tick.py).                                                            *)
CollectorsSeeOneRelease ==
    /\ \A k \in Collector : col[k] = "working" => link["backend"] = loaded[k]
    /\ col["market"] = "working" => journal = None /\ state["backend"] = loaded["market"]
=============================================================================
