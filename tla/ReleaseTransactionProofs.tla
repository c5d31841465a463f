----------------------- MODULE ReleaseTransactionProofs -----------------------
(* Theorems of ReleaseTransaction, for any releases, contents and capabilities. *)
EXTENDS ReleaseTransaction, TLAPS

PubRecord ==
    [pc : Places, undoing : BOOLEAN, old : State, new : State, before : State \cup {None},
     changed : SUBSET Component, left : SUBSET Component]
Whole(s) == s \in State /\ OneRelease(s)
WholeOrNone(s) == s = None \/ Whole(s)

(* What the publisher remembers is enough to go either way.                     *)
Memory ==
    /\ pub \in PubRecord
    /\ Whole(pub.old) /\ Whole(pub.new) /\ WholeOrNone(pub.before)
    /\ pub.left \subseteq pub.changed
    /\ \A c \in Component : c \notin pub.changed => pub.new[c] = pub.old[c]

Locking == pub.pc \in {"lock", "prepare"}
Beyond == pub.pc \in {"restart", "health", "previous", "state", "committed", "undone"}

(* Before the journal nothing has changed.                                      *)
BeforeJournal ==
    Locking =>
        /\ ~pub.undoing /\ journal = None /\ next = {} /\ pub.left = pub.changed
        /\ state = pub.old /\ previous = pub.before
        /\ link = pub.old /\ running = pub.old["backend"]

(* After it, the links that were turned show where the publisher goes, and what *)
(* it left behind is on a link still to be turned.                              *)
Links ==
    /\ journal = [old |-> pub.old, new |-> pub.new, before |-> pub.before]
    /\ running \in {pub.old["backend"], pub.new["backend"]}
    /\ \A c \in Component :
          IF c \in pub.left \/ c \notin pub.changed
            THEN link[c] \in {pub.old[c], pub.new[c]} ELSE link[c] = Aim[c]
    /\ next \subseteq pub.left
    /\ Beyond => pub.left = {}
    /\ pub.pc \in {"health", "previous", "state", "committed", "undone"} => running = Aim["backend"]
    /\ pub.pc = "armed" => ~pub.undoing
Metadata ==
    /\ state \in {pub.old, pub.new} /\ previous \in {pub.before, pub.old}
    /\ ~pub.undoing =>
          /\ state = IF pub.pc = "committed" THEN pub.new ELSE pub.old
          /\ previous = IF pub.pc \in {"state", "committed"} THEN pub.old ELSE pub.before
          /\ pub.pc # "undone"
    /\ pub.undoing =>
          /\ pub.pc \in {"previous", "undone"} => state = pub.old
          /\ pub.pc = "undone" => previous = pub.before
          /\ pub.pc # "committed"

Active == pub # NoPublisher => Memory /\ BeforeJournal /\ (~Locking => Links /\ Metadata)

Named ==
    journal # None =>
        /\ journal \in Names
        /\ Whole(journal.old) /\ Whole(journal.new) /\ WholeOrNone(journal.before)
Quiet == pub = NoPublisher /\ journal = None => link = state /\ running = state["backend"] /\ next = {}
Clean == Whole(state) /\ WholeOrNone(previous)

IInv == TypeOK /\ Active /\ Named /\ Quiet /\ Recoverable /\ Clean

-----------------------------------------------------------------------------
LEMMA Kinds == ASSUME NEW p \in PubRecord PROVE p # NoPublisher /\ p.pc # "idle"
<1> QED BY DEF PubRecord, NoPublisher, Places

(* An active publisher, what it remembers and what it has done so far.          *)
LEMMA ActiveFacts ==
    ASSUME IInv, pub.pc # "idle"
    PROVE  pub \in PubRecord /\ Memory /\ BeforeJournal /\ (~Locking => Links /\ Metadata)
<1>1. pub # NoPublisher
  BY DEF NoPublisher
<1> QED BY <1>1 DEF IInv, Active, Memory

LEMMA GotoFacts ==
    ASSUME pub \in PubRecord, NEW place \in Places, Goto(place)
    PROVE  /\ pub' \in PubRecord /\ pub'.pc = place /\ pub'.undoing = pub.undoing
           /\ pub'.old = pub.old /\ pub'.new = pub.new /\ pub'.before = pub.before
           /\ pub'.changed = pub.changed /\ pub'.left = pub.left
<1> QED BY DEF Goto, PubRecord

LEMMA MemoryKept ==
    ASSUME Memory, pub' \in PubRecord, pub'.old = pub.old, pub'.new = pub.new,
           pub'.before = pub.before, pub'.changed = pub.changed, pub'.left \subseteq pub.changed
    PROVE  Memory'
<1> QED BY DEF Memory, Whole, WholeOrNone, OneRelease

(* While a publisher is active, the rest follows from what is known of it.      *)
LEMMA Rebuild ==
    ASSUME TypeOK', Memory', BeforeJournal', ~Locking' => Links' /\ Metadata'
    PROVE  IInv'
<1>1. (pub # NoPublisher)' /\ (pub \in PubRecord)'
  BY Kinds DEF Memory
<1>2. (Active /\ Quiet)'
  BY <1>1 DEF Active, Quiet
<1>3. CASE Locking'
  <2>1. journal' = None /\ state' = pub'.old /\ previous' = pub'.before
    BY <1>3 DEF BeforeJournal, Locking
  <2>2. (Named /\ Recoverable)'
    BY <2>1 DEF Named, Recoverable
  <2>3. Clean'
    BY <2>1 DEF Memory, Clean
  <2> QED BY <1>2, <2>2, <2>3 DEF IInv
<1>4. CASE ~Locking'
  <2>1. journal' = [old |-> pub'.old, new |-> pub'.new, before |-> pub'.before]
    BY <1>4 DEF Links
  <2>2. journal'.old = pub'.old /\ journal'.new = pub'.new /\ journal'.before = pub'.before
    BY <2>1
  <2>3. journal' \in Names
    BY <1>1, <2>1 DEF PubRecord, Names
  <2>4. Named'
    BY <2>2, <2>3 DEF Named, Memory
  <2>5. (\A c \in Component : link[c] \in {pub.old[c], pub.new[c]})'
    BY <1>4 DEF Links, Aim
  <2>6. Recoverable'
    BY <1>4, <2>2, <2>5 DEF Links, Metadata, Recoverable
  <2>7. Clean'
    BY <1>4 DEF Metadata, Memory, Clean, Whole, WholeOrNone
  <2> QED BY <1>2, <2>4, <2>6, <2>7 DEF IInv
<1> QED BY <1>3, <1>4

(* When it leaves and the files stay, they are settled or the journal is there. *)
LEMMA LeaveKeeps ==
    ASSUME IInv, pub.pc # "idle", Leave, UNCHANGED <<state, previous, journal, link, delta, col, loaded>>,
           next' \subseteq next, running' \in Release,
           Locking => UNCHANGED <<next, running>>,
           ~Locking => running' \in {running, link["backend"]}
    PROVE  IInv'
<1>1. pub \in PubRecord /\ Memory /\ BeforeJournal /\ (~Locking => Links /\ Metadata)
  BY ActiveFacts
<1>2. pub' = NoPublisher /\ held' = {}
  BY DEF Leave
<1>3. TypeOK'
  BY <1>2 DEF IInv, TypeOK
<1>4. Active'
  BY <1>2 DEF Active
<1>5. (Named /\ Clean)'
  BY DEF IInv, Named, Clean, Whole, WholeOrNone, OneRelease
<1>6. Recoverable'
  <2>1. CASE Locking
    BY <1>1, <2>1 DEF BeforeJournal, Recoverable
  <2>2. CASE ~Locking
    <3>1. journal.old = pub.old /\ journal.new = pub.new
      BY <1>1, <2>2 DEF Links
    <3>2. journal # None
      BY <1>1, <2>2, ReleaseAssumption DEF Links, PubRecord, Names
    <3>3. link["backend"] \in {journal.old["backend"], journal.new["backend"]}
      BY <3>2 DEF IInv, Recoverable, Component
    <3> QED BY <2>2, <3>2, <3>3 DEF IInv, Recoverable
  <2> QED BY <2>1, <2>2
<1>7. Quiet'
  <2>1. CASE Locking
    BY <1>1, <2>1 DEF BeforeJournal, Quiet
  <2>2. CASE ~Locking
    BY <1>1, <2>2, ReleaseAssumption DEF Links, PubRecord, Names, Quiet
  <2> QED BY <2>1, <2>2
<1> QED BY <1>3, <1>4, <1>5, <1>6, <1>7 DEF IInv

LEMMA ReplacedType ==
    ASSUME TypeOK, NEW r \in Release, NEW changed \in SUBSET Component
    PROVE  Replaced(changed, r) \in State
<1> QED BY DEF Replaced, TypeOK, State

(* A full package leaves the trees of its release, a delta its files.           *)
LEMMA RenewedWhole ==
    ASSUME TypeOK, NEW r \in Release, NEW changed, changed = Renewed(r)
    PROVE  /\ changed \in SUBSET Component
           /\ Whole(Replaced(changed, r))
           /\ \A c \in Component : c \notin changed => Replaced(changed, r)[c] = state[c]
<1>1. changed \in SUBSET Component
  BY DEF Renewed
<1>2. Replaced(changed, r) \in State
  BY <1>1, ReplacedType
<1>3. \A c \in Component : Source[Replaced(changed, r)[c]][c] = Source[r][c]
  BY <1>1 DEF Replaced, Renewed
<1> QED BY <1>1, <1>2, <1>3 DEF Whole, OneRelease, Replaced

LEMMA DifferingWhole ==
    ASSUME TypeOK, NEW r \in Release, NEW changed, changed = Differing(r)
    PROVE  /\ changed \in SUBSET Component
           /\ Whole(Replaced(changed, r))
           /\ \A c \in Component : c \notin changed => Replaced(changed, r)[c] = state[c]
<1>1. changed \in SUBSET Component
  BY DEF Differing
<1>2. Replaced(changed, r) \in State
  BY <1>1, ReplacedType
<1>3. \A c \in Component : Content[Replaced(changed, r)[c]][c] = Content[r][c]
  BY <1>1 DEF Replaced, Differing
<1> QED BY <1>1, <1>2, <1>3 DEF Whole, OneRelease, Replaced

LEMMA BeginKeeps ==
    ASSUME IInv, NEW new, Whole(new), NEW changed \in SUBSET Component,
           \A c \in Component : c \notin changed => new[c] = state[c],
           Begin(new, changed)
    PROVE  IInv'
<1>1. /\ pub = NoPublisher /\ journal = None /\ link = state
      /\ UNCHANGED <<state, previous, journal, link, next, running, delta, held, col, loaded>>
  BY DEF Begin, Idle, At, Readable, IInv, TypeOK, files, Rest, NoPublisher, Places
<1>2. pub' \in PubRecord
  BY DEF Begin, IInv, TypeOK, PubRecord, Places, Whole
<1>3. /\ pub'.pc = "lock" /\ pub'.undoing = FALSE /\ pub'.old = state /\ pub'.new = new
      /\ pub'.before = previous /\ pub'.changed = changed /\ pub'.left = changed
  BY DEF Begin
<1>4. TypeOK'
  BY <1>1, <1>2 DEF IInv, TypeOK, PubRecord
<1>5. Active'
  BY <1>1, <1>2, <1>3 DEF IInv, Active, Memory, BeforeJournal, Locking, Clean, Quiet, Whole, WholeOrNone, OneRelease
<1>6. (Named /\ Recoverable /\ Clean)'
  BY <1>1 DEF IInv, Named, Recoverable, Clean, Whole, WholeOrNone, OneRelease
<1>7. Quiet'
  BY <1>3 DEF Quiet, NoPublisher
<1> QED BY <1>4, <1>5, <1>6, <1>7 DEF IInv

-----------------------------------------------------------------------------
(* The publisher's steps.                                                       *)
LEMMA TakeLockKeeps == ASSUME IInv, TakeLock PROVE IInv'
<1>1. pub.pc = "lock" /\ pub.pc # "idle"
  BY DEF TakeLock, At
<1>2. pub \in PubRecord /\ Memory /\ BeforeJournal
  BY <1>1, ActiveFacts
<1>3. /\ UNCHANGED <<state, previous, journal, link, next, running, delta, col, loaded>>
      /\ held' \subseteq Collector
  BY DEF TakeLock, files, Rest, IInv, TypeOK
<1>4. CASE UNCHANGED pub
  <2>1. TypeOK'
    BY <1>3, <1>4 DEF IInv, TypeOK
  <2>2. Memory' /\ BeforeJournal' /\ Locking'
    BY <1>1, <1>2, <1>3, <1>4 DEF Memory, BeforeJournal, Locking, Whole, WholeOrNone, OneRelease
  <2> QED BY <2>1, <2>2, Rebuild
<1>5. CASE Goto("prepare")
  <2>1. /\ pub' \in PubRecord /\ pub'.pc = "prepare" /\ pub'.undoing = pub.undoing
        /\ pub'.old = pub.old /\ pub'.new = pub.new /\ pub'.before = pub.before
        /\ pub'.changed = pub.changed /\ pub'.left = pub.left
    BY <1>2, <1>5, GotoFacts DEF Places
  <2>2. TypeOK'
    BY <1>3, <2>1 DEF IInv, TypeOK, PubRecord
  <2>3. Memory'
    BY <1>2, <2>1, MemoryKept DEF Memory
  <2>4. BeforeJournal' /\ Locking'
    BY <1>1, <1>2, <1>3, <2>1 DEF BeforeJournal, Locking
  <2> QED BY <2>2, <2>3, <2>4, Rebuild
<1> QED BY <1>4, <1>5 DEF TakeLock

LEMMA JournalKeeps == ASSUME IInv, Journal PROVE IInv'
<1>1. pub.pc = "prepare" /\ pub.pc # "idle"
  BY DEF Journal, At
<1>2. pub \in PubRecord /\ Memory /\ BeforeJournal
  BY <1>1, ActiveFacts
<1>3. /\ pub' \in PubRecord /\ pub'.pc = "armed" /\ pub'.undoing = pub.undoing
      /\ pub'.old = pub.old /\ pub'.new = pub.new /\ pub'.before = pub.before
      /\ pub'.changed = pub.changed /\ pub'.left = pub.left
  BY <1>2, GotoFacts DEF Journal, Places
<1>4. /\ journal' = [old |-> pub.old, new |-> pub.new, before |-> pub.before]
      /\ UNCHANGED <<state, previous, link, next, running, held, delta, col, loaded>>
  BY DEF Journal, Rest
<1>5. TypeOK'
  BY <1>2, <1>3, <1>4 DEF IInv, TypeOK, PubRecord, Names
<1>6. Memory'
  BY <1>2, <1>3, MemoryKept DEF Memory
<1>7. BeforeJournal' /\ Links' /\ Metadata'
  BY <1>1, <1>2, <1>3, <1>4 DEF BeforeJournal, Locking, Links, Metadata, Beyond, Aim, Component
<1> QED BY <1>5, <1>6, <1>7, Rebuild

LEMMA EnterTryKeeps == ASSUME IInv, EnterTry PROVE IInv'
<1>1. pub.pc = "armed" /\ pub.pc # "idle"
  BY DEF EnterTry, At
<1>2. pub \in PubRecord /\ Memory /\ Links /\ Metadata
  BY <1>1, ActiveFacts DEF Locking
<1>3. PICK place \in {"switch"} : Goto(place)
  BY DEF EnterTry
<1>4. /\ pub' \in PubRecord /\ pub'.pc = place /\ pub'.undoing = pub.undoing
      /\ pub'.old = pub.old /\ pub'.new = pub.new /\ pub'.before = pub.before
      /\ pub'.changed = pub.changed /\ pub'.left = pub.left
  BY <1>2, <1>3, GotoFacts DEF Places
<1>5. /\ UNCHANGED <<state, previous, journal, link, next, running, held, delta, col, loaded>>
  BY DEF EnterTry, files, Rest
<1>6. TypeOK'
  BY <1>2, <1>4, <1>5 DEF IInv, TypeOK, PubRecord, Memory, Whole, State, Component
<1>7. Memory'
  BY <1>2, <1>4, MemoryKept DEF Memory
<1>8. BeforeJournal'
  BY <1>3, <1>4 DEF BeforeJournal, Locking
<1>9. Links'
  BY <1>1, <1>2, <1>3, <1>4, <1>5 DEF Links, Beyond, Aim, Component, Memory
<1>10. Metadata'
  BY <1>1, <1>2, <1>3, <1>4, <1>5 DEF Metadata, Aim
<1> QED BY <1>6, <1>7, <1>8, <1>9, <1>10, Rebuild

LEMMA EndSwitchKeeps == ASSUME IInv, EndSwitch PROVE IInv'
<1>1. pub.pc = "switch" /\ pub.pc # "idle"
  BY DEF EndSwitch, At
<1>2. pub \in PubRecord /\ Memory /\ Links /\ Metadata
  BY <1>1, ActiveFacts DEF Locking
<1>3. PICK place \in {"restart", "health"} : Goto(place) /\ (place = "health" => "backend" \notin pub.changed)
  BY DEF EndSwitch
<1>4. /\ pub' \in PubRecord /\ pub'.pc = place /\ pub'.undoing = pub.undoing
      /\ pub'.old = pub.old /\ pub'.new = pub.new /\ pub'.before = pub.before
      /\ pub'.changed = pub.changed /\ pub'.left = pub.left
  BY <1>2, <1>3, GotoFacts DEF Places
<1>5. /\ UNCHANGED <<state, previous, journal, link, next, running, held, delta, col, loaded>>
      /\ pub.left = {}
  BY DEF EndSwitch, files, Rest
<1>6. TypeOK'
  BY <1>2, <1>4, <1>5 DEF IInv, TypeOK, PubRecord, Memory, Whole, State, Component
<1>7. Memory'
  BY <1>2, <1>4, MemoryKept DEF Memory
<1>8. BeforeJournal'
  BY <1>3, <1>4 DEF BeforeJournal, Locking
<1>9. Links'
  BY <1>1, <1>2, <1>3, <1>4, <1>5 DEF Links, Beyond, Aim, Component, Memory
<1>10. Metadata'
  BY <1>1, <1>2, <1>3, <1>4, <1>5 DEF Metadata, Aim
<1> QED BY <1>6, <1>7, <1>8, <1>9, <1>10, Rebuild

LEMMA RestartKeeps == ASSUME IInv, Restart PROVE IInv'
<1>1. pub.pc = "restart" /\ pub.pc # "idle"
  BY DEF Restart, At
<1>2. pub \in PubRecord /\ Memory /\ Links /\ Metadata
  BY <1>1, ActiveFacts DEF Locking
<1>3. PICK place \in {"health"} : Goto(place)
  BY DEF Restart
<1>4. /\ pub' \in PubRecord /\ pub'.pc = place /\ pub'.undoing = pub.undoing
      /\ pub'.old = pub.old /\ pub'.new = pub.new /\ pub'.before = pub.before
      /\ pub'.changed = pub.changed /\ pub'.left = pub.left
  BY <1>2, <1>3, GotoFacts DEF Places
<1>5. /\ UNCHANGED <<state, previous, journal, link, next, held, delta, col, loaded>>
      /\ running' = link["backend"]
  BY DEF Restart, files, Rest
<1>6. TypeOK'
  BY <1>2, <1>4, <1>5 DEF IInv, TypeOK, PubRecord, Memory, Whole, State, Component
<1>7. Memory'
  BY <1>2, <1>4, MemoryKept DEF Memory
<1>8. BeforeJournal'
  BY <1>3, <1>4 DEF BeforeJournal, Locking
<1>9. Links'
  BY <1>1, <1>2, <1>3, <1>4, <1>5 DEF Links, Beyond, Aim, Component, Memory
<1>10. Metadata'
  BY <1>1, <1>2, <1>3, <1>4, <1>5 DEF Metadata, Aim
<1> QED BY <1>6, <1>7, <1>8, <1>9, <1>10, Rebuild

LEMMA HealthyKeeps == ASSUME IInv, Healthy PROVE IInv'
<1>1. pub.pc = "health" /\ pub.pc # "idle"
  BY DEF Healthy, At
<1>2. pub \in PubRecord /\ Memory /\ Links /\ Metadata
  BY <1>1, ActiveFacts DEF Locking
<1>3. PICK place \in {"state", "previous"} : Goto(place) /\ (place = "state" <=> pub.undoing)
  BY DEF Healthy
<1>4. /\ pub' \in PubRecord /\ pub'.pc = place /\ pub'.undoing = pub.undoing
      /\ pub'.old = pub.old /\ pub'.new = pub.new /\ pub'.before = pub.before
      /\ pub'.changed = pub.changed /\ pub'.left = pub.left
  BY <1>2, <1>3, GotoFacts DEF Places
<1>5. /\ UNCHANGED <<state, previous, journal, link, next, running, held, delta, col, loaded>>
  BY DEF Healthy, files, Rest
<1>6. TypeOK'
  BY <1>2, <1>4, <1>5 DEF IInv, TypeOK, PubRecord, Memory, Whole, State, Component
<1>7. Memory'
  BY <1>2, <1>4, MemoryKept DEF Memory
<1>8. BeforeJournal'
  BY <1>3, <1>4 DEF BeforeJournal, Locking
<1>9. Links'
  BY <1>1, <1>2, <1>3, <1>4, <1>5 DEF Links, Beyond, Aim, Component, Memory
<1>10. Metadata'
  BY <1>1, <1>2, <1>3, <1>4, <1>5 DEF Metadata, Aim
<1> QED BY <1>6, <1>7, <1>8, <1>9, <1>10, Rebuild

LEMMA WritePreviousKeeps == ASSUME IInv, WritePrevious PROVE IInv'
<1>1. pub.pc = "previous" /\ pub.pc # "idle"
  BY DEF WritePrevious, At
<1>2. pub \in PubRecord /\ Memory /\ Links /\ Metadata
  BY <1>1, ActiveFacts DEF Locking
<1>3. PICK place \in {"undone", "state"} : Goto(place) /\ (place = "undone" <=> pub.undoing)
  BY DEF WritePrevious
<1>4. /\ pub' \in PubRecord /\ pub'.pc = place /\ pub'.undoing = pub.undoing
      /\ pub'.old = pub.old /\ pub'.new = pub.new /\ pub'.before = pub.before
      /\ pub'.changed = pub.changed /\ pub'.left = pub.left
  BY <1>2, <1>3, GotoFacts DEF Places
<1>5. /\ UNCHANGED <<state, journal, link, next, running, held, delta, col, loaded>>
      /\ previous' = IF pub.undoing THEN pub.before ELSE pub.old
  BY DEF WritePrevious, files, Rest
<1>6. TypeOK'
  BY <1>2, <1>4, <1>5 DEF IInv, TypeOK, PubRecord, Memory, Whole, State, Component
<1>7. Memory'
  BY <1>2, <1>4, MemoryKept DEF Memory
<1>8. BeforeJournal'
  BY <1>3, <1>4 DEF BeforeJournal, Locking
<1>9. Links'
  BY <1>1, <1>2, <1>3, <1>4, <1>5 DEF Links, Beyond, Aim, Component, Memory
<1>10. Metadata'
  BY <1>1, <1>2, <1>3, <1>4, <1>5 DEF Metadata, Aim
<1> QED BY <1>6, <1>7, <1>8, <1>9, <1>10, Rebuild

LEMMA WriteStateKeeps == ASSUME IInv, WriteState PROVE IInv'
<1>1. pub.pc = "state" /\ pub.pc # "idle"
  BY DEF WriteState, At
<1>2. pub \in PubRecord /\ Memory /\ Links /\ Metadata
  BY <1>1, ActiveFacts DEF Locking
<1>3. PICK place \in {"previous", "committed"} : Goto(place) /\ (place = "previous" <=> pub.undoing)
  BY DEF WriteState
<1>4. /\ pub' \in PubRecord /\ pub'.pc = place /\ pub'.undoing = pub.undoing
      /\ pub'.old = pub.old /\ pub'.new = pub.new /\ pub'.before = pub.before
      /\ pub'.changed = pub.changed /\ pub'.left = pub.left
  BY <1>2, <1>3, GotoFacts DEF Places
<1>5. /\ UNCHANGED <<previous, journal, link, next, running, held, delta, col, loaded>>
      /\ state' = Aim
  BY DEF WriteState, files, Rest
<1>6. TypeOK'
  BY <1>2, <1>4, <1>5 DEF IInv, TypeOK, PubRecord, Memory, Whole, State, Component, Aim
<1>7. Memory'
  BY <1>2, <1>4, MemoryKept DEF Memory
<1>8. BeforeJournal'
  BY <1>3, <1>4 DEF BeforeJournal, Locking
<1>9. Links'
  BY <1>1, <1>2, <1>3, <1>4, <1>5 DEF Links, Beyond, Aim, Component, Memory
<1>10. Metadata'
  BY <1>1, <1>2, <1>3, <1>4, <1>5 DEF Metadata, Aim
<1> QED BY <1>6, <1>7, <1>8, <1>9, <1>10, Rebuild

LEMMA PlaceNextKeeps == ASSUME IInv, NEW c \in Component, PlaceNext(c) PROVE IInv'
<1>1. pub.pc = "switch" /\ pub.pc # "idle"
  BY DEF PlaceNext, At
<1>2. pub \in PubRecord /\ Memory /\ Links /\ Metadata
  BY <1>1, ActiveFacts DEF Locking
<1>4. /\ pub' \in PubRecord /\ pub'.pc = "placed" /\ pub'.undoing = pub.undoing
      /\ pub'.old = pub.old /\ pub'.new = pub.new /\ pub'.before = pub.before
      /\ pub'.changed = pub.changed /\ pub'.left = pub.left
  BY <1>2, GotoFacts DEF PlaceNext, Places
<1>5. /\ UNCHANGED <<state, previous, journal, link, running, held, delta, col, loaded>>
      /\ c \in pub.left /\ next' = next \cup {c}
  BY DEF PlaceNext, Turn, Rest
<1>6. TypeOK'
  BY <1>2, <1>4, <1>5 DEF IInv, TypeOK, PubRecord
<1>7. Memory'
  BY <1>2, <1>4, MemoryKept DEF Memory
<1>8. BeforeJournal'
  BY <1>4 DEF BeforeJournal, Locking
<1>9. Links'
  BY <1>1, <1>2, <1>4, <1>5 DEF Links, Beyond, Aim
<1>10. Metadata'
  BY <1>1, <1>2, <1>4, <1>5 DEF Metadata, Aim
<1> QED BY <1>6, <1>7, <1>8, <1>9, <1>10, Rebuild

LEMMA MoveLinkKeeps == ASSUME IInv, NEW c \in Component, MoveLink(c) PROVE IInv'
<1>1. pub.pc = "placed" /\ pub.pc # "idle"
  BY DEF MoveLink, At
<1>2. pub \in PubRecord /\ Memory /\ Links /\ Metadata
  BY <1>1, ActiveFacts DEF Locking
<1>4. /\ pub' \in PubRecord /\ pub'.pc = "switch" /\ pub'.undoing = pub.undoing
      /\ pub'.old = pub.old /\ pub'.new = pub.new /\ pub'.before = pub.before
      /\ pub'.changed = pub.changed /\ pub'.left = pub.left \ {c}
  BY <1>2 DEF MoveLink, PubRecord, Places
<1>5. /\ UNCHANGED <<state, previous, journal, running, held, delta, col, loaded>>
      /\ c \in pub.left /\ next' = next \ {c} /\ link' = [link EXCEPT ![c] = Aim[c]]
  BY DEF MoveLink, Turn, Rest
<1>6. Aim \in State /\ Aim' = Aim /\ link \in State
  BY <1>2, <1>4 DEF Aim, PubRecord, IInv, TypeOK
<1>7. link' \in State /\ \A d \in Component : link'[d] = IF d = c THEN Aim[c] ELSE link[d]
  BY <1>5, <1>6 DEF State
<1>8. TypeOK'
  BY <1>2, <1>4, <1>5, <1>7 DEF IInv, TypeOK, PubRecord
<1>9. Memory'
  BY <1>2, <1>4, MemoryKept DEF Memory
<1>10. BeforeJournal'
  BY <1>4 DEF BeforeJournal, Locking
<1>11. (\A d \in Component :
          IF d \in pub.left \/ d \notin pub.changed
            THEN link[d] \in {pub.old[d], pub.new[d]} ELSE link[d] = Aim[d])'
  BY <1>2, <1>4, <1>5, <1>6, <1>7 DEF Links, Memory
<1>12. Links'
  BY <1>1, <1>2, <1>4, <1>5, <1>11 DEF Links, Beyond
<1>13. Metadata'
  BY <1>1, <1>2, <1>4, <1>5 DEF Metadata
<1> QED BY <1>8, <1>9, <1>10, <1>12, <1>13, Rebuild

LEMMA FinishKeeps == ASSUME IInv, Finish PROVE IInv'
<1>1. pub.pc \in {"committed", "undone"} /\ pub.pc # "idle"
  BY DEF Finish
<1>2. pub \in PubRecord /\ Memory /\ Links /\ Metadata
  BY <1>1, ActiveFacts DEF Locking
<1>3. /\ pub' = NoPublisher /\ held' = {} /\ journal' = None
      /\ UNCHANGED <<state, previous, link, next, running, delta, col, loaded>>
  BY DEF Finish, Leave, Rest
<1>4. TypeOK' /\ Active' /\ Named' /\ Recoverable'
  BY <1>3 DEF IInv, TypeOK, Active, Named, Recoverable
<1>5. Clean'
  BY <1>3 DEF IInv, Clean, Whole, WholeOrNone, OneRelease
<1>6. state = Aim /\ pub.left = {} /\ next = {} /\ running = Aim["backend"]
  BY <1>1, <1>2 DEF Links, Metadata, Aim, Beyond
<1>7. \A c \in Component : link[c] = Aim[c]
  BY <1>2, <1>6 DEF Links, Memory, Aim
<1>8. link = state
  BY <1>6, <1>7 DEF IInv, TypeOK, State
<1>9. Quiet'
  BY <1>3, <1>6, <1>8 DEF Quiet
<1> QED BY <1>4, <1>5, <1>9 DEF IInv

-----------------------------------------------------------------------------
(* What interrupts it.                                                          *)
LEMMA InterruptKeeps == ASSUME IInv, Interrupt PROVE IInv'
<1>1. pub.pc # "idle"
  BY DEF Interrupt, Idle, At
<1>2. pub \in PubRecord /\ Memory /\ BeforeJournal /\ (~Locking => Links /\ Metadata)
  BY <1>1, ActiveFacts
<1>3. /\ UNCHANGED <<state, previous, journal, link, delta, col, loaded>>
      /\ next' \subseteq next /\ running' \in {running, link["backend"]}
      /\ Locking => UNCHANGED <<next, running>>
  BY DEF Interrupt, Debris, At, Rest, Locking
<1>4. running' \in Release
  BY <1>3 DEF IInv, TypeOK, State, Component
<1>5. CASE Outside /\ Leave
  BY <1>1, <1>3, <1>4, <1>5, LeaveKeeps
<1>6. CASE InTry /\ pub' = UndoFrom /\ UNCHANGED held
  <2>1. ~pub.undoing /\ ~Locking /\ pub.pc # "armed"
    BY <1>6 DEF InTry, Locking
  <2>2. /\ pub' \in PubRecord /\ pub'.pc = "switch" /\ pub'.undoing = TRUE
        /\ pub'.old = pub.old /\ pub'.new = pub.new /\ pub'.before = pub.before
        /\ pub'.changed = pub.changed /\ pub'.left = pub.changed
    BY <1>2, <1>6 DEF UndoFrom, PubRecord, Places
  <2>3. TypeOK'
    BY <1>3, <1>4, <1>6, <2>2 DEF IInv, TypeOK, PubRecord
  <2>4. Memory'
    BY <1>2, <2>2, MemoryKept
  <2>5. BeforeJournal'
    BY <2>2 DEF BeforeJournal, Locking
  <2>6. link["backend"] \in {pub.old["backend"], pub.new["backend"]}
    BY <1>2, <2>1 DEF Links, Aim, Component
  <2>7. (\A d \in Component :
          IF d \in pub.left \/ d \notin pub.changed
            THEN link[d] \in {pub.old[d], pub.new[d]} ELSE link[d] = Aim[d])'
    BY <1>2, <1>3, <2>1, <2>2 DEF Links, Aim
  <2>8. Links'
    BY <1>2, <1>3, <2>1, <2>2, <2>6, <2>7 DEF Links, Beyond, Memory
  <2>9. Metadata'
    BY <1>2, <1>3, <2>1, <2>2 DEF Metadata
  <2> QED BY <2>3, <2>4, <2>5, <2>8, <2>9, Rebuild
<1> QED BY <1>5, <1>6 DEF Interrupt

LEMMA KillKeeps == ASSUME IInv, Kill PROVE IInv'
<1>1. pub.pc # "idle" /\ Leave /\ UNCHANGED <<state, previous, journal, link, next, running, delta, col, loaded>>
  BY DEF Kill, Idle, At, files, Rest
<1> QED BY <1>1, LeaveKeeps DEF IInv, TypeOK

LEMMA ServiceRestartsKeeps == ASSUME IInv, ServiceRestarts PROVE IInv'
<1>1. /\ running' = link["backend"]
      /\ UNCHANGED <<state, previous, journal, link, next, pub, held, delta, col, loaded>>
  BY DEF ServiceRestarts, files, Rest
<1>2. TypeOK'
  BY <1>1 DEF IInv, TypeOK, State, Component
<1>3. CASE pub = NoPublisher
  <2>1. Active' /\ Quiet'
    BY <1>1, <1>3 DEF Active, Quiet, IInv
  <2>2. Named' /\ Clean'
    BY <1>1 DEF IInv, Named, Clean, Whole, WholeOrNone, OneRelease
  <2>3. Recoverable'
    BY <1>1 DEF IInv, Recoverable, Component
  <2> QED BY <1>2, <2>1, <2>2, <2>3 DEF IInv
<1>4. CASE pub # NoPublisher
  <2>1. pub \in PubRecord /\ Memory /\ BeforeJournal /\ (~Locking => Links /\ Metadata)
    BY <1>4 DEF IInv, Active, Memory
  <2>2. Memory'
    BY <1>1, <2>1 DEF Memory, Whole, WholeOrNone, OneRelease
  <2>3. BeforeJournal'
    BY <1>1, <2>1 DEF BeforeJournal, Locking
  <2>4. CASE Locking
    BY <1>1, <1>2, <2>2, <2>3, <2>4, Rebuild DEF Locking
  <2>5. CASE ~Locking
    <3>1. link["backend"] \in {pub.old["backend"], pub.new["backend"]}
      BY <2>1, <2>5 DEF Links, Aim, Component
    <3>2. Beyond => link["backend"] = Aim["backend"]
      BY <2>1, <2>5 DEF Links, Memory, Aim, Component
    <3>3. Links'
      BY <1>1, <2>1, <2>5, <3>1, <3>2 DEF Links, Aim, Beyond
    <3>4. Metadata'
      BY <1>1, <2>1, <2>5 DEF Metadata
    <3> QED BY <1>2, <2>2, <2>3, <3>3, <3>4, Rebuild
  <2> QED BY <2>4, <2>5
<1> QED BY <1>3, <1>4

LEMMA OperatorKeeps == ASSUME IInv, Operator PROVE IInv'
<1>1. PICK s, before : OperatorRecovers(s, before) /\ (<<s, before>> = <<journal.old, journal.before>> \/ <<s, before>> = <<journal.new, journal.old>>)
  BY DEF Operator
<1>2. Whole(s) /\ WholeOrNone(before)
  BY <1>1 DEF Operator, IInv, Named, WholeOrNone
<1>3. /\ state' = s /\ previous' = before /\ link' = s /\ next' = {} /\ running' = s["backend"]
      /\ journal' = None /\ pub.pc = "idle"
      /\ UNCHANGED <<pub, held, delta, col, loaded>>
  BY <1>1 DEF OperatorRecovers, Rest, Idle, At
<1>4. TypeOK'
  BY <1>2, <1>3 DEF IInv, TypeOK, Whole, WholeOrNone, State, Component
<1>5. pub = NoPublisher
  BY <1>3, Kinds DEF IInv, Active, Memory
<1>6. (Active /\ Named /\ Quiet /\ Recoverable)'
  BY <1>3, <1>5 DEF Active, Named, Quiet, Recoverable
<1>7. Clean'
  BY <1>2, <1>3 DEF Clean, Whole, WholeOrNone, OneRelease
<1> QED BY <1>4, <1>6, <1>7 DEF IInv

-----------------------------------------------------------------------------
(* The collectors and the plan touch no file and not the publisher.             *)
LEMMA ApartKeeps ==
    ASSUME IInv, UNCHANGED <<files, running, pub, held>>,
           delta' \in Package \cup {None},
           col' \in [Collector -> {"idle", "started", "locked", "checked", "working"}],
           loaded' \in [Collector -> Release]
    PROVE  IInv'
<1>1. UNCHANGED <<state, previous, journal, link, next>>
  BY DEF files
<1>2. TypeOK'
  BY <1>1 DEF IInv, TypeOK
<1>3. (Active /\ Quiet)'
  BY <1>1 DEF IInv, Active, Quiet, Memory, BeforeJournal, Locking, Links, Metadata, Beyond, Aim,
              Whole, WholeOrNone, OneRelease
<1>4. (Named /\ Recoverable /\ Clean)'
  BY <1>1 DEF IInv, Named, Recoverable, Clean, Whole, WholeOrNone, OneRelease
<1> QED BY <1>2, <1>3, <1>4 DEF IInv

LEMMA PlanKeeps == ASSUME IInv, Plan PROVE IInv'
<1>1. PICK r \in Release : delta' = [target |-> r, base |-> state, changed |-> Differing(r)]
  BY DEF Plan
<1>2. delta' \in Package
  BY <1>1 DEF Package, Differing, IInv, TypeOK
<1>3. UNCHANGED <<files, running, pub, held, col, loaded>>
  BY DEF Plan
<1> QED BY <1>2, <1>3, ApartKeeps DEF IInv, TypeOK

LEMMA CollectorKeeps == ASSUME IInv, CollectorStep PROVE IInv'
<1>1. UNCHANGED <<files, running, pub, held, delta>>
  BY DEF CollectorStep, Start, Acquire, CheckJournal, CheckCurrent, End, Others
<1>2. col' \in [Collector -> {"idle", "started", "locked", "checked", "working"}]
  BY DEF CollectorStep, Start, Acquire, CheckJournal, CheckCurrent, End, Move, IInv, TypeOK
<1>3. link["backend"] \in Release
  BY DEF IInv, TypeOK, State, Component
<1>4. loaded' \in [Collector -> Release]
  BY <1>3 DEF CollectorStep, Start, Acquire, CheckJournal, CheckCurrent, End, Load, IInv, TypeOK
<1> QED BY <1>1, <1>2, <1>4, ApartKeeps DEF IInv, TypeOK

(* The three ways in.                                                           *)
LEMMA PublishFullKeeps == ASSUME IInv, PublishFull PROVE IInv'
<1>1. PICK r \in Release : Begin(Replaced(Renewed(r), r), Renewed(r))
  BY DEF PublishFull
<1>2. /\ Renewed(r) \in SUBSET Component
      /\ Whole(Replaced(Renewed(r), r))
      /\ \A c \in Component : c \notin Renewed(r) => Replaced(Renewed(r), r)[c] = state[c]
  BY RenewedWhole DEF IInv
<1> QED BY <1>1, <1>2, BeginKeeps

LEMMA PublishDeltaKeeps == ASSUME IInv, PublishDelta PROVE IInv'
<1>1. delta \in Package /\ delta.changed = Differing(delta.target)
  BY DEF PublishDelta, PlanHolds, IInv, TypeOK
<1>2. delta.target \in Release
  BY <1>1 DEF Package
<1>3. /\ delta.changed \in SUBSET Component
      /\ Whole(Replaced(delta.changed, delta.target))
      /\ \A c \in Component : c \notin delta.changed => Replaced(delta.changed, delta.target)[c] = state[c]
  BY <1>1, <1>2, DifferingWhole DEF IInv
<1> QED BY <1>3, BeginKeeps DEF PublishDelta

LEMMA RollbackKeeps == ASSUME IInv, Rollback PROVE IInv'
<1>1. Whole(previous)
  BY DEF Rollback, IInv, Clean, WholeOrNone
<1> QED BY <1>1, BeginKeeps DEF Rollback

LEMMA StutterKeeps == ASSUME IInv, UNCHANGED vars PROVE IInv'
<1>1. UNCHANGED <<files, running, pub, held, delta, col, loaded>>
  BY DEF vars
<1> QED BY <1>1, ApartKeeps DEF IInv, TypeOK

LEMMA InitInv == Init => IInv
<1> SUFFICES ASSUME Init PROVE IInv
  OBVIOUS
<1>1. PICK r \in Release : state = [c \in Component |-> r] /\ running = r
                              /\ loaded = [k \in Collector |-> r]
  BY DEF Init
<1>2. TypeOK
  BY <1>1 DEF Init, TypeOK, State
<1>3. Whole(state)
  BY <1>1 DEF Whole, OneRelease, State
<1>4. Active /\ Named /\ Quiet /\ Recoverable /\ Clean
  BY <1>1, <1>3 DEF Init, Active, Named, Quiet, Recoverable, Clean, WholeOrNone, Component
<1> QED BY <1>2, <1>4 DEF IInv

LEMMA StepInv == IInv /\ [Next]_vars => IInv'
<1> SUFFICES ASSUME IInv, [Next]_vars PROVE IInv'
  OBVIOUS
<1>1. CASE Publisher
  <2>1. CASE Plan \/ PublishFull \/ PublishDelta \/ Rollback
    BY <2>1, PlanKeeps, PublishFullKeeps, PublishDeltaKeeps, RollbackKeeps
  <2>2. CASE TakeLock \/ Journal \/ EnterTry \/ EndSwitch \/ Restart \/ Healthy
    BY <2>2, TakeLockKeeps, JournalKeeps, EnterTryKeeps, EndSwitchKeeps, RestartKeeps, HealthyKeeps
  <2>3. CASE WritePrevious \/ WriteState \/ Finish
    BY <2>3, WritePreviousKeeps, WriteStateKeeps, FinishKeeps
  <2>4. CASE \E c \in Component : PlaceNext(c) \/ MoveLink(c)
    BY <2>4, PlaceNextKeeps, MoveLinkKeeps
  <2> QED BY <1>1, <2>1, <2>2, <2>3, <2>4 DEF Publisher
<1>2. CASE CollectorStep
  BY <1>2, CollectorKeeps
<1>3. CASE Interrupt \/ Kill \/ ServiceRestarts \/ Operator
  BY <1>3, InterruptKeeps, KillKeeps, ServiceRestartsKeeps, OperatorKeeps
<1>4. CASE UNCHANGED vars
  BY <1>4, StutterKeeps
<1> QED BY <1>1, <1>2, <1>3, <1>4 DEF Next

(* The publisher's memory, the links turned so far and the two files always fit *)
(* together, whatever was interrupted or killed (release.py 421-462).           *)
THEOREM ReleaseInductive == Spec => []IInv
<1> QED BY InitInv, StepInv, PTL DEF Spec

(* A release is committed, undone or recoverable from its journal, and whatever *)
(* is or was active holds the files of one release, which a delta goes by, or   *)
(* the git trees of one, which a full package goes by (release.py 348-349,      *)
(* 421-462 and 772-787).                                                        *)
THEOREM CommittedOrUndoneHolds == Spec => []CommittedOrUndone
<1>1. IInv => CommittedOrUndone
  <2> SUFFICES ASSUME IInv PROVE CommittedOrUndone
    OBVIOUS
  <2>1. Idle => pub = NoPublisher
    BY ActiveFacts, Kinds DEF Idle, At, IInv, Active, Memory
  <2>2. Settled
    BY <2>1 DEF IInv, Quiet, Settled
  <2> QED BY <2>2 DEF IInv, CommittedOrUndone, Clean, Whole, WholeOrNone
<1> QED BY <1>1, ReleaseInductive, PTL

-----------------------------------------------------------------------------
(* The history the files tell.  Where the publisher goes, and what the journal  *)
(* names, is a publication over the release it leaves or its rollback.          *)
Warranted(n) ==
    \/ \E r \in Release :
          \E changed \in {History!Renewed(n.old, r), History!Differing(n.old, r)} :
             changed # {} /\ n.new = History!With(n.old, r, changed)
    \/ n.before # None /\ n.new = n.before
Purpose ==
    /\ pub # NoPublisher => Warranted(pub)
    /\ journal # None => Warranted(journal)
Told == <<Current, Former>>

LEMMA SelectedIsPublished ==
    ASSUME NEW r
    PROVE  /\ Renewed(r) = History!Renewed(state, r)
           /\ Differing(r) = History!Differing(state, r)
           /\ \A changed : Replaced(changed, r) = History!With(state, r, changed)
<1> QED BY DEF Renewed, Differing, Replaced, History!Renewed, History!Differing, History!With,
              History!Component, Component

LEMMA BeginTells ==
    ASSUME IInv, Purpose, NEW new, NEW changed, Begin(new, changed),
           Warranted([old |-> state, new |-> new, before |-> previous])
    PROVE  Purpose' /\ UNCHANGED Told
<1>1. UNCHANGED <<state, previous, journal>> /\ journal = None
  BY DEF Begin, Readable, files
<1>2. pub'.old = state /\ pub'.new = new /\ pub'.before = previous
  BY DEF Begin
<1> QED BY <1>1, <1>2 DEF Purpose, Warranted, Told, Current, Former

(* A step that leaves the journal alone, and the two files unless it is there.  *)
LEMMA QuietTells ==
    ASSUME Purpose, UNCHANGED journal, journal # None \/ UNCHANGED <<state, previous>>,
           \/ pub' = NoPublisher
           \/ /\ pub # NoPublisher
              /\ pub'.old = pub.old /\ pub'.new = pub.new /\ pub'.before = pub.before
    PROVE  Purpose' /\ UNCHANGED Told
<1> QED BY DEF Purpose, Warranted, Told, Current, Former

LEMMA GotoTells ==
    ASSUME IInv, Purpose, pub.pc # "idle", UNCHANGED journal,
           journal # None \/ UNCHANGED <<state, previous>>,
           \/ UNCHANGED pub
           \/ \E place \in Places : Goto(place)
    PROVE  Purpose' /\ UNCHANGED Told
<1>1. pub \in PubRecord /\ pub # NoPublisher
  BY ActiveFacts, Kinds
<1>2. pub'.old = pub.old /\ pub'.new = pub.new /\ pub'.before = pub.before
  BY <1>1, GotoFacts
<1> QED BY <1>1, <1>2, QuietTells

LEMMA WayInTells == ASSUME IInv, Purpose, PublishFull \/ PublishDelta \/ Rollback
                    PROVE  Purpose' /\ UNCHANGED Told
<1>1. CASE PublishFull
  <2>1. PICK r \in Release : Renewed(r) # {} /\ Begin(Replaced(Renewed(r), r), Renewed(r))
    BY <1>1 DEF PublishFull
  <2>2. Warranted([old |-> state, new |-> Replaced(Renewed(r), r), before |-> previous])
    BY <2>1, SelectedIsPublished DEF Warranted
  <2> QED BY <2>1, <2>2, BeginTells
<1>2. CASE PublishDelta
  <2>1. delta \in Package /\ delta.changed = Differing(delta.target) /\ delta.changed # {}
    BY <1>2 DEF PublishDelta, PlanHolds, IInv, TypeOK
  <2>2. delta.target \in Release
    BY <2>1 DEF Package
  <2>3. Warranted([old |-> state, new |-> Replaced(delta.changed, delta.target), before |-> previous])
    BY <2>1, <2>2, SelectedIsPublished DEF Warranted
  <2> QED BY <1>2, <2>3, BeginTells DEF PublishDelta
<1>3. CASE Rollback
  <2>1. Warranted([old |-> state, new |-> previous, before |-> previous])
    BY <1>3 DEF Rollback, Warranted
  <2> QED BY <1>3, <2>1, BeginTells DEF Rollback
<1> QED BY <1>1, <1>2, <1>3

LEMMA JournalTells == ASSUME IInv, Purpose, Journal PROVE Purpose' /\ UNCHANGED Told
<1>1. pub.pc = "prepare" /\ pub.pc # "idle" /\ journal = None
  BY DEF Journal, At
<1>2. pub \in PubRecord /\ pub # NoPublisher /\ state = pub.old /\ previous = pub.before
  BY <1>1, ActiveFacts, Kinds DEF BeforeJournal, Locking
<1>3. journal' = [old |-> pub.old, new |-> pub.new, before |-> pub.before]
  BY DEF Journal
<1>4. journal' # None
  BY <1>2, <1>3, ReleaseAssumption DEF PubRecord, Names
<1>5. /\ journal'.old = pub.old /\ journal'.new = pub.new /\ journal'.before = pub.before
      /\ pub'.old = pub.old /\ pub'.new = pub.new /\ pub'.before = pub.before
  BY <1>2, <1>3, GotoFacts DEF Journal, Places
<1>6. UNCHANGED <<state, previous>>
  BY DEF Journal
<1>7. UNCHANGED Told
  BY <1>1, <1>2, <1>4, <1>5 DEF Told, Current, Former
<1>8. Warranted(pub)
  BY <1>2 DEF Purpose
<1> QED BY <1>5, <1>7, <1>8 DEF Purpose, Warranted

(* Finished forth, the files tell of one more publication or rollback; finished *)
(* back, of none.                                                               *)
LEMMA SettlesTells ==
    ASSUME IInv, Purpose, journal # None, journal' = None,
           \/ state' = journal.old /\ previous' = journal.before
           \/ state' = journal.new /\ previous' = journal.old
    PROVE  [History!Next]_Told
<1>1. Current = journal.old /\ Former = journal.before /\ Current' = state' /\ Former' = previous'
  BY DEF Current, Former
<1>2. CASE state' = journal.old /\ previous' = journal.before
  BY <1>1, <1>2 DEF Told
<1>3. CASE state' = journal.new /\ previous' = journal.old
  <2>1. Warranted(journal)
    BY DEF Purpose
  <2>2. ASSUME NEW r \in Release,
               NEW changed \in {History!Renewed(journal.old, r), History!Differing(journal.old, r)},
               changed # {}, journal.new = History!With(journal.old, r, changed)
        PROVE  History!PublishFull(r) \/ History!PublishDelta(r)
    BY <1>1, <1>3, <2>2 DEF History!Publish, History!PublishFull, History!PublishDelta
  <2>3. ASSUME journal.before # None, journal.new = journal.before
        PROVE  History!Rollback
    BY <1>1, <1>3, <2>3 DEF History!Rollback
  <2> QED BY <2>1, <2>2, <2>3 DEF Warranted, History!Next
<1> QED BY <1>2, <1>3

LEMMA FinishTells == ASSUME IInv, Purpose, Finish PROVE Purpose' /\ [History!Next]_Told
<1>1. pub.pc \in {"committed", "undone"} /\ pub.pc # "idle"
  BY DEF Finish
<1>2. pub \in PubRecord /\ Links /\ Metadata
  BY <1>1, ActiveFacts DEF Locking
<1>3. /\ journal # None /\ journal.old = pub.old /\ journal.new = pub.new /\ journal.before = pub.before
  BY <1>2, ReleaseAssumption DEF Links, PubRecord, Names
<1>4. pub' = NoPublisher /\ journal' = None /\ UNCHANGED <<state, previous>>
  BY DEF Finish, Leave
<1>5. \/ state = journal.old /\ previous = journal.before
      \/ state = journal.new /\ previous = journal.old
  BY <1>1, <1>2, <1>3 DEF Metadata
<1> QED BY <1>3, <1>4, <1>5, SettlesTells DEF Purpose

LEMMA OperatorTells == ASSUME IInv, Purpose, Operator PROVE Purpose' /\ [History!Next]_Told
<1>1. /\ journal # None /\ journal' = None /\ UNCHANGED pub
      /\ \/ state' = journal.old /\ previous' = journal.before
         \/ state' = journal.new /\ previous' = journal.old
  BY DEF Operator, OperatorRecovers
<1>2. Purpose'
  BY <1>1 DEF Purpose, Warranted
<1> QED BY <1>1, <1>2, SettlesTells

LEMMA InterruptTells == ASSUME IInv, Purpose, Interrupt \/ Kill PROVE Purpose' /\ UNCHANGED Told
<1>1. pub.pc # "idle" /\ UNCHANGED <<state, previous, journal>>
  BY DEF Interrupt, Kill, Idle, At, files
<1>2. pub \in PubRecord /\ pub # NoPublisher
  BY <1>1, ActiveFacts, Kinds
<1>3. pub' = NoPublisher \/ pub' = UndoFrom
  BY DEF Interrupt, Kill, Leave
<1>4. UndoFrom.old = pub.old /\ UndoFrom.new = pub.new /\ UndoFrom.before = pub.before
  BY <1>2 DEF UndoFrom, PubRecord
<1> QED BY <1>1, <1>2, <1>3, <1>4, QuietTells

LEMMA PublisherTells ==
    ASSUME IInv, Purpose,
           \/ TakeLock \/ EnterTry \/ EndSwitch \/ Restart \/ Healthy \/ WritePrevious \/ WriteState
           \/ \E c \in Component : PlaceNext(c) \/ MoveLink(c)
    PROVE  Purpose' /\ UNCHANGED Told
<1>1. CASE TakeLock \/ EnterTry \/ EndSwitch \/ Restart \/ Healthy
  BY <1>1, GotoTells DEF TakeLock, EnterTry, EndSwitch, Restart, Healthy, At, files, Places
<1>2. CASE WritePrevious \/ WriteState
  <2>1. pub.pc \in {"previous", "state"} /\ pub.pc # "idle"
    BY <1>2 DEF WritePrevious, WriteState, At
  <2>2. pub \in PubRecord /\ Links
    BY <2>1, ActiveFacts DEF Locking
  <2>3. journal # None
    BY <2>2, ReleaseAssumption DEF Links, PubRecord, Names
  <2> QED BY <1>2, <2>1, <2>3, GotoTells DEF WritePrevious, WriteState, Places
<1>3. ASSUME NEW c \in Component, PlaceNext(c) PROVE Purpose' /\ UNCHANGED Told
  BY <1>3, GotoTells DEF PlaceNext, At, Places
<1>4. ASSUME NEW c \in Component, MoveLink(c) PROVE Purpose' /\ UNCHANGED Told
  <2>1. /\ pub.pc # "idle" /\ UNCHANGED <<state, previous, journal>>
        /\ pub' = [pub EXCEPT !.pc = "switch", !.left = @ \ {c}]
    BY <1>4 DEF MoveLink, At
  <2>2. pub \in PubRecord /\ pub # NoPublisher
    BY <2>1, ActiveFacts, Kinds
  <2>3. pub'.old = pub.old /\ pub'.new = pub.new /\ pub'.before = pub.before
    BY <2>1, <2>2 DEF PubRecord
  <2> QED BY <2>1, <2>2, <2>3, QuietTells
<1> QED BY <1>1, <1>2, <1>3, <1>4

LEMMA StepTells == IInv /\ Purpose /\ [Next]_vars => Purpose' /\ [History!Next]_Told
<1> SUFFICES ASSUME IInv, Purpose, [Next]_vars PROVE Purpose' /\ [History!Next]_Told
  OBVIOUS
<1>1. CASE Publisher
  <2>1. CASE Plan
    <3>1. UNCHANGED <<state, previous, journal, pub>>
      BY <2>1 DEF Plan, files
    <3> QED BY <3>1 DEF Purpose, Warranted, Told, Current, Former
  <2> QED BY <1>1, <2>1, WayInTells, JournalTells, FinishTells, PublisherTells DEF Publisher
<1>2. CASE CollectorStep \/ ServiceRestarts \/ UNCHANGED vars
  <2>1. UNCHANGED <<state, previous, journal, pub>>
    BY <1>2 DEF CollectorStep, Start, Acquire, CheckJournal, CheckCurrent, End, Others,
                ServiceRestarts, vars, files
  <2> QED BY <2>1 DEF Purpose, Warranted, Told, Current, Former
<1>3. CASE Interrupt \/ Kill \/ Operator
  BY <1>3, InterruptTells, OperatorTells
<1> QED BY <1>1, <1>2, <1>3 DEF Next

(* Whatever fails, is interrupted, killed, undone or recovered by hand, the two *)
(* state files tell a history of whole publications and rollbacks (release.py   *)
(* 421-462).                                                                    *)
THEOREM ReleasesAreAtomicHolds == Spec => ReleasesAreAtomic
<1>1. Init => Purpose /\ History!Init
  BY DEF Init, Purpose, Current, Former, History!Init, History!Component, Component
<1>2. IInv /\ Purpose /\ [Next]_vars => Purpose' /\ [History!Next]_Told
  BY StepTells
<1> QED BY <1>1, <1>2, ReleaseInductive, PTL DEF Spec, ReleasesAreAtomic, History!Spec, Told

-----------------------------------------------------------------------------
(* What keeps a collector at work off a switch: past "lock" the publisher has   *)
(* every lock it needs, and a lock is of one of the two.                        *)
Locked == pub.pc \notin {"idle", "lock"} => \A k \in Collector : Needed(k) => k \in held
Apart == (Idle => held = {}) /\ \A k \in held : ~Holding(k)
AtWork == \A k \in Collector : col[k] = "working" => loaded[k] = link["backend"] /\ loaded[k] \in Collects[k]
(* The market's code is of a back end that has it, and a journal that appears   *)
(* after it looked is of a switch between two that are not the one it runs.     *)
Verified ==
    /\ col["market"] \in {"started", "locked", "checked"} => loaded["market"] \in Collects["market"]
    /\ col["market"] = "working" => journal = None
    /\ col["killboard"] # "checked"
    /\ col["market"] = "checked" /\ loaded["market"] = link["backend"] => journal = None
CInv == Locked /\ Apart /\ AtWork /\ Verified

LEMMA SteadyKeeps ==
    ASSUME CInv, Locked', Apart', UNCHANGED <<link, col, loaded>>, journal' \in {journal, None}
    PROVE  CInv'
<1>1. (AtWork /\ Verified)'
  BY DEF CInv, AtWork, Verified
<1> QED BY <1>1 DEF CInv

(* A publisher that goes on with the locks it has.                              *)
LEMMA OnwardKeeps ==
    ASSUME CInv, pub.pc \notin {"idle", "lock"}, pub'.pc # "idle",
           pub'.old = pub.old, pub'.new = pub.new, UNCHANGED <<held, link, col, loaded>>,
           journal' \in {journal, None}
    PROVE  CInv'
<1>1. Locked'
  BY DEF CInv, Locked, Needed
<1>2. Apart'
  BY DEF CInv, Apart, Idle, At, Holding
<1> QED BY <1>1, <1>2, SteadyKeeps

LEMMA LeavingKeeps ==
    ASSUME CInv, Leave, UNCHANGED <<link, col, loaded>>, journal' \in {journal, None}
    PROVE  CInv'
<1>1. pub'.pc = "idle" /\ held' = {}
  BY DEF Leave, NoPublisher
<1>2. Locked' /\ Apart'
  BY <1>1 DEF Locked, Apart
<1> QED BY <1>2, SteadyKeeps

LEMMA BeginLocks == ASSUME CInv, NEW new, NEW changed, Begin(new, changed) PROVE CInv'
<1>1. /\ pub'.pc = "lock" /\ held' = held /\ held = {}
      /\ UNCHANGED <<journal, link, col, loaded>>
  BY DEF Begin, files, Rest, CInv, Apart
<1>2. Locked' /\ Apart'
  BY <1>1 DEF Locked, Apart, Idle, At
<1> QED BY <1>1, <1>2, SteadyKeeps

LEMMA TakeLockLocks == ASSUME IInv, CInv, TakeLock PROVE CInv'
<1>1. pub.pc = "lock" /\ UNCHANGED <<journal, link, col, loaded>>
  BY DEF TakeLock, At, files, Rest
<1>2. pub \in PubRecord
  BY <1>1, ActiveFacts
<1>3. CASE UNCHANGED pub
  <2>1. Locked'
    BY <1>1, <1>3 DEF Locked
  <2>2. held' = held \/ \E k \in Collector : ~Holding(k) /\ held' = held \cup {k}
    BY DEF TakeLock
  <2>3. Apart'
    BY <1>1, <1>3, <2>2 DEF CInv, Apart, Idle, At, Holding
  <2> QED BY <1>1, <2>1, <2>3, SteadyKeeps
<1>4. CASE Goto("prepare") /\ UNCHANGED held /\ \A k \in Collector : Needed(k) => k \in held
  <2>1. pub'.pc = "prepare" /\ pub'.old = pub.old /\ pub'.new = pub.new
    BY <1>2, <1>4, GotoFacts DEF Places
  <2>2. Locked'
    BY <1>4, <2>1 DEF Locked, Needed
  <2>3. Apart'
    BY <1>1, <1>4, <2>1 DEF CInv, Apart, Idle, At, Holding
  <2> QED BY <1>1, <2>2, <2>3, SteadyKeeps
<1> QED BY <1>3, <1>4 DEF TakeLock

LEMMA JournalLocks == ASSUME IInv, CInv, Journal PROVE CInv'
<1>1. /\ pub.pc = "prepare" /\ Goto("armed")
      /\ UNCHANGED <<held, link, col, loaded>>
  BY DEF Journal, At, Rest
<1>2. pub \in PubRecord /\ BeforeJournal
  BY <1>1, ActiveFacts
<1>3. pub'.pc = "armed" /\ pub'.old = pub.old /\ pub'.new = pub.new
  BY <1>1, <1>2, GotoFacts DEF Places
<1>4. link = pub.old
  BY <1>1, <1>2 DEF BeforeJournal, Locking
<1>5. Locked' /\ Apart' /\ AtWork'
  BY <1>1, <1>3 DEF CInv, Locked, Needed, Apart, Idle, At, Holding, AtWork
<1>6. ASSUME loaded["market"] = link["backend"], loaded["market"] \in Collects["market"]
      PROVE  ~Holding("market")
  <2>1. Needed("market")
    BY <1>4, <1>6 DEF Needed
  <2> QED BY <1>1, <2>1 DEF CInv, Locked, Apart, Collector
<1>7. Verified'
  BY <1>1, <1>6 DEF CInv, Verified, AtWork, Holding, Collector
<1> QED BY <1>5, <1>7 DEF CInv

(* Turning the back end's link is the one step a collector could see.           *)
LEMMA MoveLinkLocks == ASSUME IInv, CInv, NEW c \in Component, MoveLink(c) PROVE CInv'
<1>1. /\ pub.pc = "placed" /\ link' = [link EXCEPT ![c] = Aim[c]] /\ c \in pub.left
      /\ UNCHANGED <<journal, held, col, loaded>>
  BY DEF MoveLink, At, Turn, Rest
<1>2. pub \in PubRecord /\ Links
  BY <1>1, ActiveFacts DEF Locking
<1>3. pub'.pc = "switch" /\ pub'.old = pub.old /\ pub'.new = pub.new
  BY <1>2 DEF MoveLink, PubRecord
<1>4. Locked' /\ Apart'
  BY <1>1, <1>3 DEF CInv, Locked, Needed, Apart, Idle, At, Holding
<1>5. CASE c = "frontend"
  <2>1. link'["backend"] = link["backend"]
    BY <1>1, <1>5 DEF IInv, TypeOK, State, Component
  <2>2. AtWork' /\ Verified'
    BY <1>1, <2>1 DEF CInv, AtWork, Verified
  <2> QED BY <1>4, <2>2 DEF CInv
<1>6. CASE c = "backend"
  <2>1. link["backend"] \in {pub.old["backend"], pub.new["backend"]} /\ link'["backend"] = Aim["backend"]
    BY <1>1, <1>2, <1>6 DEF Links, IInv, TypeOK, State, Component
  <2>2. ASSUME NEW k \in Collector, link["backend"] \in Collects[k] \/ link'["backend"] \in Collects[k]
        PROVE  ~Holding(k)
    <3>1. Needed(k)
      BY <2>1, <2>2 DEF Needed, Aim
    <3> QED BY <1>1, <3>1 DEF CInv, Locked, Apart
  <2>3. AtWork'
    BY <1>1, <2>2 DEF CInv, AtWork, Holding
  <2>4. Verified'
    BY <1>1, <2>2 DEF CInv, Verified, Holding, Collector
  <2> QED BY <1>4, <2>3, <2>4 DEF CInv
<1> QED BY <1>5, <1>6 DEF Component

LEMMA PlainLocks ==
    ASSUME IInv, CInv, NEW place \in Places, Goto(place), pub.pc \notin {"idle", "lock"},
           UNCHANGED <<journal, held, link, col, loaded>>
    PROVE  CInv'
<1>1. pub \in PubRecord
  BY ActiveFacts
<1>2. pub'.pc # "idle" /\ pub'.old = pub.old /\ pub'.new = pub.new
  BY <1>1, GotoFacts DEF Places
<1> QED BY <1>2, OnwardKeeps

LEMMA PublisherLocks == ASSUME IInv, CInv, Publisher PROVE CInv'
<1>1. CASE Plan
  <2>1. UNCHANGED <<journal, link, pub, held, col, loaded>>
    BY <1>1 DEF Plan, files
  <2> QED BY <2>1 DEF CInv, Locked, Needed, Apart, Idle, At, Holding, AtWork, Verified
<1>2. CASE PublishFull \/ PublishDelta \/ Rollback
  BY <1>2, BeginLocks DEF PublishFull, PublishDelta, Rollback
<1>3. CASE EnterTry \/ EndSwitch \/ Restart \/ Healthy
  <2>1. PICK place \in {"switch", "restart", "health", "state", "previous"} : Goto(place)
    BY <1>3 DEF EnterTry, EndSwitch, Restart, Healthy
  <2>2. pub.pc \notin {"idle", "lock"} /\ UNCHANGED <<journal, held, link, col, loaded>>
    BY <1>3 DEF EnterTry, EndSwitch, Restart, Healthy, At, files, Rest
  <2> QED BY <2>1, <2>2, PlainLocks DEF Places
<1>4. CASE WritePrevious \/ WriteState \/ \E c \in Component : PlaceNext(c)
  <2>1. PICK place \in {"undone", "state", "previous", "committed", "placed"} : Goto(place)
    BY <1>4 DEF WritePrevious, WriteState, PlaceNext
  <2>2. pub.pc \notin {"idle", "lock"} /\ UNCHANGED <<journal, held, link, col, loaded>>
    BY <1>4 DEF WritePrevious, WriteState, PlaceNext, At, Rest
  <2> QED BY <2>1, <2>2, PlainLocks DEF Places
<1>5. CASE Finish
  <2>1. Leave /\ journal' = None /\ UNCHANGED <<link, col, loaded>>
    BY <1>5 DEF Finish, Rest
  <2> QED BY <2>1, LeavingKeeps
<1>6. CASE TakeLock \/ Journal \/ \E c \in Component : MoveLink(c)
  BY <1>6, TakeLockLocks, JournalLocks, MoveLinkLocks
<1> QED BY <1>1, <1>2, <1>3, <1>4, <1>5, <1>6 DEF Publisher

LEMMA CollectorLocks == ASSUME IInv, CInv, CollectorStep PROVE CInv'
<1>1. PICK k \in Collector : Start(k) \/ Acquire(k) \/ CheckJournal(k) \/ CheckCurrent(k) \/ End(k)
  BY DEF CollectorStep
<1>2. UNCHANGED <<journal, link, pub, held>>
  BY <1>1 DEF Start, Acquire, CheckJournal, CheckCurrent, End, Others, files
<1>3. col \in [Collector -> {"idle", "started", "locked", "checked", "working"}] /\ loaded \in [Collector -> Release]
  BY DEF IInv, TypeOK
<1>4. Locked'
  BY <1>2 DEF CInv, Locked, Needed
<1>5. (\A j \in Collector : j # k => col'[j] = col[j] /\ loaded'[j] = loaded[j])
  BY <1>1, <1>3 DEF Start, Acquire, CheckJournal, CheckCurrent, End, Move, Load
<1>6. k \in held => ~Holding(k)'
  BY <1>1, <1>3 DEF Start, Acquire, CheckJournal, CheckCurrent, End, Move, Holding, CInv, Apart
<1>7. held \subseteq Collector
  BY DEF IInv, TypeOK
<1>8. Apart'
  BY <1>2, <1>5, <1>6, <1>7 DEF CInv, Apart, Idle, At, Holding
<1>9. col'[k] = "working" => loaded'[k] = link["backend"] /\ loaded'[k] \in Collects[k]
  <2>1. CASE CheckJournal(k)
    BY <1>3, <2>1 DEF CheckJournal, Move, Load
  <2>2. CASE CheckCurrent(k)
    <3>1. k = "market"
      BY <2>2 DEF CheckCurrent, Collector, CInv, Verified
    <3> QED BY <1>3, <2>2, <3>1 DEF CheckCurrent, IsCurrent, Move, CInv, Verified
  <2>3. CASE Start(k) \/ Acquire(k) \/ End(k)
    BY <1>3, <2>3 DEF Start, Acquire, End, Move
  <2> QED BY <1>1, <2>1, <2>2, <2>3
<1>10. AtWork'
  BY <1>2, <1>5, <1>9 DEF CInv, AtWork
<1>11. Verified'
  BY <1>1, <1>2, <1>3, <1>5 DEF CInv, Verified, Start, Acquire, CheckJournal, CheckCurrent, IsCurrent,
     End, Move, Load, Collector
<1> QED BY <1>4, <1>8, <1>10, <1>11 DEF CInv

LEMMA RestLocks == ASSUME IInv, CInv, Interrupt \/ Kill \/ ServiceRestarts \/ Operator PROVE CInv'
<1>1. CASE Interrupt
  <2>1. UNCHANGED <<journal, link, col, loaded>> /\ pub.pc # "idle"
    BY <1>1 DEF Interrupt, Rest, Idle, At
  <2>2. CASE Leave
    BY <2>1, <2>2, LeavingKeeps
  <2>3. CASE InTry /\ pub' = UndoFrom /\ UNCHANGED held
    <3>1. pub \in PubRecord
      BY <2>1, ActiveFacts
    <3>2. pub.pc # "lock" /\ pub'.pc = "switch" /\ pub'.old = pub.old /\ pub'.new = pub.new
      BY <2>3, <3>1 DEF InTry, UndoFrom, PubRecord
    <3> QED BY <2>1, <2>3, <3>2, OnwardKeeps
  <2> QED BY <1>1, <2>2, <2>3 DEF Interrupt
<1>2. CASE Kill
  BY <1>2, LeavingKeeps DEF Kill, files, Rest
<1>3. CASE ServiceRestarts
  <2>1. UNCHANGED <<journal, link, pub, held, col, loaded>>
    BY <1>3 DEF ServiceRestarts, files, Rest
  <2> QED BY <2>1 DEF CInv, Locked, Needed, Apart, Idle, At, Holding, AtWork, Verified
<1>4. CASE Operator
  <2>1. UNCHANGED <<pub, held, col, loaded>> /\ pub.pc = "idle" /\ \A k \in Collector : col[k] = "idle"
    BY <1>4 DEF Operator, OperatorRecovers, Rest, Idle, At
  <2> QED BY <2>1 DEF CInv, Locked, Needed, Apart, Idle, At, Holding, AtWork, Verified, Collector
<1> QED BY <1>1, <1>2, <1>3, <1>4

(* A collector at work runs the back end that is linked, and the market's runs  *)
(* one that was verified, for any releases with or without the collectors, and  *)
(* wherever the publisher dies (release.py 364-418, market_tick.py).            *)
THEOREM CollectorsSeeOneReleaseHolds == Spec => []CollectorsSeeOneRelease
<1>1. Init => CInv
  BY DEF Init, CInv, Locked, Apart, Idle, At, AtWork, Verified, NoPublisher, Collector
<1>2. IInv /\ CInv /\ [Next]_vars => CInv'
  <2> SUFFICES ASSUME IInv, CInv, [Next]_vars PROVE CInv'
    OBVIOUS
  <2>1. CASE UNCHANGED vars
    BY <2>1 DEF vars, files, CInv, Locked, Needed, Apart, Idle, At, Holding, AtWork, Verified
  <2> QED BY <2>1, PublisherLocks, CollectorLocks, RestLocks DEF Next
<1>3. IInv /\ CInv => CollectorsSeeOneRelease
  <2> SUFFICES ASSUME IInv, CInv PROVE CollectorsSeeOneRelease
    OBVIOUS
  <2>1. \A k \in Collector : col[k] = "working" => link["backend"] = loaded[k]
    BY DEF CInv, AtWork
  <2>2. ASSUME col["market"] = "working" PROVE journal = None /\ state["backend"] = loaded["market"]
    <3>1. journal = None /\ loaded["market"] = link["backend"]
      BY <2>2 DEF CInv, Verified, AtWork, Collector
    <3>2. link = state
      <4>1. CASE pub = NoPublisher
        BY <3>1, <4>1 DEF IInv, Quiet
      <4>2. CASE pub # NoPublisher
        <5>1. pub \in PubRecord /\ BeforeJournal /\ (~Locking => Links)
          BY <4>2 DEF IInv, Active, Memory
        <5>2. Locking
          BY <3>1, <5>1, ReleaseAssumption DEF Links, PubRecord, Names
        <5> QED BY <5>1, <5>2 DEF BeforeJournal
      <4> QED BY <4>1, <4>2
    <3> QED BY <3>1, <3>2
  <2> QED BY <2>1, <2>2 DEF CollectorsSeeOneRelease
<1> QED BY <1>1, <1>2, <1>3, ReleaseInductive, PTL DEF Spec
=============================================================================
