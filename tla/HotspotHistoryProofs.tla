------------------------- MODULE HotspotHistoryProofs -------------------------
(* For any stamps, rows and limits: the store is never damaged, its budget     *)
(* never refuses a pass, its attempts are true, a store at rest answers every  *)
(* request, and what is durable implements the log of HotspotStore.            *)
EXTENDS HotspotHistory, FiniteSetTheorems, FunctionTheorems, SequenceTheorems, WellFoundedInduction, TLAPS

(* The places of a pass whose sample is newer than all the index holds.        *)
Waiting == {"clear", "cleared", "publish", "linked", "published", "commit"}
(* The places of a pass whose sample the index holds.                          *)
Holding == {"committed", "prune", "pruned", "audit"}
(* The places where no change of the index waits for an fsync.                 *)
Synced == Waiting \cup (Holding \ {"committed"})

Ordered(log) == \A i, j \in 1..Len(log) : i < j => log[i].id < log[j].id

(* The abstract step between two logs.                                         *)
Grows(log, new) ==
    \E s \in Sample :
        /\ \A i \in 1..Len(log) : log[i].id < s.id
        /\ \E n \in 0..Len(log) :
              /\ \A i \in 1..n : log[i].id + Retention < s.id \/ Len(log) - i + 2 > MaxSamples
              /\ new = Append(SubSeq(log, n + 1, Len(log)), s)
              /\ Len(new) <= MaxSamples

(* Each index in sight is in order and short enough, and what waits for an     *)
(* fsync is one step of the log.                                               *)
IndexOk ==
    /\ \A index \in {dir.index, durable.index} :
          Ordered(Entries(index)) /\ Len(Entries(index)) <= MaxSamples
    /\ \/ Entries(dir.index) = Entries(durable.index)
       \/ Grows(Entries(durable.index), Entries(dir.index))

(* What the place of the pass says of the directory.                           *)
PassOk ==
    /\ pc = "index" => dir.index = Absent /\ durable.index = Absent
    /\ pc = "indexed" => dir.index = << >> /\ Entries(durable.index) = << >>
    /\ pc \in Synced => dir.index = durable.index /\ dir.index # Absent
    /\ pc \in Waiting => \A e \in Listed(dir.index) : e.id < sample.id
    /\ pc \in {"index", "indexed"} \cup (Waiting \ {"linked"}) => spare = {}
    /\ pc \in Holding => sample \in Listed(dir.index)
    /\ pc = "publish" => /\ dir.samples = durable.samples
                         /\ \A s \in dir.samples : s \in Listed(dir.index) \/ s.id = sample.id
    /\ pc = "cleared" => \A s \in dir.samples : s \in Listed(dir.index) \/ s.id = sample.id
    /\ pc \in {"linked", "published", "commit"} => sample \in dir.samples
    /\ pc = "commit" => sample \in durable.samples

Told(a, index) ==
    /\ Listed(index) # {}
    /\ \/ \E e \in Listed(index) : e.id = a.at
       \/ \A e \in Listed(index) : e.id > a.at

AttemptsOk ==
    \A a \in Members(dir.attempts) \cup Members(durable.attempts), index \in {dir.index, durable.index} :
        a.recorded => Told(a, index)

BudgetOk ==
    /\ \A s, t \in dir.samples \cup durable.samples : s.id = t.id => s = t
    /\ IsFiniteSet(dir.samples \cup durable.samples)
    /\ Cardinality(dir.samples \cup durable.samples) <= MaxSamples + 1

ReaderOk ==
    /\ reader \in [pc : {"idle", "missing", "checking", "reading", "failed"}, index : Index,
                   next : Nat, pair : Seq(Sample)]
    /\ reader.pc = "missing" => reader.index = Absent
    /\ reader.pc \in {"checking", "reading"} => reader.index \in Seq(Sample)
    /\ reader.pc = "reading" => Members(reader.pair) \subseteq Listed(reader.index) /\ Len(reader.pair) > 0

HInv == StoreSurvives /\ IndexOk /\ PassOk /\ AttemptsOk /\ BudgetOk

-----------------------------------------------------------------------------
LEMMA Bounds ==
  /\ Stamp \subseteq Nat /\ Retention \in Nat /\ MaxSamples \in Nat /\ MaxSamples >= 1
  /\ MaxAttempts \in Nat /\ MaxAttempts >= 1 /\ Absent \notin Seq(Sample)
BY HistoryAssumption

LEMMA EntriesSeq ==
  /\ Entries(Absent) = << >> /\ Listed(Absent) = {}
  /\ \A log \in Seq(Sample) : Entries(log) = log /\ Listed(log) = Members(log) /\ log # Absent
  /\ \A index \in Index : Entries(index) \in Seq(Sample) /\ Listed(index) \subseteq Sample
BY Bounds DEF Entries, Listed, Members, Index

LEMMA EmptyLog ==
  /\ << >> \in Seq(Sample) /\ << >> \in Seq(Attempt) /\ << >> # Absent /\ Len(<< >>) = 0
  /\ Members(<< >>) = {} /\ Entries(<< >>) = << >> /\ Listed(<< >>) = {}
<1>1. << >> \in Seq(Sample) /\ << >> \in Seq(Attempt) /\ Len(<< >>) = 0
  BY EmptySeq
<1>2. DOMAIN << >> = {}
  BY <1>1, LenProperties
<1>3. Members(<< >>) = {}
  BY <1>2 DEF Members
<1> QED BY <1>1, <1>3, EntriesSeq

(* The least of a set of naturals.                                             *)
LEMMA Least ==
  ASSUME NEW S \in SUBSET Nat, S # {}
  PROVE  Min(S) \in S /\ \A y \in S : Min(S) <= y
<1> DEFINE R == {ss \in Nat \X Nat : ss[1] < ss[2]}
<1>0. OpToRel(<, Nat) = R
  BY Zenon DEF OpToRel
<1>1. PICK x \in S : \A y \in S : ~(<<y, x>> \in R)
  <2> HIDE DEF R
  <2> QED BY <1>0, NatLessThanWellFounded, WFMin
<1>2. ASSUME NEW y \in S PROVE x <= y
  <2>1. ~(<<y, x>> \in R)
    BY <1>1
  <2>2. x \in Nat /\ y \in Nat /\ ~(y < x)
    BY <2>1
  <2> QED BY <2>2
<1> QED
  BY <1>2 DEF Min

(* A log that loses its n oldest and gains a sample.                           *)
Moved(log, n, s) == Append(SubSeq(log, n + 1, Len(log)), s)

IsMoved(new, log, n, s) ==
    /\ new \in Seq(Sample) /\ Len(new) = Len(log) - n + 1
    /\ \A i \in 1..Len(new) : new[i] = IF i = Len(new) THEN s ELSE log[i + n]

LEMMA Suffix ==
  ASSUME NEW log \in Seq(Sample), NEW s \in Sample, NEW n \in 0..Len(log)
  PROVE  IsMoved(Moved(log, n, s), log, n, s)
<1> DEFINE rest == SubSeq(log, n + 1, Len(log))
           new == Append(rest, s)
<1>0. Len(log) \in Nat /\ n \in Nat /\ n <= Len(log) /\ \A i \in 1..Len(log) : log[i] \in Sample
  BY LenProperties
<1>1. /\ rest \in Seq(Sample) /\ Len(rest) = Len(log) - n
      /\ \A i \in 1..Len(rest) : rest[i] = log[i + n]
  <2>1. /\ rest \in Seq(Sample)
        /\ Len(rest) = IF n + 1 <= Len(log) THEN Len(log) - (n + 1) + 1 ELSE 0
        /\ \A i \in 1..Len(log) - (n + 1) + 1 : rest[i] = log[n + 1 + i - 1]
    BY <1>0, SubSeqProperties
  <2> QED BY <1>0, <2>1
<1>2. /\ new \in Seq(Sample) /\ Len(new) = Len(log) - n + 1
      /\ \A i \in 1..Len(new) : new[i] = IF i = Len(new) THEN s ELSE log[i + n]
  <2> HIDE DEF rest
  <2> QED BY <1>0, <1>1, AppendProperties
<1>3. Moved(log, n, s) = new
  BY DEF Moved
<1> HIDE DEF new, rest
<1> QED
  BY <1>2, <1>3 DEF IsMoved

LEMMA Shift ==
  ASSUME NEW l \in Nat, NEW n \in Nat, n <= l, NEW i \in 1..l - n + 1, i # l - n + 1
  PROVE  i \in Nat /\ i >= 1 /\ i + n \in 1..l
OBVIOUS

(* If the sample is newer, the log stays in order, and what it lost is older   *)
(* than what it holds.                                                         *)
LEMMA Grown ==
  ASSUME NEW log \in Seq(Sample), NEW s \in Sample, NEW n \in 0..Len(log),
         Ordered(log), \A i \in 1..Len(log) : log[i].id < s.id
  PROVE  LET new == Moved(log, n, s)
         IN  /\ Ordered(new)
             /\ Members(new) \subseteq Members(log) \cup {s}
             /\ s \in Members(new)
             /\ \A e \in Members(log), f \in Members(new) : e \in Members(new) \/ e.id < f.id
<1> DEFINE new == Moved(log, n, s)
<1>0. Len(log) \in Nat /\ n \in Nat /\ n <= Len(log) /\ \A i \in 1..Len(log) : log[i] \in Sample
  BY LenProperties
<1>2. /\ new \in Seq(Sample) /\ Len(new) = Len(log) - n + 1
      /\ \A i \in 1..Len(new) : new[i] = IF i = Len(new) THEN s ELSE log[i + n]
  <2>1. IsMoved(new, log, n, s)
    BY Suffix
  <2> HIDE DEF new
  <2> QED BY <2>1 DEF IsMoved
<1> HIDE DEF new
<1>moved. ASSUME NEW i \in 1..Len(new), i # Len(new)
          PROVE  i \in Nat /\ i + n \in 1..Len(log) /\ new[i] = log[i + n]
  <2>1. i \in 1..Len(log) - n + 1 /\ i # Len(log) - n + 1
    BY <1>2, <1>moved
  <2>2. i \in Nat /\ i + n \in 1..Len(log)
    BY <1>0, <2>1, Shift
  <2>3. new[i] = log[i + n]
    BY <1>2, <1>moved
  <2> QED BY <2>2, <2>3
<1>3. Ordered(new)
  <2> SUFFICES ASSUME NEW i \in 1..Len(new), NEW j \in 1..Len(new), i < j PROVE new[i].id < new[j].id
    BY DEF Ordered
  <2>1. i + n \in 1..Len(log) /\ new[i] = log[i + n]
    BY <1>0, <1>2
  <2>2. CASE j = Len(new)
    BY <1>2, <2>1, <2>2
  <2>3. CASE j # Len(new)
    <3>1. j + n \in 1..Len(log) /\ new[j] = log[j + n] /\ i + n < j + n
      <4>1. i \in Nat /\ j \in Nat /\ i < j
        BY <1>0, <1>2
      <4> QED BY <1>0, <1>moved, <2>3, <4>1
    <3> QED BY <2>1, <3>1 DEF Ordered
  <2> QED BY <2>2, <2>3
<1>4. Members(new) \subseteq Members(log) \cup {s}
  <2> SUFFICES ASSUME NEW i \in DOMAIN new PROVE new[i] \in Members(log) \cup {s}
    BY DEF Members
  <2>1. i \in 1..Len(new) /\ DOMAIN log = 1..Len(log)
    BY <1>2, LenProperties
  <2>2. CASE i = Len(new)
    BY <1>2, <2>1, <2>2
  <2>3. CASE i # Len(new)
    <3>1. i + n \in 1..Len(log) /\ new[i] = log[i + n]
      <4>1. i \in Nat /\ i >= 1 /\ i <= Len(new) - 1 /\ Len(new) = Len(log) - n + 1
        BY <1>0, <1>2, <2>1, <2>3
      <4>2. i + n \in 1..Len(log)
        BY <1>0, <4>1
      <4> QED BY <1>2, <2>1, <2>3, <4>2
    <3>2. i + n \in DOMAIN log
      BY <2>1, <3>1
    <3> QED BY <3>1, <3>2 DEF Members
  <2> QED BY <2>2, <2>3
<1>5. s \in Members(new)
  <2>1. Len(new) \in 1..Len(new) /\ DOMAIN new = 1..Len(new)
    BY <1>0, <1>2, LenProperties
  <2> QED BY <1>2, <2>1 DEF Members
<1>6. ASSUME NEW i \in 1..Len(log), NEW j \in 1..Len(new)
      PROVE  log[i] \in Members(new) \/ log[i].id < new[j].id
  <2>1. CASE i > n
    <3>1. i - n \in 1..Len(new) /\ i - n # Len(new) /\ i - n + n = i
      <4>1. i \in Nat /\ i <= Len(log) /\ Len(new) = Len(log) - n + 1
        BY <1>0, <1>2
      <4> QED BY <1>0, <2>1, <4>1
    <3>2. new[i - n] = log[i]
      BY <1>2, <3>1
    <3>3. i - n \in DOMAIN new
      BY <1>2, <3>1, LenProperties
    <3> QED BY <3>2, <3>3 DEF Members
  <2>2. CASE i <= n
    <3>1. CASE j = Len(new)
      BY <1>2, <3>1
    <3>2. CASE j # Len(new)
      <4>1. j + n \in 1..Len(log) /\ i < j + n /\ new[j] = log[j + n]
        <5>1. j \in Nat /\ j >= 1 /\ i \in Nat
          BY <1>0, <1>2
        <5> QED BY <1>0, <1>moved, <2>2, <3>2, <5>1
      <4> QED BY <4>1 DEF Ordered
    <3> QED BY <3>1, <3>2
  <2> QED BY <1>0, <2>1, <2>2
<1>7. \A e \in Members(log), f \in Members(new) : e \in Members(new) \/ e.id < f.id
  <2>1. DOMAIN log = 1..Len(log) /\ DOMAIN new = 1..Len(new)
    BY <1>2, LenProperties
  <2> QED BY <1>6, <2>1 DEF Members
<1> QED
  BY <1>3, <1>4, <1>5, <1>7 DEF new

(* The index the pass commits is one step of the log.                          *)
LEMMA RetainedGrows ==
  ASSUME NEW log \in Seq(Sample), dir.index = log, sample \in Sample,
         Ordered(log), Len(log) <= MaxSamples, \A e \in Members(log) : e.id < sample.id
  PROVE  /\ Retained \in Seq(Sample) /\ Ordered(Retained) /\ Len(Retained) <= MaxSamples
         /\ Grows(log, Retained)
         /\ Members(Retained) \subseteq Members(log) \cup {sample} /\ sample \in Members(Retained)
         /\ \A e \in Members(log), f \in Members(Retained) : e \in Members(Retained) \/ e.id < f.id
<1>0. /\ Len(log) \in Nat /\ DOMAIN log = 1..Len(log)
      /\ \A i \in 1..Len(log) : log[i] \in Sample /\ log[i].id \in Nat /\ log[i].id < sample.id
  <2>1. Len(log) \in Nat /\ DOMAIN log = 1..Len(log) /\ \A i \in 1..Len(log) : log[i] \in Sample
    BY LenProperties
  <2>2. \A i \in 1..Len(log) : log[i] \in Members(log)
    BY <2>1 DEF Members
  <2>3. \A e \in Sample : e.id \in Nat
    BY Bounds DEF Sample
  <2> QED BY <2>1, <2>2, <2>3
<1>1. sample.id \in Nat /\ Retention \in Nat /\ MaxSamples \in Nat /\ MaxSamples >= 1
  BY Bounds DEF Sample
<1> DEFINE L == Len(log)
           candidates == {i \in 1..L + 1 : i = L + 1 \/ Fresh(log[i])}
           first == Min(candidates)
<1>2. first \in 1..L + 1 /\ \A i \in 1..first - 1 : ~Fresh(log[i])
  <2>1. candidates \in SUBSET Nat /\ L + 1 \in candidates
    BY <1>0
  <2>2. first \in candidates /\ \A y \in candidates : first <= y
    <3> HIDE DEF candidates
    <3> QED BY <2>1, Least
  <2> HIDE DEF first
  <2> QED BY <1>0, <2>2
<1>3. first = FirstFresh
  BY DEF FirstFresh
<1> HIDE DEF first, candidates
<1> DEFINE fresh == Append(SubSeq(log, first, L), sample)
           n == IF L - (first - 1) + 1 > MaxSamples THEN L + 1 - MaxSamples ELSE first - 1
           new == Moved(log, n, sample)
<1>4. n \in 0..L /\ n >= first - 1
  BY <1>0, <1>1, <1>2
<1>5. Retained = new
  <2>1. first - 1 \in 0..L /\ first - 1 + 1 = first
    BY <1>0, <1>2
  <2>2. /\ fresh \in Seq(Sample) /\ Len(fresh) = L - (first - 1) + 1
        /\ \A i \in 1..Len(fresh) : fresh[i] = IF i = Len(fresh) THEN sample ELSE log[i + (first - 1)]
    <3> DEFINE k == first - 1
    <3>1. k \in 0..Len(log) /\ k + 1 = first
      BY <1>0, <2>1
    <3>2. fresh = Moved(log, k, sample)
      BY <3>1 DEF Moved
    <3> HIDE DEF fresh, k, new, n
    <3>3. IsMoved(Moved(log, k, sample), log, k, sample)
      BY <3>1, Suffix
    <3>4. IsMoved(fresh, log, k, sample)
      BY <3>2, <3>3
    <3> QED BY <3>4 DEF k, IsMoved
  <2>3. /\ new \in Seq(Sample) /\ Len(new) = L - n + 1
        /\ \A i \in 1..Len(new) : new[i] = IF i = Len(new) THEN sample ELSE log[i + n]
    <3> HIDE DEF n
    <3>1. IsMoved(new, log, n, sample)
      BY <1>4, Suffix
    <3> HIDE DEF new
    <3> QED BY <3>1 DEF IsMoved
  <2> DEFINE from == 1 + (IF Len(fresh) > MaxSamples THEN Len(fresh) - MaxSamples ELSE 0)
             cut == SubSeq(fresh, from, Len(fresh))
  <2>4. Retained = cut
    BY <1>3 DEF Retained, Newest
  <2>5. from \in 1..Len(fresh) /\ n = from - 1 + (first - 1) /\ Len(fresh) \in Nat
    <3> HIDE DEF fresh
    <3> QED BY <1>0, <1>1, <1>2, <2>2
  <2>6. /\ cut \in Seq(Sample) /\ Len(cut) = Len(fresh) - from + 1
        /\ \A i \in 1..Len(fresh) - from + 1 : cut[i] = fresh[from + i - 1]
    <3> HIDE DEF fresh, from
    <3> QED BY <2>2, <2>5, SubSeqProperties
  <2> HIDE DEF cut, from, fresh, new, n
  <2>7. Len(cut) = Len(new)
    BY <1>0, <1>2, <1>4, <2>2, <2>3, <2>5, <2>6
  <2>8. \A i \in 1..Len(cut) : cut[i] = new[i]
    <3> SUFFICES ASSUME NEW i \in 1..Len(cut) PROVE cut[i] = new[i]
      OBVIOUS
    <3>1. from + i - 1 \in 1..Len(fresh) /\ cut[i] = fresh[from + i - 1]
      BY <2>5, <2>6
    <3>2. i \in 1..Len(new) /\ (i = Len(new) <=> from + i - 1 = Len(fresh)) /\ from + i - 1 + (first - 1) = i + n
      BY <1>0, <1>2, <1>4, <2>2, <2>3, <2>5, <2>6, <2>7
    <3> QED BY <2>2, <2>3, <3>1, <3>2
  <2>9. cut = new
    BY <2>3, <2>6, <2>7, <2>8, SeqEqual
  <2> QED BY <2>4, <2>9
<1>6. Len(new) = L - n + 1 /\ new \in Seq(Sample) /\ Ordered(new)
      /\ Members(new) \subseteq Members(log) \cup {sample} /\ sample \in Members(new)
      /\ \A e \in Members(log), f \in Members(new) : e \in Members(new) \/ e.id < f.id
  <2> HIDE DEF n
  <2>1. Len(new) = L - n + 1 /\ new \in Seq(Sample)
    <3>1. IsMoved(new, log, n, sample)
      BY <1>4, Suffix
    <3> HIDE DEF new
    <3> QED BY <3>1 DEF IsMoved
  <2> QED BY <1>0, <1>4, <2>1, Grown
<1>7. Len(new) <= MaxSamples
  <2> HIDE DEF new
  <2> QED BY <1>0, <1>1, <1>2, <1>6
<1>8. \A i \in 1..n : log[i].id + Retention < sample.id \/ L - i + 2 > MaxSamples
  <2> SUFFICES ASSUME NEW i \in 1..n, ~(L - i + 2 > MaxSamples) PROVE log[i].id + Retention < sample.id
    OBVIOUS
  <2>1. i \in 1..first - 1 /\ i \in 1..L
    BY <1>0, <1>1, <1>2, <1>4
  <2> QED BY <1>0, <1>1, <1>2, <2>1 DEF Fresh
<1>9. Grows(log, new)
  <2> HIDE DEF new, n
  <2>1. new = Append(SubSeq(log, n + 1, L), sample)
    BY DEF new, Moved
  <2> QED BY <1>0, <1>4, <1>7, <1>8, <2>1 DEF Grows
<1> QED
  BY <1>5, <1>6, <1>7, <1>9

-----------------------------------------------------------------------------
Places ==
    {"indexed", "cleared", "published", "committed", "pruned", "audited", "idle", "open", "index", "clear",
     "publish", "linked", "commit", "prune", "audit", "unrecorded"}

LEMMA Syncs ==
  /\ DOMAIN AfterSync = {"indexed", "cleared", "published", "committed", "pruned", "audited"}
  /\ AfterSync["indexed"] = "clear" /\ AfterSync["cleared"] = "publish" /\ AfterSync["published"] = "commit"
  /\ AfterSync["committed"] = "prune" /\ AfterSync["pruned"] = "audit" /\ AfterSync["audited"] = "idle"
BY DEF AfterSync

LEMMA Types ==
  TypeOK <=> /\ dir \in Directory /\ durable \in Directory
             /\ spare \subseteq Stamp
             /\ pc \in Places
             /\ sample \in Sample
BY Syncs DEF TypeOK, Places

LEMMA InitHolds == Init => HInv /\ ReaderOk
<1> SUFFICES ASSUME Init PROVE HInv /\ ReaderOk
  OBVIOUS
<1> USE DEF Init
<1>1. Listed(dir.index) = {} /\ Entries(dir.index) = << >> /\ Members(dir.attempts) = {}
  BY EntriesSeq DEF Members
<1>2. StoreSurvives
  <2>1. dir \in Directory
    BY DEF Directory, Index
  <2> QED BY <1>1, <2>1, Types DEF StoreSurvives, Places
<1>3. IndexOk
  BY <1>1, Bounds DEF IndexOk, Ordered
<1>4. PassOk /\ AttemptsOk
  BY <1>1 DEF PassOk, AttemptsOk, Synced, Waiting, Holding
<1>5. BudgetOk
  BY FS_EmptySet, Bounds DEF BudgetOk
<1>6. ReaderOk
  BY DEF ReaderOk, NoReader, Index
<1> QED
  BY <1>2, <1>3, <1>4, <1>5, <1>6 DEF HInv

(* Steps that change neither the directory nor what is durable.                *)
LEMMA SameFiles ==
  ASSUME HInv, UNCHANGED <<dir, durable>>, spare' \subseteq spare, sample' \in Sample, pc' \in Places
  PROVE  StoreSurvives' /\ IndexOk' /\ AttemptsOk' /\ BudgetOk'
<1>1. StoreSurvives'
  BY Types DEF HInv, StoreSurvives, TypeOK, Places, AfterSync
<1>2. IndexOk'
  BY DEF HInv, IndexOk
<1>3. AttemptsOk' /\ BudgetOk'
  BY DEF HInv, AttemptsOk, BudgetOk
<1> QED BY <1>1, <1>2, <1>3

(* An fsync of the directory.                                                  *)
LEMMA Synchronised ==
  ASSUME HInv, dir' = dir, durable' = dir, spare' \subseteq spare, sample' \in Sample, pc' \in Places
  PROVE  StoreSurvives' /\ IndexOk' /\ AttemptsOk' /\ BudgetOk'
<1>1. StoreSurvives'
  BY Types DEF HInv, StoreSurvives, TypeOK, Places, AfterSync
<1>2. IndexOk'
  BY DEF HInv, IndexOk
<1>3. AttemptsOk'
  BY DEF HInv, AttemptsOk
<1>4. BudgetOk'
  BY FS_Subset, FS_CardinalityType, Bounds DEF HInv, BudgetOk
<1> QED BY <1>1, <1>2, <1>3, <1>4

LEMMA SyncKeeps == HInv /\ SyncDirectory => HInv'
<1> SUFFICES ASSUME HInv, SyncDirectory PROVE HInv'
  OBVIOUS
<1>1. /\ pc \in DOMAIN AfterSync /\ pc' = AfterSync[pc]
      /\ dir' = dir /\ durable' = dir /\ spare' = spare /\ sample' = sample
  BY DEF SyncDirectory
<1>2. \/ pc = "indexed" /\ pc' = "clear"
      \/ pc = "cleared" /\ pc' = "publish"
      \/ pc = "published" /\ pc' = "commit"
      \/ pc = "committed" /\ pc' = "prune"
      \/ pc = "pruned" /\ pc' = "audit"
      \/ pc = "audited" /\ pc' = "idle"
  BY <1>1, Syncs
<1>3. sample' \in Sample /\ pc' \in Places
  BY <1>1, <1>2, Types DEF HInv, StoreSurvives, Places
<1>4. PassOk'
  <2>1. PassOk
    BY DEF HInv
  <2>2. << >> # Absent /\ Listed(<< >>) = {} /\ Listed(Absent) = {}
    BY EmptyLog, EntriesSeq
  <2> QED BY <1>1, <1>2, <2>1, <2>2 DEF PassOk, Synced, Waiting, Holding
<1> QED BY <1>1, <1>3, <1>4, Synchronised DEF HInv

LEMMA OpenKeeps == HInv /\ Open => HInv'
<1> SUFFICES ASSUME HInv, Open PROVE HInv'
  OBVIOUS
<1>1. /\ dir' = dir /\ durable' = dir /\ spare' = {} /\ sample' = sample
      /\ pc' = (IF Damaged \/ Refused THEN "unrecorded" ELSE IF Repeats THEN "prune"
                ELSE IF FirstPass THEN "index" ELSE "clear")
  BY DEF Open, Goto
<1>2. sample' \in Sample /\ pc' \in Places /\ dir \in Directory /\ sample \in Sample
  BY <1>1, Types DEF HInv, StoreSurvives, Places
<1>3. dir.index \in Index /\ Entries(dir.index) \in Seq(Sample)
  BY <1>2, EntriesSeq DEF Directory
<1> DEFINE log == Entries(dir.index)
<1>4. CASE pc' = "prune"
  <2>1. Repeats
    BY <1>1, <1>4
  <2>2. log # << >> /\ dir.index # Absent /\ dir.index = log
    BY <2>1, EntriesSeq DEF Repeats, Entries
  <2>3. Len(log) \in DOMAIN log /\ log[Len(log)] = sample
    BY <1>3, <2>1, <2>2, LenProperties DEF Repeats, Last
  <2>4. sample \in Listed(dir.index)
    BY <2>3 DEF Listed, Members
  <2>5. PassOk'
    BY <1>1, <1>4, <2>2, <2>4 DEF PassOk, Synced, Waiting, Holding
  <2> QED BY <1>1, <1>2, <2>5, Synchronised DEF HInv
<1>5. CASE pc' = "index"
  <2>1. PassOk'
    BY <1>1, <1>5 DEF PassOk, Synced, Waiting, Holding, FirstPass
  <2> QED BY <1>1, <1>2, <2>1, Synchronised DEF HInv
<1>6. CASE pc' = "clear"
  <2>1. ~Refused /\ ~Repeats /\ dir.index # Absent /\ dir.index = log
    BY <1>1, <1>6 DEF FirstPass, Entries
  <2>2. \A e \in Listed(dir.index) : e.id < sample.id
    <3> SUFFICES ASSUME NEW i \in DOMAIN log PROVE log[i].id < sample.id
      BY DEF Listed, Members
    <3>1. Len(log) \in Nat /\ DOMAIN log = 1..Len(log) /\ \A j \in 1..Len(log) : log[j] \in Sample
      BY <1>3, LenProperties
    <3>2. i \in 1..Len(log) /\ Len(log) \in 1..Len(log) /\ log # << >>
      BY <3>1
    <3>3. log[i].id \in Nat /\ log[Len(log)].id \in Nat /\ sample.id \in Nat
      BY <1>2, <3>1, <3>2, Bounds DEF Sample
    <3>4. ~(sample.id <= log[Len(log)].id)
      BY <2>1, <3>2 DEF Refused, Last
    <3>5. log[i].id <= log[Len(log)].id
      <4>1. Ordered(log)
        BY DEF HInv, IndexOk
      <4>2. CASE i = Len(log)
        BY <3>3, <4>2
      <4>3. CASE i < Len(log)
        BY <3>2, <3>3, <4>1, <4>3 DEF Ordered
      <4> QED BY <3>1, <3>2, <4>2, <4>3
    <3> QED BY <3>3, <3>4, <3>5
  <2>3. PassOk'
    BY <1>1, <1>6, <2>1, <2>2 DEF PassOk, Synced, Waiting, Holding
  <2> QED BY <1>1, <1>2, <2>3, Synchronised DEF HInv
<1>7. CASE pc' = "unrecorded"
  <2>1. PassOk'
    BY <1>7 DEF PassOk, Synced, Waiting, Holding
  <2> QED BY <1>1, <1>2, <2>1, Synchronised DEF HInv
<1> QED BY <1>1, <1>4, <1>5, <1>6, <1>7

LEMMA CreateIndexKeeps == HInv /\ CreateIndex => HInv'
<1> SUFFICES ASSUME HInv, CreateIndex PROVE HInv'
  OBVIOUS
<1>1. /\ pc = "index" /\ pc' = "indexed" /\ dir' = [dir EXCEPT !.index = << >>]
      /\ durable' = durable /\ spare' = spare /\ sample' = sample
  BY DEF CreateIndex, Goto, SetIndex
<1>2. dir.index = Absent /\ durable.index = Absent /\ dir.samples = {} /\ durable.samples = {} /\ spare = {}
  BY <1>1 DEF HInv, PassOk, StoreSurvives
<1>3. dir \in Directory
  BY Types DEF HInv, StoreSurvives
<1>4. /\ dir' \in Directory /\ dir'.index = << >> /\ dir'.samples = {} /\ dir'.attempts = dir.attempts
  BY <1>1, <1>2, <1>3, EmptyLog DEF Directory, Index
<1>5. Listed(<< >>) = {} /\ Entries(<< >>) = << >> /\ Listed(Absent) = {} /\ Entries(Absent) = << >> /\ << >> # Absent
  BY EntriesSeq, EmptyLog
<1>6. StoreSurvives'
  BY <1>1, <1>2, <1>4, <1>5, Types DEF HInv, StoreSurvives, TypeOK, Places, AfterSync
<1>7. IndexOk'
  BY <1>1, <1>2, <1>4, <1>5, Bounds DEF IndexOk, Ordered
<1>8. PassOk'
  BY <1>1, <1>2, <1>4, <1>5 DEF PassOk, Synced, Waiting, Holding
<1>9. AttemptsOk'
  BY <1>1, <1>2, <1>4, <1>5 DEF HInv, AttemptsOk, Told
<1>10. BudgetOk'
  BY <1>1, <1>2, <1>4 DEF HInv, BudgetOk
<1> QED BY <1>6, <1>7, <1>8, <1>9, <1>10 DEF HInv

(* A sample no index lists is unlinked.                                        *)
LEMMA Unlinked ==
  ASSUME HInv, NEW s \in dir.samples, s \notin Listed(dir.index), s \notin Listed(durable.index),
         SetSamples(dir.samples \ {s}), UNCHANGED <<durable, spare, sample, pc>>
  PROVE  /\ StoreSurvives' /\ IndexOk' /\ AttemptsOk' /\ BudgetOk'
         /\ dir'.index = dir.index /\ dir'.samples = dir.samples \ {s}
<1>1. dir \in Directory
  BY Types DEF HInv, StoreSurvives
<1>2. /\ dir' \in Directory /\ dir'.index = dir.index /\ dir'.attempts = dir.attempts
      /\ dir'.samples = dir.samples \ {s}
  BY <1>1 DEF SetSamples, Directory
<1>3. StoreSurvives'
  BY <1>2, Types DEF HInv, StoreSurvives, TypeOK, Places, AfterSync
<1>4. IndexOk' /\ AttemptsOk'
  BY <1>2 DEF HInv, IndexOk, AttemptsOk
<1>5. BudgetOk'
  <2> DEFINE before == dir.samples \cup durable.samples
             after == dir'.samples \cup durable.samples
  <2>1. after \in SUBSET before
    BY <1>2
  <2>2. IsFiniteSet(before) /\ Cardinality(before) <= MaxSamples + 1
    BY DEF HInv, BudgetOk
  <2>3. IsFiniteSet(after) /\ Cardinality(after) <= MaxSamples + 1
    <3> HIDE DEF before, after
    <3> QED BY <2>1, <2>2, FS_Subset, FS_CardinalityType, Bounds
  <2> QED BY <1>2, <2>3 DEF HInv, BudgetOk
<1> QED BY <1>2, <1>3, <1>4, <1>5

LEMMA ClearOrphansKeeps == HInv /\ ClearOrphans => HInv'
<1> SUFFICES ASSUME HInv, ClearOrphans PROVE HInv'
  OBVIOUS
<1> DEFINE keep == Listed(dir.index) \cup {sample}
<1>1. pc = "clear" /\ UNCHANGED <<durable, spare, sample>>
  BY DEF ClearOrphans, RemoveOrphan
<1>2. dir.index = durable.index /\ dir.index # Absent /\ sample \in Sample
  BY <1>1, Types DEF HInv, StoreSurvives, PassOk, Synced, Waiting
<1>3. CASE \E s \in Orphans(keep) : SetSamples(dir.samples \ {s}) /\ UNCHANGED pc
  <2>1. PICK s \in Orphans(keep) : SetSamples(dir.samples \ {s}) /\ UNCHANGED pc
    BY <1>3
  <2>2. s \in dir.samples /\ s \notin Listed(dir.index)
    BY <2>1 DEF Orphans
  <2>3. /\ StoreSurvives' /\ IndexOk' /\ AttemptsOk' /\ BudgetOk'
        /\ dir'.index = dir.index
    BY <1>1, <1>2, <2>1, <2>2, Unlinked
  <2>4. PassOk'
    BY <1>1, <1>2, <2>1, <2>3 DEF HInv, PassOk, Synced, Waiting, Holding
  <2> QED BY <2>3, <2>4 DEF HInv
<1>4. CASE Orphans(keep) = {} /\ Goto("cleared") /\ UNCHANGED dir
  <2>1. dir' = dir /\ pc' = "cleared" /\ pc' \in Places
    BY <1>4 DEF Goto, Places
  <2>2. \A s \in dir.samples : s \in Listed(dir.index) \/ s.id = sample.id
    <3> SUFFICES ASSUME NEW s \in dir.samples PROVE s \in Listed(dir.index) \/ s.id = sample.id
      OBVIOUS
    <3>1. PICK e \in keep : s.id = e.id
      BY <1>4 DEF Orphans
    <3>2. e \in Listed(dir.index) => e \in dir.samples
      BY DEF HInv, StoreSurvives
    <3> QED BY <3>1, <3>2 DEF HInv, BudgetOk
  <2>3. PassOk'
    BY <1>1, <1>2, <2>1, <2>2 DEF HInv, PassOk, Synced, Waiting, Holding
  <2> QED BY <1>1, <1>2, <2>1, <2>3, SameFiles DEF HInv
<1> QED BY <1>3, <1>4 DEF ClearOrphans, RemoveOrphan

LEMMA PruneKeeps == HInv /\ Prune => HInv'
<1> SUFFICES ASSUME HInv, Prune PROVE HInv'
  OBVIOUS
<1>1. pc = "prune" /\ UNCHANGED <<durable, spare, sample>>
  BY DEF Prune, RemoveOrphan
<1>2. dir.index = durable.index /\ dir.index # Absent /\ sample \in Sample /\ sample \in Listed(dir.index)
  BY <1>1, Types DEF HInv, StoreSurvives, PassOk, Synced, Waiting, Holding
<1>3. CASE \E s \in Orphans(Listed(dir.index)) : SetSamples(dir.samples \ {s}) /\ UNCHANGED pc
  <2>1. PICK s \in Orphans(Listed(dir.index)) : SetSamples(dir.samples \ {s}) /\ UNCHANGED pc
    BY <1>3
  <2>2. s \in dir.samples /\ s \notin Listed(dir.index)
    BY <2>1 DEF Orphans
  <2>3. /\ StoreSurvives' /\ IndexOk' /\ AttemptsOk' /\ BudgetOk'
        /\ dir'.index = dir.index
    BY <1>1, <1>2, <2>1, <2>2, Unlinked
  <2>4. PassOk'
    BY <1>1, <1>2, <2>1, <2>3 DEF PassOk, Synced, Waiting, Holding
  <2> QED BY <2>3, <2>4 DEF HInv
<1>4. CASE Goto("pruned") /\ UNCHANGED dir
  <2>1. dir' = dir /\ pc' = "pruned" /\ pc' \in Places
    BY <1>4 DEF Goto, Places
  <2>2. PassOk'
    BY <1>1, <1>2, <2>1 DEF PassOk, Synced, Waiting, Holding
  <2> QED BY <1>1, <1>2, <2>1, <2>2, SameFiles DEF HInv
<1> QED BY <1>3, <1>4 DEF Prune, RemoveOrphan

LEMMA PublishKeeps == HInv /\ PublishSample => HInv'
<1> SUFFICES ASSUME HInv, PublishSample PROVE HInv'
  OBVIOUS
<1>1. pc = "publish" /\ UNCHANGED <<durable, sample>>
  BY DEF PublishSample
<1>2. /\ dir.index = durable.index /\ dir.index # Absent /\ sample \in Sample
      /\ \A e \in Listed(dir.index) : e.id < sample.id
      /\ spare = {} /\ dir.samples = durable.samples /\ dir \in Directory
  BY <1>1, Types DEF HInv, StoreSurvives, PassOk, Synced, Waiting
<1>3. CASE /\ Published = {} /\ WithinBudget(1) /\ SetSamples(dir.samples \cup {sample})
           /\ spare' = {sample.id} /\ Goto("linked")
  <2>1. /\ dir' \in Directory /\ dir'.index = dir.index /\ dir'.attempts = dir.attempts
        /\ dir'.samples = dir.samples \cup {sample} /\ pc' = "linked" /\ pc' \in Places
    BY <1>2, <1>3 DEF SetSamples, Directory, Goto, Places
  <2>2. sample.id \in Stamp /\ sample.id \in Nat
    BY <1>2, Bounds DEF Sample
  <2>3. \A e \in Listed(dir.index) : e \in Sample /\ e.id \in Nat /\ e.id # sample.id
    <3>1. \A e \in Sample : e.id \in Nat
      BY Bounds DEF Sample
    <3>2. Listed(dir.index) \subseteq Sample
      BY <1>2, EntriesSeq DEF Directory
    <3>3. ASSUME NEW e \in Listed(dir.index) PROVE e \in Sample /\ e.id \in Nat /\ e.id # sample.id
      <4>1. e \in Sample /\ e.id \in Nat /\ e.id < sample.id
        BY <1>2, <3>1, <3>2
      <4> QED BY <2>2, <4>1
    <3> QED BY <3>3
  <2>4. StoreSurvives'
    <3>1. TypeOK'
      BY <1>1, <1>2, <1>3, <2>1, <2>2, Types DEF HInv, StoreSurvives, TypeOK, Places, AfterSync
    <3> QED BY <1>1, <1>2, <1>3, <2>1, <2>3, <3>1 DEF HInv, StoreSurvives
  <2>5. IndexOk' /\ AttemptsOk'
    BY <1>1, <2>1 DEF HInv, IndexOk, AttemptsOk
  <2>6. BudgetOk'
    <3>1. dir'.samples \cup durable'.samples = dir.samples \cup {sample}
      BY <1>1, <1>2, <2>1
    <3>2. IsFiniteSet(dir.samples)
      BY <1>2 DEF HInv, BudgetOk
    <3>3. Cardinality(dir.samples) + 1 <= MaxSamples + 1 /\ Cardinality(dir.samples) \in Nat
      BY <1>3, <3>2, FS_CardinalityType DEF WithinBudget
    <3>4. /\ IsFiniteSet(dir.samples \cup {sample})
          /\ Cardinality(dir.samples \cup {sample}) <= MaxSamples + 1
      <4> DEFINE files == dir.samples
      <4> HIDE DEF files
      <4>1. /\ IsFiniteSet(files \cup {sample})
            /\ Cardinality(files \cup {sample}) = IF sample \in files THEN Cardinality(files) ELSE Cardinality(files) + 1
        BY <3>2, FS_AddElement DEF files
      <4>2. Cardinality(files) + 1 <= MaxSamples + 1 /\ Cardinality(files) \in Nat
        BY <3>3 DEF files
      <4>3. Cardinality(files \cup {sample}) <= MaxSamples + 1
        BY <4>1, <4>2, Bounds
      <4> QED BY <4>1, <4>3 DEF files
    <3>5. \A t \in dir.samples : t.id # sample.id
      BY <1>3 DEF Published
    <3>6. \A t, u \in dir.samples \cup {sample} : t.id = u.id => t = u
      BY <1>2, <3>5 DEF HInv, BudgetOk
    <3> QED BY <3>1, <3>4, <3>6 DEF BudgetOk
  <2>7. PassOk'
    BY <1>1, <1>2, <2>1 DEF PassOk, Synced, Waiting, Holding
  <2> QED BY <2>4, <2>5, <2>6, <2>7 DEF HInv
<1>4. CASE Published = {sample} /\ Goto("commit") /\ UNCHANGED <<dir, spare>>
  <2>1. dir' = dir /\ spare' = spare /\ pc' = "commit" /\ pc' \in Places /\ sample \in dir.samples
    BY <1>4 DEF Goto, Places, Published
  <2>2. PassOk'
    BY <1>1, <1>2, <2>1 DEF PassOk, Synced, Waiting, Holding
  <2> QED BY <1>1, <1>2, <2>1, <2>2, SameFiles DEF HInv
<1>5. CASE Goto("unrecorded") /\ UNCHANGED <<dir, spare>>
  <2>1. dir' = dir /\ spare' = spare /\ pc' = "unrecorded" /\ pc' \in Places
    BY <1>5 DEF Goto, Places
  <2>2. PassOk'
    BY <2>1 DEF PassOk, Synced, Waiting, Holding
  <2> QED BY <1>1, <1>2, <2>1, <2>2, SameFiles DEF HInv
<1> QED BY <1>3, <1>4, <1>5 DEF PublishSample

(* What an attempt says of an index stays true of the next one.                *)
LEMMA ToldStill ==
  ASSUME NEW a, NEW old, NEW new, NEW s, a.at \in Nat, s.id \in Nat, Told(a, old),
         \A e \in Listed(old) : e.id \in Nat /\ e.id < s.id,
         Listed(new) \subseteq Listed(old) \cup {s}, s \in Listed(new),
         \A e \in Listed(old), f \in Listed(new) : e \in Listed(new) \/ e.id < f.id
  PROVE  Told(a, new)
<1>1. Listed(new) # {}
  OBVIOUS
<1>2. CASE \E e \in Listed(old) : e.id = a.at
  <2>1. PICK e \in Listed(old) : e.id = a.at
    BY <1>2
  <2>2. CASE e \in Listed(new)
    BY <1>1, <2>1, <2>2 DEF Told
  <2>3. CASE e \notin Listed(new)
    <3>1. \A f \in Listed(new) : f.id \in Nat /\ e.id < f.id
      BY <2>3
    <3>2. \A f \in Listed(new) : f.id > a.at
      BY <2>1, <3>1
    <3> QED BY <1>1, <3>2 DEF Told
  <2> QED BY <2>2, <2>3
<1>3. CASE Listed(old) # {} /\ \A e \in Listed(old) : e.id > a.at
  <2>1. s.id > a.at
    BY <1>3
  <2>2. \A f \in Listed(new) : f.id > a.at
    BY <1>3, <2>1
  <2> QED BY <1>1, <2>2 DEF Told
<1> QED BY <1>2, <1>3 DEF Told

LEMMA CommitKeeps == HInv /\ CommitIndex => HInv'
<1> SUFFICES ASSUME HInv, CommitIndex PROVE HInv'
  OBVIOUS
<1>1. pc = "commit" /\ UNCHANGED <<durable, spare, sample>>
  BY DEF CommitIndex
<1>2. /\ dir.index = durable.index /\ dir.index # Absent /\ sample \in Sample
      /\ \A e \in Listed(dir.index) : e.id < sample.id
      /\ spare = {} /\ sample \in dir.samples /\ sample \in durable.samples
      /\ dir \in Directory
  BY <1>1, Types DEF HInv, StoreSurvives, PassOk, Synced, Waiting
<1>3. CASE SetIndex(Retained) /\ Goto("committed")
  <2> DEFINE log == dir.index
  <2>1. log \in Seq(Sample) /\ Entries(dir.index) = log /\ Listed(dir.index) = Members(log)
    BY <1>2, EntriesSeq DEF Directory, Index
  <2>2. Ordered(log) /\ Len(log) <= MaxSamples
    BY <2>1 DEF HInv, IndexOk
  <2>3. /\ Retained \in Seq(Sample) /\ Ordered(Retained) /\ Len(Retained) <= MaxSamples
        /\ Grows(log, Retained)
        /\ Members(Retained) \subseteq Members(log) \cup {sample} /\ sample \in Members(Retained)
        /\ \A e \in Members(log), f \in Members(Retained) : e \in Members(Retained) \/ e.id < f.id
    BY <1>2, <2>1, <2>2, RetainedGrows
  <2>4. Entries(Retained) = Retained /\ Listed(Retained) = Members(Retained) /\ Retained # Absent
    BY <2>3, EntriesSeq
  <2>5. /\ dir' \in Directory /\ dir'.index = Retained /\ dir'.attempts = dir.attempts
        /\ dir'.samples = dir.samples /\ pc' = "committed" /\ pc' \in Places
    <3> HIDE DEF Retained
    <3> QED BY <1>2, <1>3, <2>3 DEF SetIndex, Directory, Index, Goto, Places
  <2>6. StoreSurvives'
    <3>1. TypeOK'
      BY <1>1, <1>2, <2>5, Types DEF HInv, StoreSurvives, TypeOK, Places, AfterSync
    <3> QED BY <1>1, <1>2, <2>1, <2>3, <2>4, <2>5, <3>1 DEF HInv, StoreSurvives
  <2>7. IndexOk'
    BY <1>1, <1>2, <2>1, <2>2, <2>3, <2>4, <2>5 DEF IndexOk
  <2>8. AttemptsOk'
    <3> SUFFICES ASSUME NEW a \in Members(dir.attempts) \cup Members(durable.attempts), a.recorded
                 PROVE  Told(a, Retained) /\ Told(a, durable.index)
      BY <1>1, <2>5 DEF AttemptsOk
    <3>1. Told(a, dir.index) /\ Told(a, durable.index)
      BY DEF HInv, AttemptsOk
    <3>2. a \in Attempt
      BY <1>2, Types, LenProperties DEF HInv, StoreSurvives, Directory, Members
    <3>3. a.at \in Nat /\ sample.id \in Nat /\ \A e \in Listed(dir.index) : e.id \in Nat
      BY <1>2, <2>1, <3>2, EntriesSeq, Bounds DEF Attempt, Sample, Directory
    <3>4. Told(a, Retained)
      BY <1>2, <2>1, <2>3, <2>4, <3>1, <3>3, ToldStill
    <3> QED BY <3>1, <3>4
  <2>9. BudgetOk'
    BY <1>1, <2>5 DEF HInv, BudgetOk
  <2>10. PassOk'
    BY <1>1, <2>3, <2>4, <2>5 DEF PassOk, Synced, Waiting, Holding
  <2> QED BY <2>6, <2>7, <2>8, <2>9, <2>10 DEF HInv
<1>4. CASE Goto("unrecorded") /\ UNCHANGED dir
  <2>1. dir' = dir /\ pc' = "unrecorded" /\ pc' \in Places
    BY <1>4 DEF Goto, Places
  <2>2. PassOk'
    BY <2>1 DEF PassOk, Synced, Waiting, Holding
  <2> QED BY <1>1, <1>2, <2>1, <2>2, SameFiles DEF HInv
<1> QED BY <1>3, <1>4 DEF CommitIndex

LEMMA RecordKeeps == HInv /\ RecordAttempt => HInv'
<1> SUFFICES ASSUME HInv, RecordAttempt PROVE HInv'
  OBVIOUS
<1> DEFINE attempt == [at |-> sample.id, recorded |-> pc = "audit"]
           all == <<attempt>> \o dir.attempts
           kept == SubSeq(all, 1, IF Len(all) < MaxAttempts THEN Len(all) ELSE MaxAttempts)
<1>1. /\ UNCHANGED <<durable, sample>> /\ spare' = {} /\ pc' = "audited" /\ pc' \in Places
      /\ dir' = [dir EXCEPT !.attempts = kept]
  BY DEF RecordAttempt, Goto, Places
<1>2. dir \in Directory /\ durable \in Directory /\ sample \in Sample /\ dir.attempts \in Seq(Attempt)
  BY Types DEF HInv, StoreSurvives, Directory
<1>3. attempt \in Attempt /\ (attempt.recorded => pc = "audit") /\ attempt.at = sample.id
  <2>1. sample.id \in Stamp
    BY <1>2 DEF Sample
  <2>2. (pc = "audit") \in BOOLEAN
    OBVIOUS
  <2> HIDE DEF HInv
  <2> QED BY <2>1, <2>2, Zenon DEF Attempt
<1> HIDE DEF attempt
<1>4. /\ all \in Seq(Attempt) /\ Len(all) = 1 + Len(dir.attempts)
      /\ \A i \in 1..Len(all) : all[i] = attempt \/ all[i] \in Members(dir.attempts)
  <2>1. /\ <<attempt>> \in Seq(Attempt) /\ Len(<<attempt>>) = 1 /\ <<attempt>>[1] = attempt
        /\ Len(dir.attempts) \in Nat /\ DOMAIN dir.attempts = 1..Len(dir.attempts)
    BY <1>2, <1>3, LenProperties
  <2>2. /\ all \in Seq(Attempt) /\ Len(all) = Len(<<attempt>>) + Len(dir.attempts)
        /\ \A i \in 1..Len(<<attempt>>) + Len(dir.attempts) :
              all[i] = IF i <= Len(<<attempt>>) THEN <<attempt>>[i] ELSE dir.attempts[i - Len(<<attempt>>)]
    BY <1>2, <2>1, ConcatProperties
  <2> HIDE DEF all
  <2>3. ASSUME NEW i \in 1..Len(all) PROVE all[i] = attempt \/ all[i] \in Members(dir.attempts)
    <3>1. CASE i = 1
      BY <2>1, <2>2, <3>1
    <3>2. CASE i # 1
      <4>1. i - 1 \in 1..Len(dir.attempts) /\ all[i] = dir.attempts[i - 1]
        BY <2>1, <2>2, <3>2
      <4> QED BY <2>1, <4>1 DEF Members
    <3> QED BY <3>1, <3>2
  <2> QED BY <2>1, <2>2, <2>3
<1> HIDE DEF all
<1>5. kept \in Seq(Attempt) /\ Members(kept) \subseteq {attempt} \cup Members(dir.attempts)
  <2> DEFINE m == IF Len(all) < MaxAttempts THEN Len(all) ELSE MaxAttempts
  <2>1. m \in Nat /\ m <= Len(all) /\ Len(all) \in Nat
    BY <1>4, LenProperties, Bounds
  <2>2. \A i \in 1..m : all[i] \in Attempt
    BY <1>4, <2>1, LenProperties
  <2> HIDE DEF m
  <2>3. /\ kept \in Seq(Attempt) /\ Len(kept) = m
        /\ \A i \in 1..m : kept[i] = all[i]
    <3>1. kept = SubSeq(all, 1, m)
      BY DEF m
    <3>2. /\ SubSeq(all, 1, m) \in Seq(Attempt)
          /\ Len(SubSeq(all, 1, m)) = IF 1 <= m THEN m - 1 + 1 ELSE 0
          /\ \A i \in 1..m - 1 + 1 : SubSeq(all, 1, m)[i] = all[1 + i - 1]
      <4> HIDE DEF kept
      <4> QED BY <2>1, <2>2, SubSeqProperties
    <3> HIDE DEF kept
    <3> QED BY <2>1, <3>1, <3>2
  <2> HIDE DEF kept
  <2>4. DOMAIN kept = 1..m
    BY <2>3, LenProperties
  <2> QED BY <1>4, <2>1, <2>3, <2>4 DEF Members
<1> HIDE DEF kept
<1>6. /\ dir' \in Directory /\ dir'.index = dir.index /\ dir'.attempts = kept /\ dir'.samples = dir.samples
  BY <1>1, <1>2, <1>5 DEF Directory
<1>7. StoreSurvives'
  BY <1>1, <1>2, <1>6, Types DEF HInv, StoreSurvives, TypeOK, Places, AfterSync
<1>8. IndexOk' /\ BudgetOk'
  BY <1>1, <1>6 DEF HInv, IndexOk, BudgetOk
<1>9. AttemptsOk'
  <2> SUFFICES ASSUME NEW a \in {attempt} \cup Members(dir.attempts) \cup Members(durable.attempts),
                      NEW index \in {dir.index, durable.index}, a.recorded
               PROVE  Told(a, index)
    BY <1>1, <1>5, <1>6 DEF AttemptsOk
  <2>1. CASE a = attempt
    <3>1. pc = "audit" /\ a.at = sample.id
      BY <1>3, <2>1
    <3>2. sample \in Listed(dir.index) /\ dir.index = durable.index
      BY <3>1 DEF HInv, PassOk, Holding, Synced
    <3> QED BY <3>1, <3>2 DEF Told
  <2>2. CASE a # attempt
    BY <2>2 DEF HInv, AttemptsOk
  <2> QED BY <2>1, <2>2
<1>10. PassOk'
  BY <1>1 DEF PassOk, Synced, Waiting, Holding
<1> QED BY <1>7, <1>8, <1>9, <1>10 DEF HInv

LEMMA PowerLossKeeps == HInv /\ PowerLoss => HInv'
<1> SUFFICES ASSUME HInv, PowerLoss PROVE HInv'
  OBVIOUS
<1>1. PICK index \in {dir.index, durable.index}, attempts \in {dir.attempts, durable.attempts},
           changed \in SUBSET ((dir.samples \ durable.samples) \cup (durable.samples \ dir.samples)) :
        /\ dir' = [index |-> index, attempts |-> attempts,
                   samples |-> (durable.samples \ changed) \cup (changed \ durable.samples)]
        /\ durable' = dir'
        /\ spare' \subseteq spare
  BY DEF PowerLoss
<1>2. pc' = "idle" /\ sample' = sample
  BY DEF PowerLoss, Goto
<1>3. dir \in Directory /\ durable \in Directory /\ spare \subseteq Stamp /\ sample \in Sample
  BY Types DEF HInv, StoreSurvives
<1>4. /\ dir'.index = index /\ dir'.attempts = attempts /\ durable' = dir'
      /\ dir'.samples \subseteq dir.samples \cup durable.samples
      /\ dir.samples \cap durable.samples \subseteq dir'.samples
  BY <1>1
<1>5. dir' \in Directory
  <2>1. index \in Index /\ attempts \in Seq(Attempt) /\ dir.samples \subseteq Sample /\ durable.samples \subseteq Sample
    BY <1>3 DEF Directory
  <2> QED BY <1>1, <2>1 DEF Directory
<1>6. StoreSurvives'
  <2>1. TypeOK'
    BY <1>1, <1>2, <1>3, <1>4, <1>5, Types DEF TypeOK, Places, AfterSync
  <2> QED BY <1>1, <1>4, <2>1 DEF HInv, StoreSurvives
<1>7. IndexOk'
  BY <1>4 DEF HInv, IndexOk
<1>8. AttemptsOk'
  BY <1>4 DEF HInv, AttemptsOk
<1>9. BudgetOk'
  <2> DEFINE before == dir.samples \cup durable.samples
  <2>1. dir'.samples \cup durable'.samples \in SUBSET before
    BY <1>4
  <2>2. IsFiniteSet(before) /\ Cardinality(before) <= MaxSamples + 1
    BY DEF HInv, BudgetOk
  <2>3. IsFiniteSet(dir'.samples \cup durable'.samples) /\ Cardinality(dir'.samples \cup durable'.samples) <= MaxSamples + 1
    <3> DEFINE after == dir'.samples \cup durable'.samples
    <3>1. after \in SUBSET before
      BY <2>1
    <3> HIDE DEF before, after
    <3>2. IsFiniteSet(after) /\ Cardinality(after) <= MaxSamples + 1
      BY <2>2, <3>1, FS_Subset, FS_CardinalityType, Bounds
    <3> QED BY <3>2 DEF after
  <2> QED BY <2>1, <2>3 DEF HInv, BudgetOk
<1>10. PassOk'
  BY <1>2 DEF PassOk, Synced, Waiting, Holding
<1> QED BY <1>6, <1>7, <1>8, <1>9, <1>10 DEF HInv

LEMMA OthersKeep ==
  ASSUME HInv, BeginPass \/ UnlinkTemporary \/ DiskError \/ Kill \/ Request \/ UNCHANGED vars
  PROVE  HInv'
<1>0. pc \in Places /\ sample \in Sample
  BY Types DEF HInv, StoreSurvives
<1>1. CASE BeginPass
  <2>1. UNCHANGED <<dir, durable>> /\ spare' = spare /\ sample' \in Sample /\ pc' \in {"open", "unrecorded"}
    BY <1>1 DEF BeginPass, Goto
  <2>2. PassOk' /\ pc' \in Places
    BY <2>1 DEF PassOk, Synced, Waiting, Holding, Places
  <2> QED BY <2>1, <2>2, SameFiles DEF HInv
<1>2. CASE UnlinkTemporary
  <2>1. UNCHANGED <<dir, durable, sample>> /\ spare' = {} /\ pc = "linked" /\ pc' = "published"
    BY <1>2 DEF UnlinkTemporary, Goto
  <2>2. PassOk' /\ pc' \in Places
    BY <2>1 DEF HInv, PassOk, Synced, Waiting, Holding, Places
  <2> QED BY <1>0, <2>1, <2>2, SameFiles DEF HInv
<1>3. CASE DiskError
  <2>1. UNCHANGED <<dir, durable, sample>> /\ spare' \subseteq spare /\ pc' \in {"idle", "unrecorded"}
    BY <1>3 DEF DiskError, Goto
  <2>2. PassOk' /\ pc' \in Places
    BY <2>1 DEF PassOk, Synced, Waiting, Holding, Places
  <2> QED BY <1>0, <2>1, <2>2, SameFiles DEF HInv
<1>4. CASE Kill
  <2>1. UNCHANGED <<dir, durable, sample>> /\ spare' = spare /\ pc' = "idle"
    BY <1>4 DEF Kill, Goto
  <2>2. PassOk' /\ pc' \in Places
    BY <2>1 DEF PassOk, Synced, Waiting, Holding, Places
  <2> QED BY <1>0, <2>1, <2>2, SameFiles DEF HInv
<1>5. CASE Request \/ UNCHANGED vars
  <2>1. UNCHANGED <<dir, durable, spare, pc, sample>>
    BY <1>5 DEF Request, ReadIndex, CheckMissing, CheckName, ChoosePair, ReadSample, CollectorRests, vars
  <2>2. PassOk'
    BY <2>1 DEF HInv, PassOk
  <2> QED BY <1>0, <2>1, <2>2, SameFiles DEF HInv
<1> QED BY <1>1, <1>2, <1>3, <1>4, <1>5

LEMMA NextKeeps == HInv /\ [Next]_vars => HInv'
<1> SUFFICES ASSUME HInv, [Next]_vars PROVE HInv'
  OBVIOUS
<1>1. CASE Collector
  BY <1>1, OthersKeep, OpenKeeps, CreateIndexKeeps, ClearOrphansKeeps, PublishKeeps, CommitKeeps, PruneKeeps,
     RecordKeeps, SyncKeeps DEF Collector
<1>2. CASE Fault
  BY <1>2, OthersKeep, PowerLossKeeps DEF Fault
<1>3. CASE Request \/ UNCHANGED vars
  BY <1>3, OthersKeep
<1> QED BY <1>1, <1>2, <1>3 DEF Next

(* A request remembers the index it read, and reads only what that lists.      *)
LEMMA ReaderKeeps == HInv /\ ReaderOk /\ [Next]_vars => ReaderOk'
<1> SUFFICES ASSUME HInv, ReaderOk, [Next]_vars PROVE ReaderOk'
  OBVIOUS
<1> DEFINE Readers == [pc : {"idle", "missing", "checking", "reading", "failed"}, index : Index,
                       next : Nat, pair : Seq(Sample)]
<1>0. /\ reader \in Readers /\ NoReader \in Readers /\ NoReader.pc = "idle"
      /\ dir.index \in Index
  BY Types, EmptyLog DEF ReaderOk, NoReader, Index, HInv, StoreSurvives, Directory
<1>1. CASE UNCHANGED reader
  BY <1>1 DEF ReaderOk
<1>2. CASE \E how \in {"idle", "failed"} : Finish(how)
  <2>1. reader' \in Readers /\ reader'.pc \in {"idle", "failed"}
    BY <1>0, <1>2 DEF Finish, NoReader
  <2> QED BY <2>1 DEF ReaderOk
<1>3. CASE ReadIndex
  <2>1. /\ reader' \in Readers /\ reader'.index = dir.index
        /\ reader'.pc = (IF dir.index = Absent THEN "missing" ELSE "checking")
    BY <1>0, <1>3, EmptyLog DEF ReadIndex, NoReader
  <2> QED BY <1>0, <2>1 DEF ReaderOk, Index
<1>4. CASE CheckName
  <2>1. CASE reader' = [reader EXCEPT !.next = reader.next + 1] /\ reader.pc = "checking"
    <3>1. reader' \in Readers /\ reader'.pc = "checking" /\ reader'.index = reader.index
      BY <1>0, <2>1
    <3> QED BY <2>1, <3>1 DEF ReaderOk
  <2> QED BY <1>2, <1>4, <2>1 DEF CheckName, Reading
<1>5. CASE ChoosePair
  <2>1. ASSUME NEW i \in 2..Len(reader.index), reader.pc = "checking",
               reader' = [reader EXCEPT !.pc = "reading", !.pair = <<reader.index[i - 1], reader.index[i]>>]
        PROVE  ReaderOk'
    <3> DEFINE log == reader.index
               pair == <<log[i - 1], log[i]>>
    <3>1. log \in Seq(Sample) /\ Listed(log) = Members(log)
      BY <2>1, EntriesSeq DEF ReaderOk
    <3>2. Len(log) \in Nat /\ DOMAIN log = 1..Len(log) /\ \A j \in 1..Len(log) : log[j] \in Sample
      BY <3>1, LenProperties
    <3>3. i - 1 \in DOMAIN log /\ i \in DOMAIN log
      BY <3>2
    <3>4. log[i - 1] \in Sample \cap Members(log) /\ log[i] \in Sample \cap Members(log)
      BY <3>2, <3>3 DEF Members
    <3> DEFINE a == log[i - 1]
               b == log[i]
    <3>5. pair = <<a, b>> /\ a \in Sample \cap Members(log) /\ b \in Sample \cap Members(log)
      BY <3>4
    <3> HIDE DEF a, b, pair
    <3>6. pair \in Seq(Sample) /\ Members(pair) \subseteq Members(log) /\ Len(pair) > 0
      <4>1. pair \in Seq(Sample) /\ Len(pair) = 2 /\ pair[1] = a /\ pair[2] = b
        BY <3>5
      <4>2. DOMAIN pair = {1, 2}
        BY <4>1, LenProperties
      <4> QED BY <3>5, <4>1, <4>2 DEF Members
    <3>7. reader' \in Readers /\ reader'.pc = "reading" /\ reader'.index = log /\ reader'.pair = pair
      <4>1. reader' = [reader EXCEPT !.pc = "reading", !.pair = pair]
        BY <2>1 DEF pair
      <4> QED BY <1>0, <3>6, <4>1
    <3> QED BY <3>1, <3>6, <3>7 DEF ReaderOk
  <2>2. \/ Finish("idle")
        \/ \E i \in 2..Len(reader.index) :
              reader.pc = "checking"
              /\ reader' = [reader EXCEPT !.pc = "reading", !.pair = <<reader.index[i - 1], reader.index[i]>>]
    BY <1>5 DEF ChoosePair, Reading
  <2> QED BY <1>2, <2>1, <2>2
<1>6. CASE ReadSample
  <2>1. ASSUME reader.pc = "reading", Len(reader.pair) # 1, Head(reader.pair) \in dir.samples,
               reader' = [reader EXCEPT !.pair = Tail(reader.pair)]
        PROVE  ReaderOk'
    <3>1. /\ reader.pair \in Seq(Sample) /\ Members(reader.pair) \subseteq Listed(reader.index)
          /\ Len(reader.pair) > 0
      BY <1>0, <2>1 DEF ReaderOk
    <3>2. /\ Tail(reader.pair) \in Seq(Sample) /\ Len(Tail(reader.pair)) > 0
          /\ Members(Tail(reader.pair)) \subseteq Members(reader.pair)
      <4> DEFINE pair == reader.pair
      <4>1. pair # << >>
        BY <3>1, EmptyLog
      <4>2. Len(pair) # 1
        BY <2>1
      <4>3. /\ Tail(pair) \in Seq(Sample) /\ Len(Tail(pair)) = Len(pair) - 1 /\ Len(pair) \in Nat
            /\ \A i \in 1..Len(Tail(pair)) : Tail(pair)[i] = pair[i + 1]
        BY <3>1, <4>1, HeadTailProperties, LenProperties
      <4>4. DOMAIN Tail(pair) = 1..Len(Tail(pair)) /\ DOMAIN pair = 1..Len(pair)
        BY <3>1, <4>3, LenProperties
      <4>5. ASSUME NEW i \in DOMAIN Tail(pair) PROVE Tail(pair)[i] \in Members(pair)
        <5>1. i + 1 \in DOMAIN pair /\ Tail(pair)[i] = pair[i + 1]
          BY <4>3, <4>4
        <5> QED BY <5>1 DEF Members
      <4>6. Len(Tail(pair)) > 0
        <5> DEFINE l == Len(pair)
                   t == Len(Tail(pair))
        <5>1. l \in Nat /\ l > 0 /\ l # 1 /\ t = l - 1
          BY <3>1, <4>2, <4>3
        <5> HIDE DEF l, t
        <5>2. t > 0
          BY <5>1
        <5> QED BY <5>2 DEF t
      <4> QED BY <4>3, <4>5, <4>6 DEF Members
    <3>3. reader' \in Readers /\ reader'.pc = "reading" /\ reader'.index = reader.index
          /\ reader'.pair = Tail(reader.pair)
      BY <1>0, <2>1, <3>2
    <3> QED BY <2>1, <3>1, <3>2, <3>3 DEF ReaderOk
  <2> QED BY <1>2, <1>6, <2>1 DEF ReadSample, Reading
<1>7. CASE CheckMissing
  BY <1>2, <1>7 DEF CheckMissing
<1>8. CASE PowerLoss
  <2>1. reader' = NoReader
    BY <1>8 DEF PowerLoss
  <2> QED BY <1>0, <2>1 DEF ReaderOk
<1>9. CASE Collector \/ DiskError \/ Kill \/ UNCHANGED vars
  <2>1. UNCHANGED reader
    BY <1>9 DEF Collector, BeginPass, Open, CreateIndex, ClearOrphans, Prune, RemoveOrphan, PublishSample,
       UnlinkTemporary, CommitIndex, RecordAttempt, SyncDirectory, DiskError, Kill, vars
  <2> QED BY <1>1, <2>1
<1> QED
  BY <1>3, <1>4, <1>5, <1>6, <1>7, <1>8, <1>9 DEF Next, Fault, Request

(* The strengthened invariant: what the place of the pass says of the index    *)
(* and the samples (history.py, record_success and record_attempt), and what a *)
(* request remembers (read_changes).                                           *)
THEOREM HistoryInductive == Spec => [](HInv /\ ReaderOk)
<1>1. HInv /\ ReaderOk /\ [Next]_vars => (HInv /\ ReaderOk)'
  BY NextKeeps, ReaderKeeps
<1> QED BY InitHolds, <1>1, PTL DEF Spec

(* Whatever fails and whenever, the index on the disk lists only samples that  *)
(* are there, and a store with samples has an index (_manifest).               *)
THEOREM StoreSurvivesHolds == Spec => []StoreSurvives
<1>1. HInv /\ ReaderOk => StoreSurvives
  BY DEF HInv
<1> QED BY HistoryInductive, <1>1, PTL

(* An attempt that says its sample was recorded is right (anomaly_collect.py). *)
THEOREM AttemptsAreTrueHolds == Spec => []AttemptsAreTrue
<1>1. HInv /\ ReaderOk => AttemptsAreTrue
  BY DEF HInv, AttemptsOk, AttemptsAreTrue, Told
<1> QED BY HistoryInductive, <1>1, PTL

LEMMA AtMostLen ==
  ASSUME NEW log \in Seq(Sample)
  PROVE  IsFiniteSet(Members(log)) /\ Cardinality(Members(log)) <= Len(log)
<1> DEFINE f == [i \in 1..Len(log) |-> log[i]]
<1>1. Len(log) \in Nat /\ DOMAIN log = 1..Len(log)
  BY LenProperties
<1>2. f \in Surjection(1..Len(log), Members(log))
  BY <1>1 DEF Surjection, Members
<1>3. IsFiniteSet(1..Len(log)) /\ Cardinality(1..Len(log)) = Len(log)
  BY <1>1, FS_Interval
<1> HIDE DEF f
<1> QED
  BY <1>2, <1>3, FS_Surjection

(* The budget of physical files never refuses a pass (_physical_budget).       *)
THEOREM BudgetNeverRefusesHolds == Spec => []BudgetNeverRefuses
<1>1. HInv => BudgetNeverRefuses
  <2> SUFFICES ASSUME HInv PROVE BudgetNeverRefuses
    OBVIOUS
  <2>1. ASSUME pc = "publish", Published = {} PROVE WithinBudget(1)
    <3>1. dir \in Directory /\ dir.index # Absent
      BY <2>1, Types DEF HInv, StoreSurvives, PassOk, Synced, Waiting
    <3>2. /\ dir.index \in Seq(Sample) /\ Listed(dir.index) = Members(dir.index)
          /\ Entries(dir.index) = dir.index
      BY <3>1, EntriesSeq DEF Directory, Index
    <3>3. dir.samples \in SUBSET Members(dir.index)
      BY <2>1, <3>2 DEF HInv, PassOk, Published
    <3>4. Len(dir.index) <= MaxSamples /\ Len(dir.index) \in Nat
      BY <3>2, LenProperties DEF HInv, IndexOk
    <3>5. IsFiniteSet(Members(dir.index)) /\ Cardinality(Members(dir.index)) <= Len(dir.index)
      BY <3>2, AtMostLen
    <3> DEFINE all == Members(dir.index)
               files == dir.samples
    <3>6. IsFiniteSet(all) /\ files \in SUBSET all /\ Cardinality(all) <= MaxSamples
      <4> HIDE DEF HInv
      <4>1. Cardinality(Members(dir.index)) \in Nat
        BY <3>5, FS_CardinalityType
      <4> QED BY <3>3, <3>4, <3>5, <4>1, Bounds
    <3> HIDE DEF all, files
    <3>7. Cardinality(files) + 1 <= MaxSamples + 1
      BY <3>6, FS_Subset, FS_CardinalityType, Bounds
    <3> QED BY <3>7 DEF files, WithinBudget
  <2> QED BY <2>1 DEF BudgetNeverRefuses, HInv, BudgetOk
<1> QED BY HistoryInductive, <1>1, PTL

(* A request fails only while a pass replaces what it reads (read_changes      *)
(* against _remove_orphans).                                                   *)
THEOREM OnlyOverlapFailsHolds == Spec => OnlyOverlapFails
<1>1. HInv /\ ReaderOk /\ [Next]_vars => [reader.pc # "failed" /\ reader'.pc = "failed" => dir.index # reader.index]_vars
  <2> SUFFICES ASSUME HInv, ReaderOk, [Next]_vars, reader.pc # "failed", reader'.pc = "failed", dir.index = reader.index
               PROVE  FALSE
    OBVIOUS
  <2>0. reader' # reader /\ reader.pc # "failed" /\ NoReader.pc # "failed"
    BY DEF NoReader
  <2>1. \A s \in Listed(dir.index) : s \in dir.samples /\ s.id \notin spare /\ Intact(s)
    BY DEF HInv, StoreSurvives, Intact
  <2>2. CASE CheckMissing
    <3>1. dir.index = Absent
      BY <2>2 DEF CheckMissing, Reading, ReaderOk
    <3>2. dir.samples = {}
      BY <3>1 DEF HInv, StoreSurvives
    <3> QED BY <2>2, <3>2 DEF CheckMissing, Finish, NoReader
  <2>3. CASE CheckName
    <3>1. reader.index \in Seq(Sample) /\ reader.next \in DOMAIN reader.index
      BY <2>3 DEF CheckName, Reading, ReaderOk
    <3>2. reader.index[reader.next] \in Listed(dir.index)
      BY <3>1, EntriesSeq DEF Members
    <3>3. Intact(reader.index[reader.next])
      BY <2>1, <3>2
    <3>4. reader' = [reader EXCEPT !.next = reader.next + 1]
      BY <2>3, <3>3 DEF CheckName
    <3>5. reader'.pc = reader.pc
      BY <3>4 DEF ReaderOk
    <3> QED BY <3>5
  <2>4. CASE ReadSample
    <3>1. /\ reader.pc = "reading" /\ reader.pair \in Seq(Sample) /\ Len(reader.pair) > 0
          /\ Members(reader.pair) \subseteq Listed(dir.index)
      BY <2>4 DEF ReadSample, Reading, ReaderOk
    <3>2. ~(Head(reader.pair) \in dir.samples /\ Intact(Head(reader.pair)))
      BY <2>4 DEF ReadSample, Finish, NoReader, ReaderOk
    <3>3. reader.pair # << >>
      BY <3>1, EmptyLog
    <3>4. Head(reader.pair) \in Members(reader.pair)
      <4>1. Head(reader.pair) = reader.pair[1] /\ 1 \in DOMAIN reader.pair
        BY <3>1, <3>3, HeadTailProperties, LenProperties
      <4> QED BY <4>1 DEF Members
    <3> QED BY <2>1, <3>1, <3>2, <3>4
  <2>5. CASE ReadIndex \/ ChoosePair
    BY <2>0, <2>5 DEF ReadIndex, ChoosePair, Finish, NoReader, ReaderOk
  <2>6. CASE PowerLoss
    BY <2>0, <2>6 DEF PowerLoss
  <2>7. CASE Collector \/ DiskError \/ Kill \/ UNCHANGED vars
    BY <2>0, <2>7 DEF Collector, BeginPass, Open, CreateIndex, ClearOrphans, Prune, RemoveOrphan, PublishSample,
       UnlinkTemporary, CommitIndex, RecordAttempt, SyncDirectory, DiskError, Kill, vars
  <2> QED BY <2>2, <2>3, <2>4, <2>5, <2>6, <2>7 DEF Next, Fault, Request
<1> QED BY HistoryInductive, <1>1, PTL DEF Spec, OnlyOverlapFails

-----------------------------------------------------------------------------
(* The refinement: nothing is certain but what an fsync or a power loss makes  *)
(* so, and that is one step of the abstract log or none.                       *)
LEMMA DurableIndex ==
  ASSUME [Next]_vars
  PROVE  durable'.index \in {dir.index, durable.index}
<1>1. CASE SyncDirectory \/ Open
  BY <1>1 DEF SyncDirectory, Open
<1>2. CASE PowerLoss
  BY <1>2 DEF PowerLoss
<1>3. CASE \/ BeginPass \/ CreateIndex \/ ClearOrphans \/ PublishSample \/ UnlinkTemporary \/ CommitIndex
           \/ Prune \/ RecordAttempt \/ DiskError \/ Kill \/ Request \/ UNCHANGED vars
  <2>1. durable' = durable
    BY <1>3 DEF BeginPass, CreateIndex, ClearOrphans, Prune, RemoveOrphan, PublishSample, UnlinkTemporary,
       CommitIndex, RecordAttempt, DiskError, Kill, Request, ReadIndex, CheckMissing, CheckName, ChoosePair,
       ReadSample, CollectorRests, vars
  <2> QED BY <2>1
<1> QED BY <1>1, <1>2, <1>3 DEF Next, Collector, Fault

LEMMA StepRefines == HInv /\ [Next]_vars => [Store!Next]_(Entries(durable.index))
<1> SUFFICES ASSUME HInv, [Next]_vars, Entries(durable.index)' # Entries(durable.index) PROVE Store!Next
  OBVIOUS
<1> DEFINE log == Entries(durable.index)
           new == Entries(durable.index)'
<1>1. Grows(log, new)
  <2>1. durable'.index \in {dir.index, durable.index}
    BY DurableIndex
  <2>2. new \in {Entries(dir.index), log}
    BY <2>1 DEF Entries
  <2> QED BY <2>2 DEF HInv, IndexOk
<1>2. PICK s \in Sample :
        /\ \A i \in 1..Len(log) : log[i].id < s.id
        /\ \E n \in 0..Len(log) :
              /\ \A i \in 1..n : log[i].id + Retention < s.id \/ Len(log) - i + 2 > MaxSamples
              /\ new = Append(SubSeq(log, n + 1, Len(log)), s)
              /\ Len(new) <= MaxSamples
  BY <1>1 DEF Grows
<1>3. Store!Append1(s)
  <2> HIDE DEF log, new
  <2> QED BY <1>2 DEF Store!Append1, Store!MayDrop, log, new
<1> QED BY <1>2, <1>3 DEF Store!Next, Store!Sample, Sample

(* What is certain to survive is the log the history promises: a sample, once  *)
(* in it, is only ever dropped from its old end, when it is too old or there   *)
(* is no room (the docstring of history.py).                                   *)
THEOREM KeepsItsPromiseHolds == Spec => KeepsItsPromise
<1>1. Init => Store!Init
  BY EntriesSeq DEF Init, Store!Init
<1>2. HInv /\ [Next]_vars => [Store!Next]_(Entries(durable.index))
  BY StepRefines
<1>3. Spec => [](HInv /\ ReaderOk)
  BY HistoryInductive
<1> QED BY <1>1, <1>2, <1>3, PTL DEF Spec, KeepsItsPromise, Store!Spec
=============================================================================
