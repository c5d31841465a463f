----------------------------- MODULE HotspotStore -----------------------------
(* What the anomaly history promises the operator (the docstrings of           *)
(* AnomalyHotspots/history.py): a log of samples in the order of their time    *)
(* stamps, from which only the oldest are ever dropped, and only because they  *)
(* are past the retention or there is no room.  A sample, once in the log,     *)
(* never changes; the log survives every crash.                                *)
EXTENDS Naturals, Sequences

CONSTANTS Stamp, Rows,
    Retention,      \* RETENTION_MS
    MaxSamples      \* MAX_SAMPLES

VARIABLE log

Sample == [id : Stamp, rows : Rows]

Init == log = << >>

(* The n oldest samples of the log may make way for a sample taken at t.       *)
MayDrop(n, t) ==
    \A i \in 1..n : log[i].id + Retention < t \/ Len(log) - i + 2 > MaxSamples

Append1(s) ==
    /\ \A i \in 1..Len(log) : log[i].id < s.id
    /\ \E n \in 0..Len(log) :
          /\ MayDrop(n, s.id)
          /\ log' = Append(SubSeq(log, n + 1, Len(log)), s)
          /\ Len(log') <= MaxSamples

Next == \E s \in Sample : Append1(s)

Spec == Init /\ [][Next]_log
=============================================================================
