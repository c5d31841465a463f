-------------------------- MODULE MCReleaseTransaction ------------------------
(* ReleaseTransaction on a small instance for TLC.                             *)
EXTENDS ReleaseTransaction, Naturals

(* 1 is the baseline; 2 brings the collectors; 3 goes back to the tree of the *)
(* first front end, which is now built to other bytes, and changes the tests   *)
(* of the back end.                                                            *)
Releases == 1..3
Pair(f, b) == [frontend |-> f, backend |-> b]
Sources == <<Pair(1, 1), Pair(2, 2), Pair(1, 3)>>
Contents == <<Pair(1, 1), Pair(2, 2), Pair(3, 2)>>
WithCollector == [k \in Collector |-> IF k = "market" THEN {2, 3} ELSE Releases]

(* What a collector loaded does not matter once it is idle, nor before the one *)
(* of the killboard has loaded it under the lock.                              *)
Reading(k) == IF k = "market" THEN col[k] # "idle" ELSE col[k] = "working"
View == <<files, running, delta, pub, held, col,
          [k \in Collector |-> IF Reading(k) THEN loaded[k] ELSE None]>>
=============================================================================
