--------------------------- MODULE ReleaseHistory ---------------------------
(***************************************************************************)
(* What scripts/deploy/release.py promises its operator: a history of      *)
(* publications, each entire or not at all, with the state before the last *)
(* one at hand.  A full package replaces the components whose git tree is  *)
(* not the active one; a delta those whose files are not, or are unknown;  *)
(* rolling back exchanges the current and the previous state.              *)
(***************************************************************************)
CONSTANTS Release, Source, Content, Legacy, None

VARIABLES current, previous

Component == {"frontend", "backend"}

Init ==
  /\ \E r \in Release : current = [c \in Component |-> r]
  /\ previous \in {None, current}

Renewed(from, r) == {c \in Component : Source[from[c]][c] # Source[r][c]}
Differing(from, r) ==
  {c \in Component : from[c] \in Legacy \/ Content[from[c]][c] # Content[r][c]}
With(from, r, changed) == [c \in Component |-> IF c \in changed THEN r ELSE from[c]]

Publish(r, changed) ==
  /\ changed # {}
  /\ current' = With(current, r, changed)
  /\ previous' = current

PublishFull(r) == Publish(r, Renewed(current, r))
PublishDelta(r) == Publish(r, Differing(current, r))

Rollback ==
  /\ previous # None
  /\ current' = previous
  /\ previous' = current

Next == Rollback \/ \E r \in Release : PublishFull(r) \/ PublishDelta(r)

Spec == Init /\ [][Next]_<<current, previous>>
=============================================================================
