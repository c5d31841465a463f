SPECIFICATION Spec
CONSTANTS
  Socket = {s1}
  MAX_VERSION = 2
  MAX_DRIFT = 1
  TRIES = 2
INVARIANT NeverMixed
INVARIANT CursorHidesNothing
INVARIANT NothingAfterLoss
INVARIANT NeverStuck
PROPERTY NeverBackwards
PROPERTY Converges
PROPERTY LossCloses
\* The system stops when the socket is closed and the bounded commands are done.
CHECK_DEADLOCK FALSE
