SPECIFICATION Spec
CONSTANTS
  User = {founder, member}
  Founder = founder
  Author = member
  DraftTime = {1}
  Time = {1, 2}
  MaxReports = 2
  MaxForces = 1
  MaxVersion = 2
  None = None
  Tab = {t1}
  MaxOrphans = 1
INVARIANT Consistent
INVARIANT SentOnce
INVARIANT ConflictIsFinal
PROPERTY EstimateForward
\* The model stops at its bounds of rows and versions.
CHECK_DEADLOCK FALSE
