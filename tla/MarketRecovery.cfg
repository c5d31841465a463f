SPECIFICATION Spec
SYMMETRY Symmetry
CONSTANTS
  Pass = {p1, p2}
  MaxLive = 1
  LEASE_MS = 1
  FALLBACK_DURATION_MS = 3
  INTERVAL_MS = 1
  RATE_STEP_MS = 1
  MAX_ITEMS_PER_RUN = 2
  FALLBACK_ITEMS_PER_RUN = 1
  CAPACITY_FAILURE_THRESHOLD = 2
  RECOVERY_SUCCESS_THRESHOLD = 1
  EditTimes = {3}
  MaxTime = 5
PROPERTIES ProbeIsEarned KeepsProtection OnlyManualRunLiftsStop
\* Nothing happens any more once every pass is over and the clock is at its bound.
CHECK_DEADLOCK FALSE
