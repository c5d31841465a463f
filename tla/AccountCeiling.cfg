SPECIFICATION Spec
CONSTANTS
  Account = {a}
  Run = {r1, r2}
  Nobody = Nobody
  LEASE_MS = 2
  WINDOW_MS = 4
  MAX_ACCOUNT_RPCS = 2
  RPC_INTERVAL_MS = 1
  RATE_STEP_MS = 1
  MaxTime = 9
SYMMETRY Symmetry
INVARIANT FiveMinuteCeiling
\* The run ends when every pass is over and the clock is at its bound.
CHECK_DEADLOCK FALSE
