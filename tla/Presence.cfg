SPECIFICATION Spec
CONSTANTS
  User = {u1, u2}
  Connection = {c1, c2, c3}
  Socket = {s1, s2}
  Nobody = Nobody
  LEASE_S = 3
  RENEW_S = 2
  CLAIM_WINDOW_S = 2
  MAX_CLAIMS = 1
  MAX_CONNECTIONS = 2
  CAPACITY = 1
SYMMETRY Symmetry
INVARIANT ConnectionLimit
INVARIANT PresenceSound
INVARIANT PromiseNearlyKept
PROPERTY AdmissionsRespectCapacity
PROPERTY KeepsStanding
