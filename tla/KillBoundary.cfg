SPECIFICATION Spec
CONSTANTS
    Proc = {p1}
    MaxId = 4
    KillTime <- Times
    Leap = 2
    LocateBudget = 3
    HistoryEvery = 2
    RecentWindow = 1
    MaxRequests = 4
    EmptyThreshold = 2
    MaxRanges = 1
    LoadRanges = 2
    LongestBackoff = 1
INVARIANT EmptyBoundaryRechecked
