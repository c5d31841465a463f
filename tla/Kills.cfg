SPECIFICATION Spec
CONSTANTS
    Proc = {p1, p2}
    MaxId = 3
    KillTime <- Times
    Leap = 2
    LocateBudget = 1
    HistoryEvery = 2
    RecentWindow = 1
    MaxRequests = 3
    EmptyThreshold = 2
    MaxRanges = 1
    LoadRanges = 2
    LongestBackoff = 1
INVARIANT NothingForgotten
PROPERTY SupersededOnlyResets
SYMMETRY Symmetry
VIEW View
PROPERTY PausedIsLeftAlone
