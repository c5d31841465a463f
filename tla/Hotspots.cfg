SPECIFICATION Spec
CONSTANTS
    Stamp = {1, 2, 3, 4}
    Rows = {a, b}
    Retention = 2
    MaxSamples = 2
    MaxAttempts = 1
    Absent = Absent
SYMMETRY Symmetry
VIEW View
INVARIANT StoreSurvives
INVARIANT BudgetNeverRefuses
INVARIANT AttemptsAreTrue
PROPERTY OnlyOverlapFails
PROPERTY KeepsItsPromise
