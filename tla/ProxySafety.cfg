CONSTANTS
    Settings = {a, b}
    Procs = {p1, p2}
    NoProc = none
    MaxFaults = 1
    MaxCrashes = 1
SPECIFICATION Spec
SYMMETRY Symmetry
CHECK_DEADLOCK FALSE
INVARIANTS NoOrphans HealthIsOfThisProcess TruthUnlessUndoFailed
