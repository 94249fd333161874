SPECIFICATION Spec
CONSTANTS
    Pair = {p1, p2}
    MaxRuns = 2
    MaxResets = 1
    MaxCrashes = 1
INVARIANTS
    ReadyIsWhole
    EndedHasItsManifest
PROPERTY PrepareReports
CHECK_DEADLOCK FALSE
