SPECIFICATION Spec
CONSTANTS
    Profiles <- TwoProfiles
    DeepProbe = {TRUE, FALSE}
    Overrides <- OwnRules
    Requested = {}
    MaxClock = 0
    MaxPrepares = 1
    MaxConditions = 1
    MaxRoutings = 2
    MaxMatches = 3
    MaxTrusts = 1
    MaxSpatials = 0
    MaxRegistrations = 0
    MaxCrashes = 1
    MaxReplacements = 0
    max_fallback_attempts = 1
INVARIANTS
    FinalRouteStands
    ExecutionsShareNoRun
PROPERTIES
    HistoryStands
    ExecutionEnds
CHECK_DEADLOCK FALSE
