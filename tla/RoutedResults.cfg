SPECIFICATION Spec
CONSTANTS
    Profiles <- TwoProfiles
    DeepProbe = {FALSE}
    Overrides <- NoRules
    Requested = {"sift"}
    MaxClock = 1
    MaxPrepares = 1
    MaxConditions = 0
    MaxRoutings = 0
    MaxMatches = 2
    MaxTrusts = 2
    MaxSpatials = 1
    MaxRegistrations = 1
    MaxCrashes = 0
    MaxReplacements = 1
    max_fallback_attempts = 1
INVARIANTS
    RegisteredFromOneChain
    RealFromReal
    DefaultsAreNewest
CHECK_DEADLOCK FALSE
