CONSTANTS
    w1 = w1  w2 = w2  w3 = w3
    p1 = p1  p2 = p2
    prepareA = prepareA  prepareB = prepareB  routing = routing
    pair = pair  config = config
    None = None  Orphan = Orphan
    Worker = {w1, w2, w3}
    Proc = {p1}
    ProcOf <- OneServer
    RunRoot = {prepareA, prepareB}
    Name = {config}
    NameOf <- LastComponent
    StatusInRoot = {prepareA, prepareB}
    Resettable = {prepareA, prepareB}
    RunsOutlastBudget = TRUE
    IOErrors = TRUE
SPECIFICATION FairSpec
INVARIANTS OneRunPerName LockFileIsOwn TakesOverOnlyDeadLocks
PROPERTIES NoClobber EveryAttemptEnds ImplementsSingleWriter
