CONSTANTS
    w1 = w1  w2 = w2  w3 = w3
    p1 = p1  p2 = p2
    prepareA = prepareA  prepareB = prepareB  routing = routing
    pair = pair  config = config
    None = None  Orphan = Orphan
    Worker = {w1, w2}
    Proc = {p1}
    ProcOf <- OneServer
    RunRoot = {routing}
    Name = {pair}
    NameOf <- LastComponent
    StatusInRoot = {}
    Resettable = {}
    RunsOutlastBudget = FALSE
    IOErrors = FALSE
SPECIFICATION Spec
INVARIANT StaleLockGivesWay
