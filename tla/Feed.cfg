SPECIFICATION MCSpec
CONSTANTS
    Procs = {api}
    MaxSeq = 3
    Buffer = 1
    PageSize = 2
    SendBuffer = 2
    MaxFaults = 1
    ClientRule = "contiguous"
    r1 = r1
    r2 = r2
    Runs = {r1, r2}
    SubIds = {a, b}
    HubBuffer = 1
    MaxSubscriptions = 2
    MaxTrackedRuns = 1
    MetaLimit = 1
    PollLimit = 1
    MaxControls = 3
INVARIANTS
    MissesNothing
    NoHoleBehindTail
PROPERTIES
    ImplementsOrderedFeed
    BecomesCurrent
CHECK_DEADLOCK FALSE
