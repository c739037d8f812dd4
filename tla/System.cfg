SPECIFICATION Spec
CONSTANTS
    Parts = {"limiter", "api", "journal", "board", "attempt",
             "logs", "sub", "reg", "list", "cred",
             "context", "call", "repair", "retry", "notify", "price"}
    Workers = {w1, w2}
    Clients = {c1, c2}
    MaxClock = 3
    LimiterFaults = 1
    JournalAttempts = 3
    JournalFaults = 2
    BoardSteps = {b1, b2}
    Limit = 2
    BoardFaults = 1
    Steps = {s1, s2}
    MaxFaults = 1
    s1 = s1
    s2 = s2
    MaxLines = 3
    MaxSends = 2
    RegistryVersions = 2
    ListTime = 3
    MaxTime = 3
    MaxTickets = 1
    NoToken = none
    NoRun = norun
    Never = never
    RequestFaults = 1
    MaxText = 3
    MaxLog = 3
    NotifyClock = 1
    MaxDay = 2
INVARIANTS
    LimitsHold EffectsOnce BoardLinear SpendAccounted OutputsValid
    WritesOnce PagesComplete AccessEnds ContextFits RetriesBounded
PROPERTIES
    NothingTakenBack
SYMMETRY CallersAlike
CHECK_DEADLOCK FALSE
