SPECIFICATION Spec
CONSTANTS
    c1 = c1  c2 = c2  None = None
    Consumers <- TwoConsumers
    MaxId = 2  Malformed = {}  Batch = 2
    LeaseTTL = 3  JanitorIdle = 4  PoisonThreshold = 2
    LongSilence = FALSE  MaxFaults = 2
SYMMETRY Symmetry
INVARIANTS TypeOK NothingForgotten
PROPERTIES HandlerKeepsLease
CHECK_DEADLOCK FALSE
