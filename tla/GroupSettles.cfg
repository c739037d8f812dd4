SPECIFICATION FairSpec
CONSTANTS
    c1 = c1  c2 = c2  None = None
    Consumers <- TwoConsumers
    MaxId = 2  Malformed = {2}  Batch = 1
    LeaseTTL = 2  JanitorIdle = 3  PoisonThreshold = 1
    LongSilence = FALSE  MaxFaults = 1
PROPERTIES EntriesSettle
CHECK_DEADLOCK FALSE
