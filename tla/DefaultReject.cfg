SPECIFICATION FairSpec
CONSTANTS
    Instances <- ApproveOnly
    Never = never
    RetryStale = 1
    MaxDeliveries = 2
    MaxTime = 4
    MaxEntries = 2
    MaxRequeues = 0
    MaxFaults = 0
PROPERTIES
    TimeoutFires
CHECK_DEADLOCK FALSE
