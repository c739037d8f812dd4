SPECIFICATION FairSpec
CONSTANTS
    Instances <- Policies
    Never = never
    RetryStale = 1
    MaxDeliveries = 2
    MaxTime = 4
    MaxEntries = 2
    MaxRequeues = 1
    MaxFaults = 1
INVARIANTS
    GateHolds
PROPERTIES
    ApprovalsDecidedOnce
    ClocksEnforced
CHECK_DEADLOCK FALSE
