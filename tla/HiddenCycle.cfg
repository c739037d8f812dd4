SPECIFICATION Spec
CONSTANTS
    Parts = {"run"}
    Runs = {"chain"}
    CancelDuringSweep = FALSE
    MaxClaims = 1
    MaxHeard = 0
INVARIANT
    NeverStalled
CHECK_DEADLOCK FALSE
