SPECIFICATION Spec
CONSTANTS
    Parts = {"page"}
    Runs = {}
    CancelDuringSweep = TRUE
    MaxClaims = 1
    MaxHeard = 0
INVARIANT
    RowsNeverStall
CHECK_DEADLOCK FALSE
