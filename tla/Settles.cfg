SPECIFICATION Spec
CONSTANTS
    Parts = {"join", "queue"}
    w1 = w1  None = None  MaxLosses = 1
PROPERTIES
    RunEnds
CHECK_DEADLOCK FALSE
