SPECIFICATION Spec
CONSTANTS
    s1 = s1  w1 = w1  w2 = w2  None = None
    Steps <- OneStep  Edges <- NoEdges  Src <- NoEnds  Dst <- NoEnds
    Conditional <- NoEdges  Branch <- NoEdges  JoinAny <- NoEdges
    Gates <- NoEdges  RejectEdges <- NoEdges  Collect <- NoEdges
    OnReject = "fail"  OnTimeout = "none"  OnFailure = "fail_fast"
    MaxAttempts = 1  MaxSemantic = 1  MaxRequeues = 0
    Workers <- TwoWorkers  Entries = {1, 2}  Claims = {1, 2}
    PoisonThreshold = 2  MaxLosses = 1  RunOps = {"cancel", "unpark"}
SYMMETRY Symmetry
INVARIANTS TypeOK AttemptsMatchClaims
PROPERTIES ClosedOnce ImplementsRunGraph
CHECK_DEADLOCK FALSE
