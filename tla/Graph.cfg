SPECIFICATION MCSpec
CONSTANTS
    Parts = {"diamond", "fork"}
    Steps = {"a", "b", "c", "j"}
    Edges <- DiamondEdges
    Src <- DiamondSrc
    Dst <- DiamondDst
    Conditional <- DiamondConditional
    Branch = {}
    JoinAny = {"j"}
    Gates = {"c"}
    RejectEdges <- DiamondRejects
    OnReject = "route"
    OnTimeout = "park"
    Collect = {}
    OnFailure = "fail_fast"
    MaxAttempts = 2
    MaxSemantic = 1
    MaxRequeues = 1
INVARIANTS
    TypeOK CountersMatch FollowsTheGraph NeverStuck OutcomesJustified BranchesGoOn
PROPERTIES
    DecisionsAreFinal
CHECK_DEADLOCK FALSE
