SPECIFICATION Spec
CONSTANTS
    Parts = {"join", "page", "run", "graphs"}
    Runs = {"retries", "fan", "fanned", "collecting", "planned", "beside", "racing"}
    CancelDuringSweep = FALSE
    MaxClaims = 2
    MaxHeard = 2
INVARIANTS
    RowsAgree
    PageHeals
    GrowthSound
    GraphsJudged
PROPERTIES
    ImplementsRunGraph
    FreshClaimSurvives
CHECK_DEADLOCK FALSE
