CONSTANTS
    MaxSessions = 3
    TurnBands = {1, 3, 5}
    MaxTurns = 1
    MaxOpen = 1
    Floor = 2
    MinValidTurns = 1
    WindowSessions = 1
    PromoteK = 2
    DemoteK = 3
    Overlap = FALSE
    MaxWindow = 0
    MaxStable = 0
SPECIFICATION MCSpec
CHECK_DEADLOCK FALSE
INVARIANT FlipFollowsOneDirection
