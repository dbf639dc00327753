CONSTANTS
    MaxSessions = 4
    TurnBands = {2, 3}
    MaxTurns = 2
    MaxOpen = 2
    Floor = 2
    MinValidTurns = 2
    WindowSessions = 2
    PromoteK = 2
    DemoteK = 3
    Overlap = FALSE
    MaxWindow = 7
    MaxStable = 2
SPECIFICATION MCSpec
CHECK_DEADLOCK FALSE
INVARIANTS
    BandHistoryIsAChain
PROPERTIES
    FlipEndsAnUnbrokenStreak
    RaisingATurnNeverLowersTarget
    PlacementIsStable
