CONSTANTS
    MaxSessions = 2
    CancelMayRaise = TRUE
    TurnBands = {2, 3}
    MaxTurns = 1
    MaxOpen = 2
    Overlap = TRUE
    Floor = 2
    MinValidTurns = 1
    WindowSessions = 2
    PromoteK = 2
    DemoteK = 3
SPECIFICATION SystemSpec
CHECK_DEADLOCK FALSE
INVARIANT BandHistoryIsAChain
