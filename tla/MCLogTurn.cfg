CONSTANTS
    MAX_TURNS = 2
    MAX_ONSETS = 3
    MAX_PARTS = 1
    MAX_CALLS = 2
    MAX_LOG_TURNS = 2
    SEEN_RING_SIZE = 2
    Timely = TRUE
SPECIFICATION Spec
CHECK_DEADLOCK FALSE
INVARIANTS
    MeasuresOnlyResponses
    AnchorIsClean
    MeasurementIsTakenOnce
    MissingCountsTurns
    DriftIsAccountedFor
