CONSTANTS
    MAX_SESSIONS = 4
    MAX_OPEN = 2
    MAX_LOST = 1
    BANDS <- MCBands
    POOL <- MCPool
    REQUESTS <- MCRequests
    COOLDOWN = 2
    LIMIT = 2
SPECIFICATION Spec
CHECK_DEADLOCK FALSE
INVARIANTS
    ThemeIsRested
    FirstSessionsAreDiagnosed
