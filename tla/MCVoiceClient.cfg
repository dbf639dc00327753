CONSTANT
    MAX_SCREENS = 2
SPECIFICATION ClientSpec
CHECK_DEADLOCK FALSE
INVARIANTS
    OnlyAnEarlyLeaverLeaks
    ScreenHasItsConnection
PROPERTIES
    FinishEnds
    LeavingReleases
