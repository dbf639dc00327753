CONSTANTS
    Conn = {c1, c2, c3}
    None = None
    CancelMayRaise = TRUE
SPECIFICATION Spec
CHECK_DEADLOCK FALSE
INVARIANTS
    NoPipelineIsForgotten
PROPERTIES
    NewClientIsServed
    DisplacedSessionEnds
    ImplementsSlot
