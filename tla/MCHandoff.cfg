CONSTANTS
    Request = {r1, r2}
    Click = {c1, c2}
    Key = {k1, k2}
    Payload = {p1, p2}
    None = None
    MAX_ATTEMPTS = 2
SPECIFICATION Spec
CHECK_DEADLOCK FALSE
INVARIANTS
    AnswersAgree
    PostsAreBounded
    RecordIsTrue
PROPERTIES
    CallbackEnds
