CONSTANTS
    Turn = {t1, t2}
    Session = {s1}
    Category = {}
    Lemma = {casa, perro}
    Unsafe = {perro}
    MAX_ERRORS = 1
    POOL_SIZE = 2
    None = None
SPECIFICATION Spec
CHECK_DEADLOCK FALSE
INVARIANTS
    CountsExplainTurns
    GraphLagsBehindStore
    SessionsAreOnRecord
PROPERTIES
    NobodyWaitsForEver
