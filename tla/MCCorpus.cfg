CONSTANTS
    p = p
    q = q
    Pattern = {p, q}
    NotExamined = NotExamined
    None = None
    Broken = Broken
    SINCE <- MCSince
    VENTANA_N = 1
    AUSENCIA_N = 1
    MIN_SESIONES = 2
    LEGACY = 2
    ADDED = 2
    Report <- MCReport
    DIAS = 1
    EJERCICIOS = 2
    PROVENANCE <- MCProvenance
    OVERLAP = FALSE
    TORN = FALSE
SPECIFICATION Spec
CHECK_DEADLOCK FALSE
INVARIANTS
    NobodyElsesPatterns
    BackfillIsMarked
    AbsenceIsProved
    TrendsCompareLikeWithLike
PROPERTIES
    RowsStay
    ReportsStay
