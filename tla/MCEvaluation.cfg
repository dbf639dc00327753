CONSTANTS
    f1 = f1
    f2 = f2
    f3 = f3
    p = p
    q = q
    u = u
    w = w
    x = x
    y = y
    gender = gender
    tense = tense
    FIXTURES = {f1, f2, f3}
    TARGETED = {f1, f2}
    REPLIES <- MCReplies
    CONCURRENCY = 2
    LIMIT = 1
    NoReport = NoReport
    PERSONAS = {p, q}
    OPENING = {p}
    BUDGET <- MCBudget
    UTTERANCES <- MCUtterances
    ANSWERS <- MCAnswers
    VERDICTS <- MCVerdicts
    NoCall = NoCall
    Category = {gender, tense}
    NoType = NoType
    NoForm = NoForm
    Form = Form
    NotAList = NotAList
    NotIterable = NotIterable
    Refused = Refused
    SLOTS = 1
    RUNS = 2
    Opening = Opening
    Broken = Broken
    NoOutput = NoOutput
    WINDOW = 1
    TOP_ERRORS = 1
    TOP_VOCAB = 1
SPECIFICATION Spec
CHECK_DEADLOCK FALSE
INVARIANTS
    ReportAccountsForAll
    FormsAgree
    JudgeOnlyRaises
    ReplaysAgree
    SnapshotsAgree
    OutputIsComplete
