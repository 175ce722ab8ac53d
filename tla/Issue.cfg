SPECIFICATION MCSpec
CONSTANTS
    c1 = c1
    c2 = c2
    c3 = c3
    p1 = p1
    p2 = p2
    Calls = {c1, c2, c3}
    NoCall = NoCall
    Processes = {p1, p2}
    ProcOf <- SharedProcess
    MethodOf <- StartAnswerCancel
    Aborters = {c1}
    Kinds = {"chat", "work"}
    MaxQuestions = 1
    MaxLapses = 1
    MaxCrashes = 1
INVARIANTS
    TypeOK
    CancelPreventsWorker
    ReportIsGrounded
PROPERTIES
    CalledOnce
    Fenced
    ImplementsContract
    CallsSettle
