SPECIFICATION Spec
CONSTANTS
    s1 = s1
    s2 = s2
    m1 = m1
    m2 = m2
    Sessions = {s1, s2}
    Managers = {m1, m2}
    NoManager = NoManager
    NoAmount = NoAmount
    Limit = 1
    Threshold = 8
    Reservations <- Metering
    Costs = {4}
    Rounded <- ThreeBits
    Slack = 1
    Faults = {"lapse", "renewal", "crash", "error"}
    MaxFaults = 1
    Cancellable = {s1}
    MaxQuestions = 1
SYMMETRY Managing
INVARIANTS
    TypeOK
    SlotsOwned
    OutcomesGrounded
    BudgetKept
PROPERTIES
    NothingRewritten
