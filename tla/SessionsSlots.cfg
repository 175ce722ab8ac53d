SPECIFICATION Spec
CONSTANTS
    s1 = s1
    s2 = s2
    m1 = m1
    m2 = m2
    Sessions = {s1, s2}
    Managers = {m1, m2}
    NoManager = NoManager
    NoAmount = NoAmount
    Limit = 1
    Threshold = NoAmount
    Reservations <- Unmetered
    Costs = {}
    Rounded <- Exactly
    Slack = 0
    Faults = {"renewal"}
    MaxFaults = 1
    Cancellable = {}
    MaxQuestions = 1
SYMMETRY Symmetry
INVARIANT
    SlotsAreExecuted
