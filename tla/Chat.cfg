CONSTANTS
    t1 = t1
    c1 = c1
    c2 = c2
    Turns = {t1}
    Channels = {"private", "discord"}
    Carried = {"none", "local_only", "cloud_enabled", "ask_before_external"}
    Offered = {"control", "plain", "proc", "gated", "save", "unknown"}
    Consents = {c1, c2}
    Covers <- MCCovers
    MaxToolRounds = 1
    MaxUtterances = 2
    MaxCalls = 2
    MaxNative = 1
SPECIFICATION Spec
CHECK_DEADLOCK FALSE
INVARIANTS
    OneEnding
    OnlyAuthorised
    Recorded
PROPERTIES
    NothingBeginsAfterCancel
    CancelledEnds
