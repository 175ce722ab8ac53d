CONSTANTS
    Runs = {r1}
    Starters = {s1}
    Ticker = ticker
    LeaseMs = 1
    BaseRetryMs = 2
    ReportIntervalMs = 2
    MaxTime = 4
    MaxRestarts = 1
    MaxStoreFailures = 1
SPECIFICATION Spec
INVARIANTS TypeOK AttemptsMatchOutbox TimedAsPromised
PROPERTIES SettlementHolds
CHECK_DEADLOCK FALSE
