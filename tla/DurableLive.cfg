CONSTANTS
    Runs = {r1}
    Starters = {s1}
    Ticker = ticker
    LeaseMs = 1
    BaseRetryMs = 1
    ReportIntervalMs = 3
    MaxTime = 4
    MaxRestarts = 1
    MaxStoreFailures = 0
SPECIFICATION LiveSpec
PROPERTIES WorkIsTakenUp
CHECK_DEADLOCK FALSE
