SPECIFICATION RunSpec
CONSTANTS
    Agents = {"reaped", "unreaped"}
    MaxRetries = 1
    MaxSaid = 1
    Files = {f1}
CHECK_DEADLOCK FALSE
INVARIANTS
    HonestRun
PROPERTIES
    RunComesToRest
