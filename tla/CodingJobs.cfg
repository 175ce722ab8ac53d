SPECIFICATION Spec
CONSTANTS
    Jobs = {j1, j2}
    NoJob = NoJob
    MaxFaults = 1
SYMMETRY Requests
INVARIANTS
    LeasesFollowJobs
    ChannelIsHonest
PROPERTIES
    JobEndsOnce
CHECK_DEADLOCK FALSE
