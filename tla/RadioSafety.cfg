SPECIFICATION DjSpec
CONSTANTS
    Slots = {1, 2}
    MaxActivities = 1
    MaxTracks = 2
    MaxRequests = 2
    MaxChain = 1
    MaxMail = 1
    Controls = {"configure", "yield", "music_only", "next", "stop", "talk_less", "talk_more", "change_vibe"}
    Faults = {"error", "skip", "throw", "slow", "churn"}
CHECK_DEADLOCK FALSE
INVARIANTS
    OneReplacement
PROPERTIES
    CancelledWorkIsSilent
    ConfirmedBeforeIntroduced
    UserHasTheFloor
    SelectionEnds
