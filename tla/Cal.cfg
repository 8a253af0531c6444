SPECIFICATION CalSpec
CONSTANTS
    Groups <- OnePair
    MaxAttempts = 2
    Unanswered = {"start", "add", "compute", "stop", "save"}
    Prompt = FALSE
    MaxRuns = 1
    MaxAsks = 3
    MaxDrops = 1
INVARIANTS
    FlowTracks
    RealmKnown
    OkIsSaved
    RequestedIsFocused
    RunIsComplete
PROPERTIES
    SessionEnds
