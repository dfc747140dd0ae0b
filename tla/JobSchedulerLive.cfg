SPECIFICATION FairSpec
CONSTANTS
    MaxSubmits = 2
    MaxPending = 1
    MaxHistory = 1
    TimeoutTicks = 1
    MaxLiveLines = 1
    MaxChunks = 1
    MaxAsks = 1
    ReplRuns = {1}
    Pinnable = {}
INVARIANTS
    OnlyAbandonedStray
PROPERTIES
    EveryRunEnds
CHECK_DEADLOCK FALSE
