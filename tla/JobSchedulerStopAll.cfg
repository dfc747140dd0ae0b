SPECIFICATION Spec
CONSTANTS
    MaxSubmits = 2
    MaxPending = 2
    MaxHistory = 1
    TimeoutTicks = 2
    MaxLiveLines = 1
    MaxChunks = 1
    MaxAsks = 1
    ReplRuns = {}
    Pinnable = {}
INVARIANTS
    StopAllStopsEverything
CHECK_DEADLOCK FALSE
