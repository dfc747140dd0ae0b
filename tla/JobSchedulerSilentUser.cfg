SPECIFICATION SilentUserSpec
CONSTANTS
    MaxSubmits = 2
    MaxPending = 2
    MaxHistory = 1
    TimeoutTicks = 2
    MaxLiveLines = 1
    MaxChunks = 0
    MaxAsks = 2
    ReplRuns = {1}
    Pinnable = {}
PROPERTIES
    StopTakesEffect
CHECK_DEADLOCK FALSE
