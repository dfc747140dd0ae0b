SPECIFICATION FairSpec
CONSTANTS
    MaxSubmits = 3
    MaxPending = 2
    MaxHistory = 2
    TimeoutTicks = 1
    MaxLiveLines = 1
    MaxChunks = 0
    MaxAsks = 0
    ReplRuns = {1, 3}
    Pinnable = {1}
INVARIANTS
    StopLeavesNoneQueued
    CallbackTellsOutcome
PROPERTIES
    TerminalIsFinal
    IsRunQueue
CHECK_DEADLOCK FALSE
