SPECIFICATION Spec
CONSTANTS
    MaxSubmits = 3
    MaxPending = 2
    MaxHistory = 2
    TimeoutTicks = 1
    MaxLiveLines = 1
    MaxChunks = 0
    MaxAsks = 0
    ReplRuns = {1, 3}
    Pinnable = {1}
INVARIANTS
    PendingCap
    InOrder
    PendingIsListed
    StopLeavesNoneQueued
    CallbackTellsOutcome
    CallbacksNotLeaked
    SchedulerInv
PROPERTIES
    TerminalIsFinal
    TrimDropsOldest
    PinnedKept
CHECK_DEADLOCK FALSE
