SPECIFICATION FairSpec
CONSTANTS
    MaxQuestions = 2
    MaxScreens = 1
    Threads = {worker, terminal}
    Interruptible = {worker}
PROPERTIES
    RequestReturns
    IsAskUser
CHECK_DEADLOCK FALSE
