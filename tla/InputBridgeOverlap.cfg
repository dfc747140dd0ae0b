SPECIFICATION Spec
CONSTANTS
    MaxQuestions = 1
    MaxScreens = 2
    Threads = {worker}
    Interruptible = {}
INVARIANTS
    NoQuestionLost
CHECK_DEADLOCK FALSE
