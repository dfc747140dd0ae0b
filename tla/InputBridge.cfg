SPECIFICATION PatientSpec
CONSTANTS
    MaxQuestions = 2
    MaxScreens = 3
    Threads = {worker}
    Interruptible = {worker}
INVARIANTS
    PresenterIsNewest
PROPERTIES
    FirstAnswerStands
    StoppedRunLeaves
    QuestionIsShown
CHECK_DEADLOCK FALSE
