\* Characters of two bytes.
SPECIFICATION MCSpec
CONSTANTS
    Byte <- Bytes
    Opened <- WideTexts
    Keys <- WideKeys
    Pasted <- WidePasted
    kMaxHistory = 2
    MaxMoves = 2
INVARIANT WholeCharacters
CHECK_DEADLOCK FALSE
