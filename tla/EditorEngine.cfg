\* Three operations on a small document, and any undo and redo in between.
SPECIFICATION MCSpec
CONSTANTS
    Byte <- Bytes
    Opened <- SmallTexts
    Keys <- SmallKeys
    Pasted <- SmallPasted
    kMaxHistory = 2
    MaxMoves = 3
INVARIANT CursorInText
PROPERTY IsHistory
CHECK_DEADLOCK FALSE
