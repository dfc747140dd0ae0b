SPECIFICATION Spec
CONSTANTS
  Programs <- Dynamic
  Rhs <- TheRhs
  Handlers <- TheHandlers
  BellLimit = 2
  ValLimit = 3
  MaxJournal = 4
  MaxBells = 1
  MaxValue = 2
INVARIANT ValsFresh
CHECK_DEADLOCK FALSE
