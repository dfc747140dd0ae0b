SPECIFICATION Spec
CONSTANTS
  Programs <- Static
  Rhs <- TheRhs
  Handlers <- TheHandlers
  BellLimit = 2
  ValLimit = 3
  MaxJournal = 4
  MaxBells = 1
  MaxValue = 2
INVARIANTS ValsFresh SubscriptionsMatch OncePerChange RulesHold UndoRedoInverse
PROPERTY RollbackRestores
CHECK_DEADLOCK FALSE
