SPECIFICATION Spec
CONSTANTS
  Programs <- HeaderPrograms
  MaxCallDepth = 3
  Budget = 60
INVARIANT SameAsTree
CHECK_DEADLOCK FALSE
