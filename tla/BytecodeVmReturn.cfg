SPECIFICATION Spec
CONSTANTS
  Programs <- ReturnPrograms
  MaxCallDepth = 3
  Budget = 60
INVARIANT SameAsTree
CHECK_DEADLOCK FALSE
