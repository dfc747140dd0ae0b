SPECIFICATION FairSpec
CONSTANTS
  Programs <- MCPrograms
  MaxCallDepth = 3
  Budget = 60
INVARIANTS SameAsTree LeavesClean DepthIsCalls
PROPERTY Ends
CHECK_DEADLOCK FALSE
