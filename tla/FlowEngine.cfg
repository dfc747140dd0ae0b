SPECIFICATION FairSpec
CONSTANTS
  Interps = {1, 2}
  Threads = {t1}
  MaxSessions = 1
  MaxKept = 1
  MaxId = 5
  MaxStages = 2
  Hosts <- TheHosts
INVARIANTS OneMoreNode ChainShape SuccessIsComplete RunningReachable RegistryBound OwnSession
PROPERTIES CancelTakesEffect IsRecord
CHECK_DEADLOCK FALSE
