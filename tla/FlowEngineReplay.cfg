SPECIFICATION FairSpec
CONSTANTS
  Interps = {1, 2}
  Threads = {t1, t2}
  MaxSessions = 1
  MaxKept = 1
  MaxId = 5
  MaxStages = 2
  Hosts <- TheHosts
INVARIANT OwnSession

CHECK_DEADLOCK FALSE
