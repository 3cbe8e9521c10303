CONSTANTS
  Threads = {t1, t2}
  Users = {u1}
  Messages = {m1}
  Ids = {i1}
  WorkingDir = {}
  Mutexes = {x1, x2}
  None = None
  Dead = Dead
  Ops <- AllOps
  MaxReceivers = 1
  MaxRequests = 2
  MaxCrashes = 1
  RepeatedIds = FALSE
  DiskFails = TRUE
CHECK_DEADLOCK FALSE
SPECIFICATION FairSpec
PROPERTIES EveryRequestEnds
