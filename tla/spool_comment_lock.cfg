CONSTANTS
  Threads = {t1, t2, t3}
  Users = {u1}
  Messages = {m1, m2}
  Ids = {i1, i2}
  WorkingDir = {}
  Mutexes = {x1, x2, x3}
  None = None
  Dead = Dead
  Ops <- AllOps
  MaxReceivers = 1
  MaxRequests = 1
  MaxCrashes = 0
  RepeatedIds = FALSE
  DiskFails = FALSE
CHECK_DEADLOCK FALSE
SPECIFICATION Spec
INVARIANTS MailboxExclusion
