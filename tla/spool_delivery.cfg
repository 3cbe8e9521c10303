CONSTANTS
  Threads = {t1, t2}
  Users = {u1, u2}
  Messages = {m1}
  Ids = {i1, i2}
  WorkingDir = {}
  Mutexes = {x1, x2, x3}
  None = None
  Dead = Dead
  Ops = {"SEND", "DEL"}
  MaxReceivers = 2
  MaxRequests = 2
  MaxCrashes = 1
  RepeatedIds = FALSE
  DiskFails = TRUE
CHECK_DEADLOCK FALSE
SPECIFICATION Spec
SYMMETRY Symmetry
INVARIANTS TypeOK CopiesMatchProgress NoMailLost
PROPERTIES OrphanStaysStuck StoreSpec
