CONSTANTS
  Threads = {t1, t2, t3}
  Users = {u1}
  Messages = {m1}
  Ids = {i1}
  WorkingDir = {}
  Mutexes = {x1, x2, x3}
  None = None
  Dead = Dead
  Ops <- AllOps
  MaxReceivers = 1
  MaxRequests = 2
  MaxCrashes = 1
  RepeatedIds = FALSE
  DiskFails = FALSE
CHECK_DEADLOCK FALSE
SPECIFICATION Spec
SYMMETRY Symmetry
INVARIANTS ExclusiveUnlessTainted SnapshotUnlessTainted FailureNeedsTaint
