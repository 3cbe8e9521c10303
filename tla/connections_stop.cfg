CONSTANTS
  c1 = c1
  c2 = c2
  Conns = {c1, c2}
  Scripts <- SendAndQuit
  MaxFd = 2
  MayLock = TRUE
  None = None
CHECK_DEADLOCK FALSE
SPECIFICATION FairSpec
INVARIANTS TypeOK OwnUnlessReused NothingLeaked MessageFinished
PROPERTIES StopsUnlessReused
