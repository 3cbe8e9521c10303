CONSTANTS
  t1 = t1
  t2 = t2
  None = None
  Threads = {t1, t2}
  Texts <- Pairs
  BufSize = 2
  MaxLen = 3
  AttSize = 1
CHECK_DEADLOCK FALSE
SPECIFICATION FairSpec
INVARIANTS TypeOK InOrderUnlessMixed NothingLeftUnlessMixed
PROPERTIES Settles
