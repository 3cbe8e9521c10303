CONSTANTS
  Conns = {c1}
  IPs = {a1}
  LockoutTime = 1
  LdapTime = 1
  SkipSize = 4
  MaxTime = 2
  MaxLeft = 1
  MaxStarts = 1
  KillOutside = FALSE
CHECK_DEADLOCK FALSE
SPECIFICATION FairSpec
PROPERTIES StopEnds
