CONSTANTS
  Conns = {c1, c2}
  IPs = {a1, a2}
  LockoutTime = 1
  LdapTime = 1
  SkipSize = 2
  MaxTime = 3
  MaxLeft = 1
  MaxStarts = 2
  KillOutside = TRUE
CHECK_DEADLOCK FALSE
SPECIFICATION Spec
SYMMETRY Symmetry
INVARIANTS TypeOK ThreeStrikes
PROPERTIES LocksKept
