CONSTANTS
  Clients = {c1, c2}
  Mails = {m1, m2, m3}
  MaxTime = 2
  MaxAsks = 2
  None = None
CHECK_DEADLOCK FALSE
SPECIFICATION Spec
SYMMETRY Symmetry
INVARIANTS TypeOK SortedByInsertion MeantUnlessMoved
