SPECIFICATION Spec
CONSTANTS
  init = init
  p2 = p2
  t1 = t1
  t2 = t2
  e1 = e1
  e2 = e2
  NULL = NULL
  Process = {init, p2}
  Table = {t1, t2}
  Entry = {e1, e2}
  Capacity = 3
  Growth = 1
  MaxCapacity = 4
  MaxRefs = 3
SYMMETRY Symmetry
CHECK_DEADLOCK FALSE
INVARIANTS
  CountsProtect
  SlotsReachable
  ReadersFileLives
