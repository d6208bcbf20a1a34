SPECIFICATION Spec
CONSTANTS
  init = init
  p2 = p2
  p3 = p3
  d1 = d1
  d2 = d2
  d3 = d3
  NULL = NULL
  Process = {init, p2, p3}
  Dir = {d1, d2, d3}
  Blocks = 9
  ImageSize = 1
  MaxPid = 4
SYMMETRY Symmetry
CHECK_DEADLOCK FALSE
INVARIANTS
  BlocksOwned
  UsersKeepMemory
  NoLostExit
  PidsName
