SPECIFICATION MemorySpec
CONSTANTS
  a = a
  b = b
  x = x
  y = y
  Task = {a, b}
  Client = {x, y}
  Pages = 8
  Boot <- KernelPages
  MaxBlocks = 5
  Blocks = 8
  Word = 4
  MaxDma = 3
  BootBlocks <- KernelBlocks
  KStack = 3
CHECK_DEADLOCK FALSE
SYMMETRY Symmetry
INVARIANTS
  FailureIsZero
