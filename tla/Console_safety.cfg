SPECIFICATION ConsoleSpec
CONSTANTS
  u1 = u1
  u2 = u2
  u3 = u3
  k1 = k1
  p1 = p1
  NULL = NULL
  Task <- AllTasks
  KTask <- KernelTasks
  s1 = s1
  Sem = {s1}
  Mutex = {p1}
  Queue = {s1, p1}
  PrintMutex = p1
  MaxSleep = 2
  MaxCount = 1
  MsgLen = 2
SYMMETRY Symmetry
CHECK_DEADLOCK FALSE
INVARIANTS
  LogSafe
  OnlyExitForgets
  ReadyUartIsHarmless
