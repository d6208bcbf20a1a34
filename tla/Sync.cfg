SPECIFICATION FairSpec
CONSTANTS
  u1 = u1
  u2 = u2
  k1 = k1
  s1 = s1
  m1 = m1
  NULL = NULL
  Task <- AllTasks
  KTask <- KernelTasks
  Sem = {s1}
  Mutex = {m1}
  Queue = {s1, m1}
  MaxSleep = 2
  MaxCount = 2
INVARIANTS
  TypeOK
  TasksPlaced
  LockDiscipline
  MutexesConsistent
  NoLostPermit
PROPERTIES
  NoOvertaking
  ExitIsFinal
  ImplementsFifoLock
  ReadyRuns
  SleepersWake
  MutexIsGranted
