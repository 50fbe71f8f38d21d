SPECIFICATION MuxSpec
CONSTANTS
  idle = idle
  a = a
  b = b
  c = c
  m1 = m1
  m2 = m2
  None = None
  Idle <- idle
  Tasks <- TwoTasks
  CreatePrio <- TwoLevels
  Lowest = 2
  MaxTimeout = 2
  MaxLock = 1
  TimesliceTimeout = 0
  WaitObjects <- TwoMutexes
  Mutexes <- TwoMutexes
  MaxCount = 2
  MuxTimeouts <- Both
  Calls <- DeleteCalls
CHECK_DEADLOCK FALSE
INVARIANTS
  GrantIsTold
PROPERTIES
  ImplementsMutex
