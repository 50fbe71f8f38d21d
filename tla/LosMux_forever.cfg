SPECIFICATION MuxSpec
CONSTANTS
  idle = idle
  a = a
  b = b
  c = c
  m1 = m1
  m2 = m2
  None = None
  Idle <- idle
  Tasks <- ThreeTasks
  CreatePrio <- ThreeLevels
  Lowest = 3
  MaxTimeout = 1
  MaxLock = 1
  TimesliceTimeout = 0
  WaitObjects <- OneMutex
  Mutexes <- OneMutex
  MaxCount = 2
  MuxTimeouts <- Forever
  Calls <- MuxCalls
INVARIANTS
  Exclusion
  PriorityGivenBack
PROPERTIES
  ImplementsMutex
