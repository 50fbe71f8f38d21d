SPECIFICATION SemLive
CONSTANTS
  idle = idle
  a = a
  b = b
  s1 = s1
  None = None
  Idle <- idle
  Tasks <- TwoTasks
  CreatePrio <- TwoLevels
  Lowest = 2
  MaxTimeout = 2
  MaxLock = 1
  TimesliceTimeout = 0
  WaitObjects <- OneSem
  Sems <- OneSem
  Devices <- OneSem
  CountMax = 2
  SemTimeouts <- Both
  Calls <- SemCalls
INVARIANTS
  TokensKept
  NobodySleepsOnToken
PROPERTIES
  ImplementsSemaphore
  WaitEnds
