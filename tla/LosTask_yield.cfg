SPECIFICATION TaskSpec
CONSTANTS
  idle = idle
  a = a
  b = b
  c = c
  None = None
  Idle <- idle
  WaitObjects = {}
  Tasks <- ThreeTasks
  CreatePrio <- ThreeAlike
  Lowest = 1
  MaxTimeout = 2
  MaxLock = 1
  TimesliceTimeout = 2
  Calls <- PlainCalls
INVARIANTS
  YieldsQueued
