SPECIFICATION TaskSpec
CONSTANTS
  idle = idle
  a = a
  b = b
  c = c
  None = None
  Idle <- idle
  WaitObjects = {}
  Tasks <- ThreeTasks
  CreatePrio <- TwoLevels
  Lowest = 1
  MaxTimeout = 1
  MaxLock = 1
  TimesliceTimeout = 0
  Calls <- ControlCalls
INVARIANTS
  TypeOK
  FlagsMatchLists
  TimerMatchesFlags
  NoTaskLost
  RunIsTop
PROPERTIES
  LockPinsRunning
CHECK_DEADLOCK FALSE
