SPECIFICATION IpcSpec
CONSTANTS
  idle = idle
  a = a
  b = b
  q1 = q1
  r1 = r1
  w1 = w1
  e1 = e1
  m1 = m1
  m2 = m2
  None = None
  Idle <- idle
  Tasks <- TwoTasks
  CreatePrio <- TwoLevels
  Lowest = 2
  MaxTimeout = 1
  MaxLock = 1
  TimesliceTimeout = 0
  WaitObjects <- ThreeLists
  Queues <- OneQueue
  ReadList <- OneReadList
  WriteList <- OneWriteList
  Lengths <- Long
  Messages <- TwoMessages
  QueueTimeouts <- OneTick
  HandlerQueues <- OneQueue
  Events <- OneEvent
  Bits <- TwoBits
  Reads <- AnyAndAll
  EventTimeouts <- Forever
  HandlerEvents <- OneEvent
  Calls <- IpcCalls
INVARIANTS
  SlotsAddUp
  WaitersInLine
  NobodySleepsOnEvent
PROPERTIES
  ImplementsFifo
