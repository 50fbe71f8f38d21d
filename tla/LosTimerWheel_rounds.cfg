SPECIFICATION Spec
CONSTANTS
  a = a
  b = b
  c = c
  d = d
  Tasks <- FourTasks
  Length = 4
  MaxTimeout = 9
PROPERTIES
  ImplementsTimers
