SPECIFICATION UdpSafety
CONSTANTS
  p1 = p1
  p2 = p2
  None = None
  Packets <- TwoPackets
  N = 2
  CountMax = 2
  Crowded = FALSE
PROPERTIES
  ReadsDeliver
