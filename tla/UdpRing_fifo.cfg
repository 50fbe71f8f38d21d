SPECIFICATION UdpSpec
CONSTANTS
  p1 = p1
  p2 = p2
  None = None
  Packets <- TwoPackets
  N = 4
  CountMax = 5
  Crowded = FALSE
INVARIANTS
  UdpTypeOK
  RingHoldsQueue
  CopyIsOldest
  NobodySleepsOnPacket
PROPERTIES
  PacketRead
