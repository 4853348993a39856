\* Three frames over two connections.
SPECIFICATION Spec
CONSTANTS
  Frames <- MCFrames
  PortStatus <- MCPortStatus
  Capacity = 5
  MaxPackets = 2
  PacketSize = 2
  FrameLimit = 3
  ReleaseLimit = 2
INVARIANTS
  StatusIsOfTheStream
  NothingWrongIsCurrent
PROPERTIES
  VerdictIsRight
CHECK_DEADLOCK FALSE
