SPECIFICATION FairSpec
CONSTANTS
  Byte <- MCByte
  FRAME_START = 170
  FRAME_END = 85
  FRAME_LEN = 10
  Frames <- MCFrames
  MaxInFlight = 3
  MaxFaults = 0
INVARIANTS
  TypeOK
  InSync
PROPERTY
  ImplementsFairChannel
