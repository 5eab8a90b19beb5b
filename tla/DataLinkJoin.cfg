SPECIFICATION FairJoinSpec
CONSTANTS
  Byte <- MCByte
  FRAME_START = 170
  FRAME_END = 85
  FRAME_LEN = 10
  Frames <- MCFewFrames
  MaxInFlight = 2
  MaxFaults = 0
INVARIANTS
  NothingCorrupt
PROPERTIES
  SyncIsKept
  CleanFramesAreReceived
