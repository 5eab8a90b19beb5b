SPECIFICATION FaultySpec
CONSTANTS
  Byte <- MCByte
  FRAME_START = 170
  FRAME_END = 85
  FRAME_LEN = 10
  Frames <- MCTwoFrames
  MaxInFlight = 2
  MaxFaults = 2
INVARIANT
  OneCorruptFramePerFault
PROPERTY
  CleanFrameResyncs
