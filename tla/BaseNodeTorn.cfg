SPECIFICATION HSpec
CONSTANTS
  Byte = {0, 85, 170}
  FRAME_START = 170
  FRAME_END = 85
  FRAME_LEN = 4
  STATUS = 2
  MaxSeen = 2
INVARIANT
  SampleIsOneFrame
