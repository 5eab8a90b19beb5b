SPECIFICATION Spec
CONSTANTS
  Last = 100000
  Calib <- MCCalib
  RawTemps <- MCRawTemps
INVARIANTS
  ChannelsShowReading
  ConsoleShowsReading
  ReadingAsThreshold
  OnlyFittingSettingsArrive
  FloatsLoseAHundredth
  CompensationFits
CHECK_DEADLOCK FALSE
