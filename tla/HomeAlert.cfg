SPECIFICATION Spec
CONSTANTS
  Echoes <- MCEchoes
  Sounds <- MCSounds
  Climates <- MCClimates
  Garbage <- MCGarbage
  Undefined <- MCUndefined
  BmeInterval = 1100
  Trig = {alarm_trig}
  Handler = {alarm_trigger_cb}
  Dev = sensor_dev
  NULL = NULL
INVARIANTS
  TypeOK
  CalledWithDevice
  CalledAsRegistered
  FrameExplainsAlarm
  LedsAreCurrent
  SilenceIsReported
  LineAgreesWithLeds
  OneCallPerRise
PROPERTIES
  ReadingsAreFresh
  FramesDoNotMeet
  TimeoutMeansDown
  CalledBeforeShown
