SPECIFICATION Spec
CONSTANTS
  Echoes <- MCEchoes
  Sounds <- MCSounds
  Climates <- MCClimates
  Garbage <- MCGarbage
  Undefined <- MCUndefined
  BmeInterval = 1100
  Trig = {alarm_trig}
  Handler = {alarm_trigger_cb}
  Dev = sensor_dev
  NULL = NULL
PROPERTY
  EveryAlarmCalls
