SPECIFICATION FairResetSpec
CONSTANTS
  Settings <- MCSettings
  RxFifoLen = 6
INVARIANTS
  TypeOK
  QuietMeansApplied
  OnlyAskedFor
PROPERTIES
  SettingIsApplied
  ImplementsChannel
