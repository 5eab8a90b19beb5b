SPECIFICATION FairNodeResetSpec
CONSTANTS
  Settings <- MCTwo
  RxFifoLen = 6
PROPERTY
  SettingSurvivesReset
