SPECIFICATION FloodSpec
CONSTANTS
  Settings <- MCTwo
  RxFifoLen = 7
INVARIANT
  OnlyAskedFor
