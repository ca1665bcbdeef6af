SPECIFICATION Spec
CONSTANTS
  SIZE = 2
  Blocks = 4
  Writes <- MCWrites
  Data <- MCData
  InitialMem <- MCInitialMem
  MaxInFlight = 3
INVARIANT ReadsLatest
