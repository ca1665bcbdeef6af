SPECIFICATION FairSpec
CONSTANTS
  SIZE = 2
  Blocks = 3
  Writes <- MCWrites
  Data <- MCData
  InitialMem <- MCInitialMem
  MaxInFlight = 2
INVARIANTS WaitingHasRead ReadsLatestUnlessForgot
PROPERTY RequestServed
