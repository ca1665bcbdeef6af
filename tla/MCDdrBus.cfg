SPECIFICATION BusSpec
CONSTANTS
  N = 3
  MaxOutstanding = 2
  Addr <- MCAddr
  Anc <- MCAnc
  Request <- MCRequest
  Fickle = {1}
  REQBUF_SIZE = 2
  BlkAddr = {0, 1}
  LowLanes = {0}
  HighLanes = {1, 2}
  Byte16 = 1
  Val <- MCVal
  Junk = 8
  BlkAnc = {1, 2}
  BlkRequest <- MCBlkRequest
  InitialMem <- MCInitialMem
INVARIANTS RouteMatchesDevice HalvesAddUp
PROPERTIES AnswerReachesSender ImplementsBus ImplementsMemory
