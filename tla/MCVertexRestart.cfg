SPECIFICATION Spec
CONSTANTS
  LastId = 1
  FIFO_DEPTH = 2
  MaxFrames = 2
  Restarts = TRUE
INVARIANT RestartDrawsTheFrame
