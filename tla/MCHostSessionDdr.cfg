SPECIFICATION FairSpec
CONSTANTS
  BUF_SIZE = 4
  WORD = 2
  Programs <- MCPrograms
  MaxKeys = 0
  Tasks = {"init_board"}
CHECK_DEADLOCK FALSE
INVARIANT CalibrationAnnounced
