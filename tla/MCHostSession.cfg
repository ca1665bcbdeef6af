SPECIFICATION FairSpec
CONSTANTS
  BUF_SIZE = 4
  WORD = 2
  Programs <- MCPrograms
  MaxKeys = 4
  Tasks = {"run_prog", "init_board"}
\* The session and the program both end.
CHECK_DEADLOCK FALSE
INVARIANTS OutputShown InputInOrder HaltedForDebugger CleanEnd
PROPERTY SessionEnds
