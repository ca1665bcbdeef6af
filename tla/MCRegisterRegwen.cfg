CONSTANTS
  Descriptions <- MCDescriptions
  Keywords <- MCKeywords
  BadInt = BadInt
  MaxEntries = 2
SPECIFICATION Spec
INVARIANT RegwenErrorReported
