CONSTANTS
  a = a
  b = b
  Tests <- MCTests
  Warn = 2
  Kill = 3
  AutoForceStop = TRUE
  Gaps = {1, 2}
  Crashable = {b}
SPECIFICATION FairSpec
PROPERTIES
  
  
  WedgeIsFlagged
