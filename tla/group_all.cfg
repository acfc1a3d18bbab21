SPECIFICATION FairSpec
CONSTANTS
  MaxThreads = 3
  MaxExecutions = 2
  MaxTimeOuts = 2
  RunUncontrolled = FALSE
  Creators <- OnlyDriver
  Exits = TRUE
  Raises = TRUE
  Hangs = TRUE
  Slow = FALSE
CHECK_DEADLOCK FALSE
INVARIANTS TypeOK NoAbort EndTokens Isolated MessageHasReader
PROPERTIES CreateReturns SearchEnds
