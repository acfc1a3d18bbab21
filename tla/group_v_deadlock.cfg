SPECIFICATION FairSpec
CONSTANTS
  MaxThreads = 2
  MaxExecutions = 1
  MaxTimeOuts = 2
  RunUncontrolled = FALSE
  Creators <- OnlyDriver
  Exits = FALSE
  Raises = FALSE
  Hangs = TRUE
  Slow = FALSE
CHECK_DEADLOCK FALSE
PROPERTIES JoinAllReturns
