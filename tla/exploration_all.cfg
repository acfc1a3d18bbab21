CONSTANTS
  NumScenarios = 2
  ExistsTests = {2}
  Paths = 2
  Settings <- AllSettings
  Hangs = {"driver", "worker"}
  MaxStarts = 1
  SlowStart = FALSE
  Signals = {"SIGTERM", "SIGINT"}
SPECIFICATION FairSpec
INVARIANTS TypeOK NoAbort ScriptAfterStart CleanStart LibraryInUse SearchedAll
PROPERTIES SuiteEnds
CHECK_DEADLOCK FALSE
