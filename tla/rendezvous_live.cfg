SPECIFICATION FairSpec
CONSTANTS
  Main = main
  Threads = {t1, t2}
  NULL = NULL
  Script <- OneUntil
  SutCalls = {"ASSERTION"}
  ScriptThrows = {}
  SpuriousWakeups = FALSE
  SlowHolders = FALSE
  SutMayHang = FALSE
  MaxSem = 4
INVARIANT NoAbort
PROPERTIES
  ScriptTerminates
  ThreadsLeave
