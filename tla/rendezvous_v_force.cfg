SPECIFICATION Spec
CONSTANTS
  Main = main
  Threads = {t1}
  NULL = NULL
  Script <- OneUntil
  SutCalls = {"THREADS_ALLENDED"}
  ScriptThrows = {}
  SpuriousWakeups = FALSE
  SlowHolders = FALSE
  SutMayHang = FALSE
  MaxSem = 4
INVARIANT LockAsserts
