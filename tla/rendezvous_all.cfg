SPECIFICATION Spec
CONSTANTS
  Main = main
  Threads = {t1, t2}
  NULL = NULL
  Script <- AllKinds
  SutCalls = {"ASSERTION", "SEARCH_ENDS"}
  ScriptThrows = {"ASSERTION", "SEARCH_ENDS", "ASSUME_FAILS"}
  SpuriousWakeups = TRUE
  SlowHolders = TRUE
  SutMayHang = TRUE
  MaxSem = 4
INVARIANTS
  TypeOK
  LockExclusion
  LockAsserts
  ScriptInStep
  NoSleepOnReadyRef
PROPERTIES
  EndIsFinal
  ImplementsMailbox
