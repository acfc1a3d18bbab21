SPECIFICATION FairSpec
CONSTANTS
  Clients = {c1}
  MaxTid = 2
  MaxNotices = 2
  EndTiming = "any"
  None = None
INVARIANTS TypeOK NoAbort OneMessage
PROPERTY EveryoneReturns
CHECK_DEADLOCK FALSE
