SPECIFICATION FairSpec
CONSTANTS
  Clients = {c1}
  MaxTid = 1
  MaxNotices = 1
  EndTiming = "quiet"
  None = None
PROPERTY CommandsReturn
CHECK_DEADLOCK FALSE
