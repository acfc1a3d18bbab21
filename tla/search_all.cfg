SPECIFICATION FairSpec
CONSTANTS
  t1 = t1
  t2 = t2
  Threads = {t1, t2}
  Searches <- AllSearches
  MaxChildren = 3
INVARIANTS
  TypeOK
  SearchComplete
  NoRepeat
  StackIsPath
  NoAbort
PROPERTY SearchEnds
