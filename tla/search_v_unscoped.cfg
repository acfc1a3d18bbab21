SPECIFICATION Spec
CONSTANTS
  t1 = t1
  t2 = t2
  Threads = {t1, t2}
  Searches <- UnscopedSearches
  MaxChildren = 3
INVARIANT ForallTried
