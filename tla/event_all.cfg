SPECIFICATION Spec
CONSTANTS
  t1 = t1  t2 = t2
  fun = fun  mem = mem
  tv1 = tv1  tv2 = tv2
  av1 = av1  av2 = av2
  NULL = NULL
  Threads = {t1, t2}
  Funcs = {fun}
  Addrs = {mem}
  Values = {1, 2}
  Pcs = {1}
  Vars = {tv1, tv2}
  Names = {av1, av2}
  Script <- MCScript
  EndsTwice = FALSE
  NoTarget = FALSE
  Programs <- MCPrograms
SYMMETRY Symmetry
INVARIANTS
  TypeOK
  NoAbort
  OwnEventExact
  InFuncExact
PROPERTIES
  SelectedStays
  BoundToArgument
