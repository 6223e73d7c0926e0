CONSTANTS
  t1 = t1
  t2 = t2
  t3 = t3
  t4 = t4
  c1 = c1
  c2 = c2
  c3 = c3
  c4 = c4
  Threads = {t1, t2, t3, t4}
  Conns = {c1, c2, c3, c4}
  NoThread = NoThread
  NULL = NULL
  MAX_CONN_NUM = 3
  MaxTime = 1
SPECIFICATION Spec
SYMMETRY Symmetry
INVARIANTS
  TypeOK
  ExclusiveOwnership
  OnlyCreateLeaks
  ScanCoversPool
PROPERTIES
  LifoButForSwap
  Implements
  ScanProgress
CHECK_DEADLOCK FALSE
