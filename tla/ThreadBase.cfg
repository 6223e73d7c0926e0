CONSTANTS
  a = a
  b = b
  Callers = {a, b}
  Owner = a
  MaxLoops = 3
  NoLoop = NoLoop
SPECIFICATION FairSpec
INVARIANTS
  TypeOK
  EveryLoopHasHandle
PROPERTIES
  StopEndsLoop
CHECK_DEADLOCK FALSE
