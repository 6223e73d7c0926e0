CONSTANTS
  Links <- MCLinks
  Pieces <- MCPieces
  Parts = 2
  Mark <- MCMark
  tryTimes = 3
  PerPkgLimit = 2
  MaxRequests = 3
  MaxSockets = 2
SPECIFICATION FairSpec
INVARIANTS
  TypeOK
  AnswerIsOwn
  BacklogIsLost
  OnlyReconnectsLeak
PROPERTIES
  CallReturns
CHECK_DEADLOCK FALSE
