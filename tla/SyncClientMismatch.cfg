CONSTANTS
  Links <- MCLinks
  Pieces <- MCWhole
  Parts = 1
  Mark <- MCMark
  tryTimes = 3
  PerPkgLimit = 2
  MaxRequests = 3
  MaxSockets = 2
SPECIFICATION FairSpec
INVARIANTS
  AnswerMatchesRequest
CHECK_DEADLOCK FALSE
