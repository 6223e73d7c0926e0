CONSTANTS
  MaxSends = 3
  MaxChunks = 3
  Endpoints = 2
SPECIFICATION FairSpec
INVARIANTS
  TypeOK
  SentInOrder
  OutputIsStream
PROPERTIES
  QueueDrains
  QuitEnds
CHECK_DEADLOCK FALSE
