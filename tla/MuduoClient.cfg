CONSTANTS
  Clients <- MCClients
  MaxRounds = 1
  MaxPings <- MCMaxPings
SPECIFICATION FairSpec
INVARIANTS
  TypeOK
  StreamsAgree
  PushesReachAll
PROPERTIES
  DisconnectCompletes
CHECK_DEADLOCK FALSE
