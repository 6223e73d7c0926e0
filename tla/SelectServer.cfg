CONSTANTS
  c1 = c1
  c2 = c2
  c3 = c3
  Clients <- MCClients
  serv_sock = serv_sock
  INVALID_SOCKET = INVALID_SOCKET
  FD_SETSIZE = 3
  RecvMax = 2
  SendRoom = 1
  MaxPieces <- MCPieces
  HasZero = {3}
SPECIFICATION FairSpec
INVARIANTS
  TypeOK
  DroppedOnlyBySelect
  EchoIsOwnStream
PROPERTIES
  NobodyWaitsForEver
CHECK_DEADLOCK FALSE
