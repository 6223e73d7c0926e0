------------------------- MODULE MCSyncBlockedClient -------------------------
(* A heartbeat, whose type may be cut in two and whose answer fills the     *)
(* buffer, and a request that the server does not know.                     *)
EXTENDS SyncBlockedClient

MCLinks == 1 .. 2
MCPieces == [k \in {"6031", "other"} |-> IF k = "6031" THEN 2 ELSE 1]
MCMark == [k \in DOMAIN MCPieces |-> 1 .. Parts]

\* Every answer fits in one recv.
MCWhole == [k \in DOMAIN MCPieces |-> 1]

=============================================================================
