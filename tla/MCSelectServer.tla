---------------------------- MODULE MCSelectServer ----------------------------
(* Three clients.  The first sends enough to fill recv_buf, and then a piece *)
(* that contains a 0 byte; the second sends one piece at a time, the third   *)
(* none.                                                                     *)
EXTENDS SelectServer

CONSTANTS c1, c2, c3

MCClients == {c1, c2, c3}
MCPieces  == [c \in MCClients |-> CASE c = c1 -> 3 [] c = c2 -> 1 [] c = c3 -> 0]
===============================================================================
