---------------------------- MODULE SelectServer ----------------------------
(***************************************************************************)
(* The Winsock echo server of Network/tiny_server/main.cpp: one thread     *)
(* that waits in select, then accepts one connection or reads from the     *)
(* sockets select has left in read_fds.  The sets are given to the next    *)
(* select as the last one left them.  Clients connect, send, read what     *)
(* comes back or do not, and go away with a close or an abort whenever     *)
(* they like.                                                              *)
(*                                                                         *)
(* A client's socket is named by the client.  The bytes of a client are    *)
(* pieces; a recv takes up to RecvMax of them, which fill recv_buf.        *)
(***************************************************************************)
EXTENDS Integers, SequencesExt

CONSTANTS
  Clients,
  serv_sock,       \* the listening socket
  INVALID_SOCKET,  \* what accept returns for a connection that is gone
  FD_SETSIZE,      \* places in an fd_set (64 in Winsock)
  RecvMax,         \* pieces that fill recv_buf (1024 bytes)
  SendRoom,        \* pieces on their way back to a client that the buffers hold
  MaxPieces,       \* bound: how many pieces of each client are told apart
  HasZero          \* the pieces that contain a 0 byte, at their front

ASSUME SelectServerAssumption ==
  /\ serv_sock \notin Clients /\ INVALID_SOCKET \notin Clients \cup {serv_sock}
  /\ FD_SETSIZE \in Nat \ {0} /\ RecvMax \in Nat \ {0} /\ SendRoom \in Nat \ {0}
  /\ MaxPieces \in [Clients -> Nat] /\ HasZero \subseteq Nat \ {0}

VARIABLES
  read_fds,         \* the set, as select and the loop leave it
  all_cli_sockets,  \* the vector of accepted sockets
  at,               \* InSelect, or the index of the loop over the vector
  backlog,          \* connections that wait for accept, oldest first
  peer,             \* a client's end: "none", "open", "closed", "aborted"
  sent,             \* how many pieces a client has sent
  inbox,            \* the pieces the server has not read
  unsent,           \* what send has still to pass on to a client
  unread,           \* how many pieces a client has not read
  echoed,           \* what was sent back to a client
  cut,              \* history: an echo was not what was read
  missed            \* history: clients a select has dropped from read_fds

net  == <<backlog, peer, sent, inbox>>
back == <<unsent, unread, echoed, cut>>
vars == <<read_fds, all_cli_sockets, at, net, back, missed>>

InSelect == 0
Garbage  == 0    \* bytes from behind recv_buf
Open     == Range(all_cli_sockets) \ {INVALID_SOCKET}

TypeOK ==
  /\ read_fds \subseteq Open \cup {serv_sock, INVALID_SOCKET}
  /\ Cardinality(read_fds) <= FD_SETSIZE
  /\ all_cli_sockets \in Seq(Clients \cup {INVALID_SOCKET})
  /\ at \in Nat
  /\ Range(backlog) \subseteq Clients
  /\ peer \in [Clients -> {"none", "open", "closed", "aborted"}]
  /\ \A c \in Clients : sent[c] \in 0 .. MaxPieces[c]
  /\ inbox \in [Clients -> Seq(Nat \ {0})]
  /\ echoed \in [Clients -> Seq(Nat)] /\ unsent \in [Clients -> Seq(Nat)]
  /\ unread \in [Clients -> 0 .. SendRoom]
  /\ cut \subseteq Clients /\ missed \subseteq Clients

Init ==
  /\ read_fds = {serv_sock} /\ all_cli_sockets = << >> /\ at = InSelect
  /\ backlog = << >> /\ peer = [c \in Clients |-> "none"]
  /\ sent = [c \in Clients |-> 0] /\ inbox = [c \in Clients |-> << >>]
  /\ unsent = [c \in Clients |-> << >>] /\ unread = [c \in Clients |-> 0]
  /\ echoed = [c \in Clients |-> << >>] /\ cut = {} /\ missed = {}

-----------------------------------------------------------------------------
(* The clients and the network.                                             *)
Connect(c) ==
  /\ peer[c] = "none" /\ peer' = [peer EXCEPT ![c] = "open"]
  /\ backlog' = Append(backlog, c)
  /\ UNCHANGED <<read_fds, all_cli_sockets, at, sent, inbox, back, missed>>

(* A client may send for ever: when all of its pieces have been read and    *)
(* sent back, the numbers start again.                                      *)
Send(c) ==
  /\ peer[c] = "open" /\ MaxPieces[c] > 0
  /\ \/ /\ sent[c] < MaxPieces[c]
        /\ sent' = [sent EXCEPT ![c] = @ + 1]
        /\ inbox' = [inbox EXCEPT ![c] = Append(@, sent[c] + 1)]
        /\ UNCHANGED <<echoed, cut>>
     \/ /\ sent[c] = MaxPieces[c] /\ inbox[c] = << >> /\ unsent[c] = << >>
        /\ sent' = [sent EXCEPT ![c] = 1]
        /\ inbox' = [inbox EXCEPT ![c] = <<1>>]
        /\ echoed' = [echoed EXCEPT ![c] = << >>] /\ cut' = cut \ {c}
  /\ UNCHANGED <<read_fds, all_cli_sockets, at, backlog, peer, unsent, unread, missed>>

Read(c) ==
  /\ peer[c] \in {"open", "closed"} /\ unread[c] > 0
  /\ unread' = [unread EXCEPT ![c] = @ - 1]
  /\ UNCHANGED <<read_fds, all_cli_sockets, at, net, unsent, echoed, cut, missed>>

\* An abort takes away what was not read; the end of a client that has closed
\* may answer an echo with one.
Leave(c) ==
  /\ \/ /\ peer[c] = "open" /\ peer' = [peer EXCEPT ![c] = "closed"]
        /\ UNCHANGED <<inbox, unread>>
     \/ /\ peer[c] \in {"open", "closed"} /\ peer' = [peer EXCEPT ![c] = "aborted"]
        /\ inbox' = [inbox EXCEPT ![c] = << >>]
        /\ unread' = [unread EXCEPT ![c] = 0]
  /\ UNCHANGED <<read_fds, all_cli_sockets, at, backlog, sent, unsent, echoed, cut, missed>>

-----------------------------------------------------------------------------
(* What select finds: a socket is ready when accept or recv has something   *)
(* to return, an end or an error included.                                  *)
Ready(s) == IF s = serv_sock THEN backlog # << >>
            ELSE inbox[s] # << >> \/ peer[s] # "open"

FD_SET(s, fds) == IF Cardinality(fds) < FD_SETSIZE THEN fds \cup {s} ELSE fds

\* An empty set, or one with INVALID_SOCKET, is refused.
Refused == read_fds = {} \/ INVALID_SOCKET \in read_fds

FailsForGood ==   \* mutant: the listening socket is not put back
  /\ at = InSelect /\ Refused
  /\ read_fds' = {}
  /\ missed' = missed \cup (read_fds \cap Clients)
  /\ UNCHANGED <<all_cli_sockets, at, net, back>>

SelectFails ==
  /\ at = InSelect /\ Refused
  /\ read_fds' = FD_SET(serv_sock, {})
  /\ missed' = missed \cup (read_fds \cap Clients)
  /\ UNCHANGED <<all_cli_sockets, at, net, back>>

SelectTimesOut ==
  /\ at = InSelect /\ ~Refused /\ \A s \in read_fds : ~Ready(s)
  /\ read_fds' = {}
  /\ missed' = missed \cup (read_fds \cap Clients)
  /\ UNCHANGED <<all_cli_sockets, at, net, back>>

\* select returns with the ready sockets; in the round in which a connection
\* waits only that is looked at.  PrintSocektInfo changes nothing.
Accept ==
  /\ at = InSelect /\ ~Refused /\ serv_sock \in read_fds /\ backlog # << >>
  /\ LET ready == {s \in read_fds : Ready(s)}
         c     == Head(backlog)
         cli_sock == IF peer[c] = "aborted" THEN INVALID_SOCKET ELSE c
     IN /\ read_fds' = FD_SET(cli_sock, ready)
        /\ all_cli_sockets' = Append(all_cli_sockets, cli_sock)
        /\ missed' = missed \cup (((read_fds \cup {cli_sock}) \ read_fds') \cap Clients)
  /\ backlog' = Tail(backlog)
  /\ UNCHANGED <<at, peer, sent, inbox, back>>

SelectReturns ==
  /\ at = InSelect /\ ~Refused /\ ~(serv_sock \in read_fds /\ Ready(serv_sock))
  /\ \E s \in read_fds : Ready(s)
  /\ read_fds' = {s \in read_fds : Ready(s)}
  /\ missed' = missed \cup ((read_fds \ read_fds') \cap Clients)
  /\ at' = 1
  /\ UNCHANGED <<all_cli_sockets, net, back>>

-----------------------------------------------------------------------------
(* The loop over all_cli_sockets, one element a step.                       *)
Current == all_cli_sockets[at]
AtSocket == at # InSelect /\ at \in DOMAIN all_cli_sockets /\ Current \in read_fds

SkipSocket ==
  /\ at # InSelect /\ at \in DOMAIN all_cli_sockets /\ Current \notin read_fds
  /\ at' = at + 1
  /\ UNCHANGED <<read_fds, all_cli_sockets, net, back, missed>>

\* What HandleData sends back: up to the first 0 byte, and on behind recv_buf
\* when all of it was read into and no 0 stands there.
EchoBuffer(data) == data \o [k \in 1 .. RecvMax - Len(data) |-> Garbage]  \* mutant: sizeof(recv_buf)

Echo(data) ==
  LET zero == {k \in DOMAIN data : data[k] \in HasZero}
  IN IF zero # {} THEN SubSeq(data, 1, Min(zero) - 1)
     ELSE IF Len(data) = RecvMax THEN Append(data, Garbage) ELSE data

HandleClears ==    \* mutant: a socket that was served is taken out of the set
  /\ AtSocket /\ peer[Current] # "aborted"
  /\ read_fds' = read_fds \ {Current}
  /\ at' = at + 1
  /\ UNCHANGED <<all_cli_sockets, net, back, missed>>

\* recv returned data, or 0 when the client has closed: then there is no text
\* to send back and the socket is kept.
HandleData ==
  /\ AtSocket /\ unsent[Current] = << >> /\ peer[Current] # "aborted"
  /\ inbox[Current] # << >> \/ peer[Current] = "closed"
  /\ LET n    == Min({RecvMax, Len(inbox[Current])})
         data == SubSeq(inbox[Current], 1, n)
     IN /\ inbox' = [inbox EXCEPT ![Current] = SubSeq(@, n + 1, Len(@))]
        /\ unsent' = [unsent EXCEPT ![Current] = Echo(data)]
        /\ cut' = IF Echo(data) = data THEN cut ELSE cut \cup {Current}
        /\ at' = IF Echo(data) = << >> THEN at + 1 ELSE at
  /\ UNCHANGED <<read_fds, all_cli_sockets, backlog, peer, sent, unread, echoed, missed>>

\* The socket is blocking: send goes on as the client's reads make room.
Sending == AtSocket /\ unsent[Current] # << >>

SendEcho ==
  /\ Sending /\ peer[Current] # "aborted" /\ unread[Current] < SendRoom
  /\ LET c == Current
     IN /\ echoed' = [echoed EXCEPT ![c] = Append(@, Head(unsent[c]))]
        /\ unread' = [unread EXCEPT ![c] = @ + 1]
        /\ unsent' = [unsent EXCEPT ![c] = Tail(@)]
        /\ at' = IF Tail(unsent[c]) = << >> THEN at + 1 ELSE at
  /\ UNCHANGED <<read_fds, all_cli_sockets, net, cut, missed>>

\* What send returns is not looked at.
SendFails ==
  /\ Sending /\ peer[Current] = "aborted"
  /\ unsent' = [unsent EXCEPT ![Current] = << >>]
  /\ at' = at + 1
  /\ UNCHANGED <<read_fds, all_cli_sockets, net, unread, echoed, cut, missed>>

\* recv failed: the socket is closed and erased, and the element that takes
\* its place is passed over.
ErasedKeepsFd ==   \* mutant: no FD_CLR
  /\ AtSocket /\ peer[Current] = "aborted"
  /\ all_cli_sockets' = RemoveAt(all_cli_sockets, at)
  /\ at' = at + 1
  /\ UNCHANGED <<read_fds, net, back, missed>>

RecvFails ==
  /\ AtSocket /\ unsent[Current] = << >> /\ peer[Current] = "aborted"
  /\ read_fds' = read_fds \ {Current}
  /\ all_cli_sockets' = RemoveAt(all_cli_sockets, at)
  /\ at' = at + 1
  /\ UNCHANGED <<net, back, missed>>

LoopEnds ==
  /\ at # InSelect /\ at \notin DOMAIN all_cli_sockets
  /\ at' = InSelect
  /\ UNCHANGED <<read_fds, all_cli_sockets, net, back, missed>>

DoLoopIO == \/ SelectFails \/ SelectTimesOut \/ Accept \/ SelectReturns
            \/ SkipSocket \/ HandleData \/ SendEcho \/ SendFails \/ RecvFails \/ LoopEnds

Next == DoLoopIO \/ \E c \in Clients : Connect(c) \/ Send(c) \/ Read(c) \/ Leave(c)

Spec == Init /\ [][Next]_vars

(* The thread goes on when it can: select returns, after its timeout at the *)
(* latest, and the sockets it reads from are ready; send waits for room.    *)
(* The clients owe nothing.                                                 *)
FairSpec == Spec /\ WF_vars(DoLoopIO)

-----------------------------------------------------------------------------
(* Only select takes a client that is connected out of the set, because it  *)
(* was silent when select returned, or select was refused, or the set was   *)
(* full: the loop loses none, the one it passes over behind an erased       *)
(* element included.  A client that was dropped never comes back.           *)
DroppedOnlyBySelect ==
  \A c \in Clients : c \in Open => (c \in read_fds <=> c \notin missed)

(* What a client gets back is its own stream, in order and without a gap,   *)
(* unless it sent a 0 byte or filled recv_buf; then pieces may be left out, *)
(* and bytes from behind the buffer follow a full one, but nothing comes    *)
(* twice, out of order or from another client.                              *)
EchoIsOwnStream ==
  \A c \in Clients :
    /\ \A j, k \in DOMAIN echoed[c] :
         j < k /\ Garbage \notin {echoed[c][j], echoed[c][k]} => echoed[c][j] < echoed[c][k]
    /\ \A k \in DOMAIN echoed[c] : echoed[c][k] <= sent[c] - Len(inbox[c])
    /\ c \notin cut /\ peer[c] # "aborted" =>
         echoed[c] \o unsent[c] \o inbox[c] = [k \in 1 .. sent[c] |-> k]
    /\ \A k \in DOMAIN echoed[c] : echoed[c][k] = Garbage =>
         k > RecvMax /\ \A j \in k - RecvMax .. k - 1 : echoed[c][j] # Garbage

(* The thread waits in send for a client that does not read.                *)
Blocked == Sending /\ peer[Current] # "aborted" /\ unread[Current] = SendRoom

(* Unless a client that does not read holds the thread for ever, it serves  *)
(* on: no piece of a client stays unread for ever, unless a select drops    *)
(* the client; and nobody waits for accept for ever, unless select, which   *)
(* watches serv_sock no more, never times out, since watched clients send   *)
(* again and again or have closed.                                          *)
NobodyWaitsForEver ==
  \/ <>[]Blocked
  \/ /\ \A c \in Clients : \A k \in 1 .. MaxPieces[c] :
          []<>~(c \in read_fds /\ k \in Range(inbox[c]))
     /\ \/ []<>(backlog = << >>)
        \/ /\ <>[](serv_sock \notin read_fds)
           /\ []<>(\E c \in Clients :
                     c \in read_fds /\ (inbox[c] # << >> \/ peer[c] = "closed"))

=============================================================================
