-------------------------- MODULE SyncBlockedClient --------------------------
(***************************************************************************)
(* SyncBlockedClinet of Network/sync_block_client against a Service.  One  *)
(* thread calls SendAndRecv, which connects when m_IsConnected is false,   *)
(* sends, and tries recv up to three times under SO_RCVTIMEO.  The server  *)
(* may answer at any time, also after the client has given up; an answer   *)
(* may be split (perPkgSizeLimit, TCP) or joined with the next, and so may *)
(* a request, which send() may also have passed on only in part.           *)
(*                                                                         *)
(* Socket descriptors are numbered in the order socket() returns them.     *)
(***************************************************************************)
EXTENDS Service, FiniteSets

CONSTANTS
  tryTimes,        \* recv attempts per call (3 in the code)
  PerPkgLimit,     \* pieces that fit in m_CachedBuff
  MaxRequests,     \* bound: requests sent
  MaxSockets       \* bound: sockets created; Links = 1 .. MaxSockets

ASSUME SyncAssumption ==
  /\ tryTimes \in Nat \ {0} /\ PerPkgLimit \in Nat \ {0}
  /\ MaxRequests \in Nat /\ MaxSockets \in Nat
  /\ Links = 1 .. MaxSockets
  /\ Pieces \in [Kinds -> Nat \ {0}] /\ "other" \in Kinds
  /\ Parts \in Nat \ {0} /\ Mark \in [Kinds -> SUBSET (1 .. Parts)]

VARIABLES
  m_Socket,        \* the descriptor, 0 stands for -1
  m_IsConnected,
  open,            \* descriptors of this client that are not closed
  created,         \* sockets created so far
  made,            \* the sockets that have been connected
  pc,              \* "idle", "create" and "connect" (CreateConnect called by
                   \* the owner, by SendAndRecv), "send", "recv", "gone"
  tries,           \* loop counter of RecvData
  calling,         \* the request of the current call: its number and kind
  answer,          \* what the last call returned, until the next
  sent,            \* history: how many pieces of the request went out, and
                   \* the Lag of the connection before them
  lost,            \* history: calls per link that left its answer unread
  refused,         \* history: CreateConnect calls that failed with a socket
  again            \* history: CreateConnect calls made while connected

socketVars == <<m_Socket, m_IsConnected, open, created, made>>
historyVars == <<sent, lost, refused, again>>
clientVars == <<socketVars, pc, tries, calling, answer, historyVars>>
vars == <<serverVars, clientVars>>

(* How many answers of a connection may be ahead of the ones that calls have  *)
(* taken: of each call that left its own, and of each request read in two.    *)
Lag(l) == lost[l] + cuts[l]

NoAnswer == [ok |-> FALSE, data |-> << >>, whole |-> FALSE]
Unsent == [parts |-> 0, lag |-> 0]

Init ==
  /\ request = [l \in Links |-> << >>] /\ response = [l \in Links |-> << >>]
  /\ cuts = [l \in Links |-> 0] /\ up = {}
  /\ m_Socket = 0 /\ m_IsConnected = FALSE /\ open = {} /\ created = 0 /\ made = {}
  /\ pc = "idle" /\ tries = 0
  /\ calling = [req |-> 0, kind |-> "other"]
  /\ answer = NoAnswer /\ sent = Unsent
  /\ lost = [l \in Links |-> 0] /\ refused = 0 /\ again = 0

-----------------------------------------------------------------------------
Forget == answer' = NoAnswer /\ sent' = Unsent

(* CreateConnect by the owner (main.cpp), connected or not, and             *)
(* SendAndRecv's entry.                                                     *)
CallCreateConnect ==
  /\ pc = "idle"
  /\ pc' = "create"
  /\ again' = IF m_IsConnected /\ m_Socket # 0 THEN again + 1 ELSE again
  /\ Forget
  /\ UNCHANGED <<serverVars, socketVars, tries, calling, lost, refused>>

CallSendAndRecv ==
  /\ pc = "idle" /\ calling.req < MaxRequests
  /\ \E kind \in Kinds : calling' = [req |-> calling.req + 1, kind |-> kind]
  /\ pc' = IF m_IsConnected THEN "send" ELSE "connect"
  /\ Forget
  /\ UNCHANGED <<serverVars, socketVars, tries, lost, refused, again>>

\* SendAndRecv returns {false, ...}; `left' is 1 when an answer is still due.
ReturnError(left) ==
  /\ Forget
  /\ lost' = IF m_Socket = 0 THEN lost ELSE [lost EXCEPT ![m_Socket] = @ + left]
  /\ pc' = "idle" /\ tries' = 0

\* m_Socket becomes -1; what it was stays open, and m_IsConnected as it was.
SocketFails ==
  /\ pc \in {"create", "connect"}
  /\ m_Socket' = 0
  /\ pc' = "idle"
  /\ UNCHANGED <<serverVars, m_IsConnected, open, created, made, tries, calling, answer,
                 historyVars>>

\* inet_pton or connect() fails: the new descriptor stays in m_Socket, open.
ConnectFails ==
  /\ pc \in {"create", "connect"} /\ created < MaxSockets
  /\ created' = created + 1
  /\ m_Socket' = created' /\ open' = open \cup {created'}
  /\ refused' = refused + 1
  /\ pc' = "idle"
  /\ UNCHANGED <<serverVars, m_IsConnected, made, tries, calling, answer, sent, lost, again>>

ConnectSucceeds ==
  /\ pc \in {"create", "connect"} /\ created < MaxSockets
  /\ created' = created + 1
  /\ m_Socket' = created' /\ open' = open \cup {created'}
  /\ m_IsConnected' = TRUE
  /\ up' = up \cup {created'} /\ made' = made \cup {created'}
  /\ pc' = IF pc = "create" THEN "idle" ELSE "send"
  /\ UNCHANGED <<request, response, cuts, tries, calling, answer, historyVars>>

\* connect() that failed by SO_SNDTIMEO goes on in the kernel; it matters on m_Socket.
ConnectsLate ==
  /\ m_Socket \in open \ made
  /\ up' = up \cup {m_Socket} /\ made' = made \cup {m_Socket}
  /\ UNCHANGED <<request, response, cuts, m_Socket, m_IsConnected, open, created, pc, tries,
                 calling, answer, historyVars>>

-----------------------------------------------------------------------------
FirstPieces(n) ==
  [p \in 1 .. n |-> [req |-> calling.req, kind |-> calling.kind, part |-> p]]

(* send() that returns anything but -1: SO_SNDTIMEO may end it with only a  *)
(* part of the request passed on.  After the peer has gone the first send   *)
(* can still succeed, into the void.                                        *)
Transmit(n) ==
  /\ request' = IF m_Socket \in up THEN [request EXCEPT ![m_Socket] = @ \o FirstPieces(n)]
                ELSE request
  /\ sent' = [parts |-> n, lag |-> Lag(m_Socket)]
  /\ pc' = "recv"

SendSucceeds ==
  /\ pc = "send" /\ m_Socket \in made
  /\ \E n \in 1 .. Parts : Transmit(n)
  /\ UNCHANGED <<response, cuts, up, socketVars, tries, calling, answer, lost, refused, again>>

\* send() returns -1 (EAGAIN, EPIPE, EBADF): CloseConnection is commented out.
SendFails ==
  /\ pc = "send"
  /\ ReturnError(0)
  /\ UNCHANGED <<serverVars, socketVars, calling, refused, again>>

RecvSucceeds ==
  /\ pc = "recv"
  /\ \E n \in 1 .. PerPkgLimit :
       /\ n <= Len(response[m_Socket])
       /\ LET data == SubSeq(response[m_Socket], 1, n)
              own == data[n].req = calling.req /\ data[n].last
          IN /\ answer' = [ok |-> TRUE, data |-> data,
                           whole |-> sent = [parts |-> Parts, lag |-> Lag(m_Socket)]]
             /\ lost' = IF own THEN lost ELSE [lost EXCEPT ![m_Socket] = @ + 1]
       /\ response' = [response EXCEPT ![m_Socket] = SubSeq(@, n + 1, Len(@))]
  /\ pc' = "idle" /\ tries' = 0
  /\ UNCHANGED <<request, cuts, up, socketVars, calling, sent, refused, again>>

NothingToRead == pc = "recv" /\ response[m_Socket] = << >> /\ m_Socket \in up

RecvTriesForever ==      \* mutant: a timeout does not count as an attempt
  /\ NothingToRead
  /\ UNCHANGED vars

TimesOut(goOn) ==      \* EAGAIN: sleep 50ms, try again or give up
  /\ NothingToRead
  /\ IF goOn THEN tries' = tries + 1 /\ UNCHANGED <<pc, answer, sent, lost>> ELSE ReturnError(1)
  /\ UNCHANGED <<serverVars, socketVars, calling, refused, again>>

RecvTriesOnceMore == TimesOut(tries < tryTimes)     \* mutant: an off-by-one

RecvTimesOut == TimesOut(tries + 1 < tryTimes)

\* recv() returns 0 or ECONNRESET, and what had not arrived never will; here too
\* CloseConnection is commented out.
RecvFails ==
  /\ pc = "recv" /\ m_Socket \notin up
  /\ ReturnError(1)
  /\ response' = [response EXCEPT ![m_Socket] = << >>]
  /\ UNCHANGED <<request, cuts, up, socketVars, calling, refused, again>>

-----------------------------------------------------------------------------
CloseKeepsDescriptor ==  \* mutant: forgets ::close
  /\ pc = "idle"
  /\ m_IsConnected' = FALSE /\ m_Socket' = 0 /\ Forget
  /\ UNCHANGED <<serverVars, open, created, made, pc, tries, calling, lost, refused, again>>

\* ::close(m_Socket), which fails when m_Socket is -1: unread bytes are dropped.
CloseSocket ==
  /\ open' = open \ {m_Socket} /\ up' = up \ {m_Socket}
  /\ request' = [l \in Links |-> IF l = m_Socket THEN << >> ELSE request[l]]
  /\ response' = [l \in Links |-> IF l = m_Socket THEN << >> ELSE response[l]]

CloseConnection ==
  /\ pc = "idle"
  /\ CloseSocket
  /\ m_IsConnected' = FALSE /\ m_Socket' = 0 /\ Forget
  /\ UNCHANGED <<cuts, created, made, pc, tries, calling, lost, refused, again>>

Destroy ==               \* ~SyncBlockedClinet closes the descriptor it knows
  /\ pc = "idle"
  /\ CloseSocket
  /\ pc' = "gone" /\ Forget
  /\ UNCHANGED <<cuts, m_Socket, m_IsConnected, created, made, tries, calling, lost, refused,
                 again>>

InCall ==
  \/ SocketFails \/ ConnectFails \/ ConnectSucceeds \/ SendSucceeds \/ SendFails
  \/ RecvSucceeds \/ RecvTimesOut \/ RecvFails

Server ==               \* followed for as long as there is a client
  /\ pc # "gone"
  /\ \E l \in Links : OnMessage(l) \/ PeerCloses(l)
  /\ UNCHANGED clientVars

Next ==
  \/ CallCreateConnect \/ CallSendAndRecv \/ InCall \/ CloseConnection \/ Destroy
  \/ Server \/ ConnectsLate

Spec == Init /\ [][Next]_vars

(* connect, send and recv return: they have the kernel's or SO_*TIMEO's     *)
(* deadline (m_Timeout > 0).  The server owes nothing.                      *)
FairSpec == Spec /\ WF_vars(InCall)

-----------------------------------------------------------------------------
Request == [req : 1 .. calling.req, kind : Kinds, part : 1 .. Parts]
Piece   == [req : 1 .. calling.req, kind : Kinds, last : BOOLEAN]

TypeOK ==
  /\ m_Socket \in 0 .. created /\ created \in 0 .. MaxSockets
  /\ m_IsConnected \in BOOLEAN /\ open \subseteq 1 .. created
  /\ made \subseteq 1 .. created /\ up \subseteq open \cap made
  /\ pc \in {"idle", "create", "connect", "send", "recv", "gone"}
  /\ tries \in 0 .. tryTimes - 1
  /\ calling \in [req : 0 .. MaxRequests, kind : Kinds]
  /\ sent \in [parts : 0 .. Parts, lag : Nat]
  /\ request \in [Links -> Seq(Request)] /\ response \in [Links -> Seq(Piece)]
  /\ cuts \in [Links -> Nat] /\ lost \in [Links -> Nat]
  /\ refused \in Nat /\ again \in Nat

(* On a connection where every earlier call took the whole of its answer    *)
(* and no request was read in two, SendAndRecv returns (a part of) answers  *)
(* to its own request; when that went out whole and was read at once, they  *)
(* are of the kind it asked for, else they may be the error response to a   *)
(* text that does not show its type.                                        *)
AnswerIsOwn ==
  answer.ok /\ sent.lag = 0 =>
    \A k \in DOMAIN answer.data :
      LET kind == IF calling.kind \in {Lookup[j] : j \in DOMAIN Lookup} THEN calling.kind ELSE "other"
      IN /\ answer.data[k].req = calling.req
         /\ answer.data[k].kind \in IF answer.whole THEN {kind} ELSE {kind, "other"}

(* The stream gets out of step by at most one answer per call that left its *)
(* own unread and one per request that was read in two: what is still to be *)
(* answered or to be read on the connection never exceeds those and the     *)
(* current call's.                                                          *)
Backlog(l) ==
  Cardinality({request[l][k].req : k \in DOMAIN request[l]})
    + Cardinality({k \in DOMAIN response[l] : response[l][k].last})

BacklogIsLost ==
  \A l \in Links :
    Backlog(l) <= Lag(l) + IF pc = "recv" /\ l = m_Socket THEN 1 ELSE 0

(* A descriptor other than m_Socket stays open only because CreateConnect   *)
(* was called on top of it: after one that failed, or while connected.      *)
OnlyReconnectsLeak == Cardinality(open \ {m_Socket}) <= refused + again

(* A call of SendAndRecv or CreateConnect returns, whatever the server does.*)
CallReturns == pc \notin {"idle", "gone"} ~> pc = "idle"

(* The header's promise: the caller sends a request and waits for its       *)
(* answer before the next, so what SendAndRecv returns answers the request. *)
AnswerMatchesRequest ==
  answer.ok => \A k \in DOMAIN answer.data : answer.data[k].req = calling.req

=============================================================================
