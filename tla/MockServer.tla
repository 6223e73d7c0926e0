------------------------------ MODULE MockServer ------------------------------
(***************************************************************************)
(* MockServer of Network/muduo_server/MockJsdServer.h seen from its TCP    *)
(* connections.  OnConnection and OnMessage run on the I/O thread that     *)
(* setThreadNum(1) asks for, OnTimer on the main loop: it walks m_Conns,   *)
(* which OnConnection changes, without a lock.  The two byte streams of a  *)
(* connection are kept whole, with the places their readers have reached.  *)
(***************************************************************************)
EXTENDS Integers, FiniteSets, SequencesExt

CONSTANTS
  Clients,     \* the connections, numbered in the order of their names
  MaxRounds    \* bound: times OnTimer runs

ASSUME ClientsAssumption == IsFiniteSet(Clients) /\ Clients = 1 .. Cardinality(Clients)
ASSUME RoundsAssumption == MaxRounds \in Nat

VARIABLES
  wire,        \* the client's end: "none", "open", "fin" (shut down), "reset" (closed)
  sent, got,   \* what the client has sent, and how much OnMessage has taken
  back,        \* what the server has sent
  serv,        \* the server's end: "none", "up", "closed"
  m_Conns,
  rounds,      \* runs of OnTimer that have begun
  cursor,      \* the element OnTimer's loop has reached, -1 outside the loop
  ioQueue,     \* pushes OnTimer has queued for the I/O thread
  torn,        \* history: OnTimer's walk has lost its way in a map that changed
  dead,        \* the server process has died of it
  cut,         \* history: where a read ended inside a ping
  joined       \* history: the last round whose walk had passed c when it came

serverVars == <<got, back, serv, m_Conns, rounds, cursor, ioQueue, torn, dead, cut, joined>>

\* "pi" and "ng" are the two parts of "This is ping msg" that a read may separate.
HasPing(batch) ==
  \E k \in 1 .. Len(batch) - 1 : batch[k].kind = "pi" /\ batch[k + 1].kind = "ng"

\* m_Conns changes while OnTimer walks it, which is a data race: the iterator may
\* survive (a std::map moves no nodes), end its walk early, or kill the process.
Race ==
  \/ UNCHANGED <<cursor, torn, dead>>
  \/ cursor # -1 /\ cursor' = -1 /\ torn' = TRUE /\ UNCHANGED dead
  \/ cursor # -1 /\ dead' = TRUE /\ UNCHANGED <<cursor, torn>>

\* The last run of OnTimer whose walk is past c.
Passed(c) == IF cursor # -1 /\ c > cursor THEN rounds - 1 ELSE rounds

OnConnectionUp(c) ==
  /\ serv[c] = "none" /\ wire[c] # "none"
  /\ serv' = [serv EXCEPT ![c] = "up"]
  /\ m_Conns' = m_Conns \cup {c}
  /\ joined' = [joined EXCEPT ![c] = Passed(c)]
  /\ Race
  /\ UNCHANGED <<got, back, rounds, ioQueue, cut>>

\* A bug: the entry survives its connection.
EraseForgotten(c) == m_Conns' = m_Conns

Erase(c) == m_Conns' = m_Conns \ {c}

\* A bug: only the end of the stream is taken for a leave, not a failed read.
LeftAtEndOnly(c) == wire[c] = "fin" /\ got[c] = Len(sent[c])

\* The read that returns 0 or an error; nothing is read after it.
Left(c) == (wire[c] = "fin" /\ got[c] = Len(sent[c])) \/ wire[c] = "reset"

OnConnectionDown(c) ==
  /\ serv[c] = "up" /\ Left(c)
  /\ serv' = [serv EXCEPT ![c] = "closed"]
  /\ Erase(c)
  /\ Race
  /\ UNCHANGED <<got, back, rounds, ioQueue, cut, joined>>

\* A bug: only a batch that is a ping and nothing else is answered.
EchoOfPingAlone(batch) == IF HasPing(batch) /\ Len(batch) = 2 THEN batch ELSE << >>

\* A batch with a ping in it goes back whole, any other is dropped.
Echo(batch) == IF HasPing(batch) THEN batch ELSE << >>

OnMessage(c) ==
  /\ serv[c] = "up"
  /\ \E n \in got[c] + 1 .. Len(sent[c]) :    \* the bytes that have arrived
       /\ got' = [got EXCEPT ![c] = n]
       /\ cut' = IF sent[c][n].kind = "pi" THEN [cut EXCEPT ![c] = @ \cup {n}] ELSE cut
       /\ back' = [back EXCEPT ![c] = @ \o Echo(SubSeq(sent[c], got[c] + 1, n))]
  /\ UNCHANGED <<serv, m_Conns, rounds, cursor, ioQueue, torn, dead, joined>>

OnTimer ==
  /\ cursor = -1 /\ rounds < MaxRounds
  /\ rounds' = rounds + 1 /\ cursor' = 0
  /\ UNCHANGED <<got, back, serv, m_Conns, ioQueue, torn, dead, cut, joined>>

Ahead == {c \in m_Conns : c > cursor}

\* A bug: the walk starts behind the first connection.
NextSkipsFirst(c) == c \in Ahead /\ \A d \in Ahead : c <= d /\ c # 1

NextOf(c) == c \in Ahead /\ \A d \in Ahead : c <= d

\* send() called from another thread queues the text for the I/O thread.
Push(c) ==
  /\ cursor # -1 /\ NextOf(c)
  /\ cursor' = c
  /\ ioQueue' = Append(ioQueue, [to |-> c, n |-> rounds])
  /\ UNCHANGED <<got, back, serv, m_Conns, rounds, torn, dead, cut, joined>>

PushEnds ==
  /\ cursor # -1 /\ \A c \in Clients : ~NextOf(c)
  /\ cursor' = -1
  /\ UNCHANGED <<got, back, serv, m_Conns, rounds, ioQueue, torn, dead, cut, joined>>

\* sendInLoop writes, or gives up on a connection that is closed.
RunPush ==
  /\ ioQueue # << >>
  /\ ioQueue' = Tail(ioQueue)
  /\ LET push == Head(ioQueue)
     IN back' = IF serv[push.to] # "up" THEN back
                ELSE [back EXCEPT ![push.to] = Append(@, [kind |-> "push", n |-> push.n])]
  /\ UNCHANGED <<got, serv, m_Conns, rounds, cursor, torn, dead, cut, joined>>

IoThread == (\E c \in Clients : OnConnectionUp(c) \/ OnConnectionDown(c) \/ OnMessage(c)) \/ RunPush

MainLoop == OnTimer \/ (\E c \in Clients : Push(c)) \/ PushEnds
===============================================================================
