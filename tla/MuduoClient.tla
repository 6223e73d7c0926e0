----------------------------- MODULE MuduoClient ------------------------------
(***************************************************************************)
(* Client of Network/muduo_client/Client.h as two_loop_test.cpp uses it:   *)
(* the main thread makes the clients, sends, closes and deletes them, with *)
(* sleeps in between that bound nothing from above, while the one loop     *)
(* thread they share runs their callbacks and the calls other threads have *)
(* queued.  Main then returns, which quits the loop whatever is queued, and *)
(* the end of the process closes what is open.  OnResponse only prints.    *)
(* The other end is MockServer.                                            *)
(***************************************************************************)
EXTENDS MockServer

CONSTANT MaxPings     \* bound: MaxPings[c]: times the timer of c fires

ASSUME PingsAssumption == MaxPings \in [Clients -> Nat]
ASSUME SomeClient == Clients # {}

VARIABLES
  phase, next,  \* main(): what it does, and to which client
  object,       \* "none", "alive", "deleted"
  link,         \* "none", "connecting", "up", "closing" (shutdown asked), "down"
  pending,      \* calls queued for the loop thread
  quitting,     \* quit_: the loop has been told to quit
  looping,      \* the loop runs
  pings         \* times each timer has fired

clientVars == <<phase, next, object, link, pending, quitting, looping, pings>>
vars == <<wire, sent, serverVars, clientVars>>

Phases == <<"new", "send", "close", "delete", "quit">>

\* main() returns, joins the loop thread, and the process has ended or crashed.
LastPhases == {"return", "join", "end", "crash"}

Calls == {"send", "shutdown", "forceClose"}

Kinds == {"hello", "msg", "pi", "ng"}

TypeOK ==
  /\ wire \in [Clients -> {"none", "open", "fin", "reset"}]
  /\ sent \in [Clients -> Seq([kind : Kinds, n : Nat])]
  /\ back \in [Clients -> Seq([kind : Kinds \cup {"push"}, n : Nat])]
  /\ \A c \in Clients : got[c] \in 0 .. Len(sent[c])
  /\ serv \in [Clients -> {"none", "up", "closed"}]
  /\ m_Conns = {c \in Clients : serv[c] = "up"}
  /\ rounds \in 0 .. MaxRounds /\ cursor \in Clients \cup {-1, 0}
  /\ ioQueue \in Seq([to : Clients, n : 1 .. MaxRounds])
  /\ torn \in BOOLEAN /\ dead \in BOOLEAN
  /\ cut \in [Clients -> SUBSET Nat] /\ joined \in [Clients -> 0 .. MaxRounds]
  /\ phase \in Range(Phases) \cup LastPhases /\ next \in Clients
  /\ object \in [Clients -> {"none", "alive", "deleted"}]
  /\ link \in [Clients -> {"none", "connecting", "up", "closing", "down"}]
  /\ pending \in Seq([call : Calls, to : Clients] \cup {[call |-> "quit"]})
  /\ quitting \in BOOLEAN /\ looping \in BOOLEAN
  /\ \A c \in Clients : pings[c] \in 0 .. MaxPings[c]

Init ==
  /\ wire = [c \in Clients |-> "none"]
  /\ sent = [c \in Clients |-> << >>] /\ got = [c \in Clients |-> 0]
  /\ back = [c \in Clients |-> << >>]
  /\ serv = [c \in Clients |-> "none"] /\ m_Conns = {}
  /\ rounds = 0 /\ cursor = -1 /\ ioQueue = << >>
  /\ torn = FALSE /\ dead = FALSE
  /\ cut = [c \in Clients |-> {}] /\ joined = [c \in Clients |-> 0]
  /\ phase = "new" /\ next = 1
  /\ object = [c \in Clients |-> "none"] /\ link = [c \in Clients |-> "none"]
  /\ pending = << >> /\ quitting = FALSE /\ looping = TRUE
  /\ pings = [c \in Clients |-> 0]

-------------------------------------------------------------------------------
\* The main thread

\* TcpClient::connection() is null.
NoConnection(c) == link[c] \notin {"up", "closing"}

Queue(call, c) == pending' = Append(pending, [call |-> call, to |-> c])

SetLink(c, state) == link' = [link EXCEPT ![c] = state]

\* main() turns to the next client, and after the last one to the next phase.
Advance(c) ==
  IF c + 1 \in Clients THEN next' = c + 1 /\ UNCHANGED phase
  ELSE next' = 1 /\ phase' = Phases[1 + CHOOSE k \in DOMAIN Phases : Phases[k] = phase]

\* The end of the process closes its sockets: the server may still read what
\* has arrived, or find the connection reset.
ProcessEnds(how) ==
  /\ phase' = how
  /\ looping' = FALSE /\ pending' = << >>
  /\ link' = [c \in Clients |-> "down"]
  /\ wire' = [c \in Clients |-> IF wire[c] = "none" THEN "none" ELSE "reset"]

Start(c) ==
  /\ phase = "new" /\ next = c
  /\ object' = [object EXCEPT ![c] = "alive"]
  /\ SetLink(c, "connecting")
  /\ Advance(c)
  /\ UNCHANGED <<wire, sent, serverVars, pending, quitting, looping, pings>>

SendMsg(c) ==
  /\ phase = "send" /\ next = c
  /\ ~NoConnection(c)
  /\ Queue("send", c)
  /\ Advance(c)
  /\ UNCHANGED <<wire, sent, serverVars, object, link, quitting, looping, pings>>

\* The two seconds were not enough: connection()->send on a null pointer.
SendMsgTooEarly(c) ==
  /\ phase = "send" /\ next = c
  /\ NoConnection(c)
  /\ ProcessEnds("crash")
  /\ UNCHANGED <<sent, serverVars, next, object, quitting, pings>>

\* disconnect(): does nothing before the connection exists.
Close(c) ==
  /\ phase = "close" /\ next = c
  /\ IF link[c] = "up" THEN SetLink(c, "closing") /\ Queue("shutdown", c)
     ELSE UNCHANGED <<link, pending>>
  /\ Advance(c)
  /\ UNCHANGED <<wire, sent, serverVars, object, quitting, looping, pings>>

\* ~TcpClient closes a connection that is still there by force and stops the
\* connector of one that is not; the timer of the Client keeps its pointer.
Delete(c) ==
  /\ phase = "delete" /\ next = c
  /\ object' = [object EXCEPT ![c] = "deleted"]
  /\ IF NoConnection(c) THEN SetLink(c, "down") /\ UNCHANGED pending
     ELSE SetLink(c, "closing") /\ Queue("forceClose", c)
  /\ Advance(c)
  /\ UNCHANGED <<wire, sent, serverVars, quitting, looping, pings>>

\* runInLoop(quit): behind what is queued before.
QuitLoop ==
  /\ phase = "quit"
  /\ phase' = "return"
  /\ pending' = Append(pending, [call |-> "quit"])
  /\ UNCHANGED <<wire, sent, serverVars, next, object, link, quitting, looping, pings>>

\* ~EventLoopThread: quit() on this thread, ahead of what is queued, then join().
Return ==
  /\ phase = "return"
  /\ phase' = "join"
  /\ quitting' = TRUE
  /\ UNCHANGED <<wire, sent, serverVars, next, object, link, pending, looping, pings>>

Exit ==
  /\ phase = "join" /\ ~looping
  /\ ProcessEnds("end")
  /\ UNCHANGED <<sent, serverVars, next, object, quitting, pings>>

Main == (\E c \in Clients : Start(c) \/ SendMsg(c) \/ SendMsgTooEarly(c) \/ Close(c) \/ Delete(c))
          \/ QuitLoop \/ Return \/ Exit

-------------------------------------------------------------------------------
\* The loop thread

Write(c, kinds) ==
  sent' = [sent EXCEPT ![c] = @ \o [k \in DOMAIN kinds |-> [kind |-> kinds[k], n |-> Len(@) + k]]]

\* OnConnect with a connection that is up says hello.  While the server is gone
\* the connector goes on trying.
OnConnect(c) ==
  /\ link[c] = "connecting" /\ ~dead
  /\ SetLink(c, "up")
  /\ wire' = [wire EXCEPT ![c] = "open"]
  /\ Write(c, <<"hello">>)
  /\ UNCHANGED <<serverVars, phase, next, object, pending, quitting, looping, pings>>

\* OnConnect with a connection that is down: the server has closed its end, or is
\* gone.
OnDisconnect(c) ==
  /\ ~NoConnection(c)
  /\ serv[c] = "closed" \/ dead
  /\ SetLink(c, "down")
  /\ UNCHANGED <<wire, sent, serverVars, phase, next, object, pending, quitting, looping, pings>>

Fire(c) == object[c] # "none" /\ pings[c] < MaxPings[c] /\ pings' = [pings EXCEPT ![c] = @ + 1]

\* A send on a connection that is closing is ignored.
OnPing(c) ==
  /\ Fire(c)
  /\ object[c] = "alive" /\ ~NoConnection(c)
  /\ IF link[c] = "up" THEN Write(c, <<"pi", "ng">>) ELSE UNCHANGED sent
  /\ UNCHANGED <<wire, serverVars, phase, next, object, link, pending, quitting, looping>>

\* connection() is null, or the client itself is gone, as runEvery is never
\* cancelled: what lies where it was may still pass for a client without effect.
OnPingFails(c) ==
  /\ Fire(c)
  /\ \/ object[c] = "deleted" /\ UNCHANGED <<phase, looping, link, wire, pending>>
     \/ (object[c] = "deleted" \/ NoConnection(c)) /\ ProcessEnds("crash")
  /\ UNCHANGED <<sent, serverVars, next, object, quitting>>

\* A call another thread has queued.
RunPending ==
  /\ pending # << >>
  /\ pending' = Tail(pending)
  /\ LET queued == Head(pending)
     IN \/ /\ queued.call = "send"
           /\ IF NoConnection(queued.to) THEN UNCHANGED sent ELSE Write(queued.to, <<"msg">>)
           /\ UNCHANGED <<wire, link, quitting>>
        \/ /\ queued.call = "shutdown"
           /\ wire' = IF NoConnection(queued.to) THEN wire ELSE [wire EXCEPT ![queued.to] = "fin"]
           /\ UNCHANGED <<sent, link, quitting>>
        \/ /\ queued.call = "forceClose"
           /\ IF NoConnection(queued.to) THEN UNCHANGED <<link, wire>>
              ELSE SetLink(queued.to, "down") /\ wire' = [wire EXCEPT ![queued.to] = "reset"]
           /\ UNCHANGED <<sent, quitting>>
        \/ /\ queued.call = "quit"
           /\ quitting' = TRUE
           /\ UNCHANGED <<sent, wire, link>>
  /\ UNCHANGED <<serverVars, phase, next, object, looping, pings>>

\* The loop ends behind the turn it is in; what is queued later is lost.
LoopEnds ==
  /\ quitting
  /\ looping' = FALSE
  /\ UNCHANGED <<wire, sent, serverVars, phase, next, object, link, pending, quitting, pings>>

Loop == looping /\
  \/ \E c \in Clients : OnConnect(c) \/ OnDisconnect(c) \/ OnPing(c) \/ OnPingFails(c)
  \/ RunPending
  \/ LoopEnds

-------------------------------------------------------------------------------
\* Either process goes on when the other has died.
ServerStep(A) == A /\ ~dead /\ UNCHANGED <<wire, sent, clientVars>>

Next == ServerStep(IoThread \/ MainLoop) \/ Main \/ Loop

Spec == Init /\ [][Next]_vars

\* The I/O thread and the loop thread serve whatever is ready, and nothing holds
\* main up on its way out but the loop thread it joins.
Fairness ==
  /\ WF_vars(ServerStep(RunPush))
  /\ WF_vars(looping /\ RunPending)
  /\ WF_vars(looping /\ LoopEnds)
  /\ WF_vars(Return) /\ WF_vars(Exit)
  /\ \A c \in Clients :
       /\ WF_vars(ServerStep(OnConnectionUp(c)))
       /\ WF_vars(ServerStep(OnMessage(c)))
       /\ WF_vars(ServerStep(OnConnectionDown(c)))
       /\ WF_vars(looping /\ OnDisconnect(c))

FairSpec == Spec /\ Fairness

-------------------------------------------------------------------------------
\* The places of the echoes and of the pushes in what comes back to c, and of the
\* pushes that the I/O thread has yet to send it.
Echoes(c) == {i \in DOMAIN back[c] : back[c][i].kind # "push"}

Pushed(c) == {i \in DOMAIN back[c] : back[c][i].kind = "push"}

Underway(c) == {i \in DOMAIN ioQueue : ioQueue[i].to = c}

\* What comes back to a client as an echo is what it sent itself, in order and
\* once; a ping is answered unless a read ended inside it.  The server has read
\* the message a client sent before Close() when it sees that client leave.
StreamsAgree ==
  \A c \in Clients :
    /\ \A i \in Echoes(c) : back[c][i].n \in 1 .. got[c] /\ back[c][i] = sent[c][back[c][i].n]
    /\ \A i, j \in Echoes(c) : i < j => back[c][i].n < back[c][j].n
    /\ \A k \in 1 .. got[c] - 1 :
         sent[c][k].kind = "pi" /\ k \notin cut[c] =>
           {sent[c][k], sent[c][k + 1]} \subseteq Range(back[c])
    /\ serv[c] = "closed" /\ wire[c] = "fin" =>
         \E k \in 1 .. got[c] : sent[c][k].kind = "msg"

\* A connection is sent exactly one push, in order, for every run of OnTimer
\* that had not passed it when it came, unless a connection that came or went
\* during a run has misled the walk.
PushesReachAll ==
  ~torn =>
    \A c \in Clients : serv[c] = "up" =>
      /\ \A i, j \in Pushed(c) : i < j => back[c][i].n < back[c][j].n
      /\ \A i, j \in Underway(c) : i < j => ioQueue[i].n < ioQueue[j].n
      /\ \A i \in Pushed(c), j \in Underway(c) : back[c][i].n < ioQueue[j].n
      /\ {back[c][i].n : i \in Pushed(c)} \cup {ioQueue[j].n : j \in Underway(c)}
           = joined[c] + 1 .. Passed(c)

\* A client that closes is disconnected at both ends, by the calls it queued or,
\* when the loop ends before them, a ping fails or main uses a connection it does
\* not have, by the end of the process; a server that died keeps nothing.
DisconnectCompletes ==
  \A c \in Clients :
    link[c] = "closing" ~> link[c] = "down" /\ (serv[c] = "closed" \/ dead)
===============================================================================
