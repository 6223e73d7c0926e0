-------------------------- MODULE MuduoClientProofs ---------------------------
(***************************************************************************)
(* Proofs about MuduoClient and the MockServer at its other end, for any   *)
(* number of clients, pings and push rounds.  What comes back to a client  *)
(* is judged by the two rows of numbers in it: the echoes number the       *)
(* places of what the client has sent, of which OnMessage has taken a      *)
(* beginning, and the pushes number the rounds of OnTimer, which go on in  *)
(* the calls still queued for the I/O thread.  That the last message of a  *)
(* client precedes its disconnection needs the calls its main thread has   *)
(* queued for the loop thread, in their order.                             *)
(***************************************************************************)
EXTENDS MuduoClient, SequenceTheorems, FiniteSetTheorems, WellFoundedInduction, TLAPS

N == Cardinality(Clients)

Sent == [kind : Kinds, n : Nat]
Back == [kind : Kinds \cup {"push"}, n : Nat]
Call == [call : Calls, to : Clients] \cup {[call |-> "quit"]}

(* The parts of the type invariant, and what it leaves open.                *)
NetTypes ==
  /\ wire \in [Clients -> {"none", "open", "fin", "reset"}]
  /\ serv \in [Clients -> {"none", "up", "closed"}]
  /\ m_Conns = {c \in Clients : serv[c] = "up"}
  /\ torn \in BOOLEAN /\ dead \in BOOLEAN

WalkTypes ==
  /\ rounds \in 0 .. MaxRounds /\ cursor \in Clients \cup {-1, 0}
  /\ joined \in [Clients -> 0 .. MaxRounds]
  /\ ioQueue \in Seq([to : Clients, n : 1 .. MaxRounds])
  /\ cursor # -1 => rounds >= 1

RowTypes ==
  /\ sent \in [Clients -> Seq(Sent)] /\ back \in [Clients -> Seq(Back)]
  /\ got \in [Clients -> Nat] /\ \A c \in Clients : got[c] <= Len(sent[c])
  /\ cut \in [Clients -> SUBSET Nat]

ClientTypes ==
  /\ phase \in {"new", "send", "close", "delete", "quit"} \cup LastPhases /\ next \in Clients
  /\ object \in [Clients -> {"none", "alive", "deleted"}]
  /\ link \in [Clients -> {"none", "connecting", "up", "closing", "down"}]
  /\ pending \in Seq(Call)
  /\ quitting \in BOOLEAN /\ looping \in BOOLEAN
  /\ pings \in [Clients -> Nat] /\ \A c \in Clients : pings[c] <= MaxPings[c]

Types == NetTypes /\ WalkTypes /\ RowTypes /\ ClientTypes

(* What a client sends is numbered as it goes, and the second part of a     *)
(* ping is written with the first.                                          *)
SentRow(c) ==
  \A k \in 1 .. Len(sent[c]) :
    /\ sent[c][k].n = k
    /\ sent[c][k].kind = "pi" => k < Len(sent[c]) /\ sent[c][k + 1].kind = "ng"

(* What the echoes say, and that a read which ended inside a ping is noted. *)
EchoRow(c) ==
  /\ \A i \in Echoes(c) : back[c][i].n \in 1 .. got[c] /\ back[c][i] = sent[c][back[c][i].n]
  /\ \A i, j \in Echoes(c) : i < j => back[c][i].n < back[c][j].n
  /\ \A k \in 1 .. got[c] - 1 :
       sent[c][k].kind = "pi" /\ k \notin cut[c] =>
         {sent[c][k], sent[c][k + 1]} \subseteq Range(back[c])
  /\ got[c] > 0 /\ sent[c][got[c]].kind = "pi" => got[c] \in cut[c]

(* The client's message is among what it has sent, or among what of that    *)
(* the server has taken.                                                    *)
MsgSent(c) == \E k \in 1 .. Len(sent[c]) : sent[c][k].kind = "msg"
MsgTaken(c) == \E k \in 1 .. got[c] : sent[c][k].kind = "msg"

(* A call to send for c stands among the first m of those that are queued.  *)
SendQueued(c, m) == \E i \in 1 .. m : pending[i] = [call |-> "send", to |-> c]

(* The main thread is past its call to send for c, and its process alive.   *)
SendDone(c) ==
  phase \in {"close", "delete", "quit", "return", "join"} \/ (phase = "send" /\ c < next)

(* The two ends of a connection come and go in step.                        *)
Ends(c) ==
  /\ link[c] \in {"none", "connecting"} => wire[c] = "none"
  /\ wire[c] = "reset" => link[c] = "down"
  /\ phase = "new" /\ c >= next => link[c] = "none"
  /\ serv[c] # "none" => wire[c] # "none"
  /\ serv[c] = "closed" => wire[c] \in {"fin", "reset"}

(* The end of a client's stream is behind its message: whatever main() did  *)
(* after its call to send, that call is still queued before a shutdown.     *)
Farewell(c) ==
  /\ \A i \in 1 .. Len(pending) : pending[i] = [call |-> "send", to |-> c] =>
       link[c] \in {"up", "closing", "down"}
  /\ SendDone(c) => MsgSent(c) \/ link[c] = "down" \/ SendQueued(c, Len(pending))
  /\ \A i \in 1 .. Len(pending) : pending[i] = [call |-> "shutdown", to |-> c] =>
       MsgSent(c) \/ link[c] = "down" \/ SendQueued(c, i - 1)
  /\ wire[c] = "fin" => MsgSent(c)
  /\ serv[c] = "closed" /\ wire[c] = "fin" => MsgTaken(c)

(* The pushes sent to c and those on their way number the rounds since it   *)
(* came; none is sent to a connection that has not come.                    *)
PushRow(c) ==
  /\ \A i, j \in Pushed(c) : i < j => back[c][i].n < back[c][j].n
  /\ \A i, j \in Underway(c) : i < j => ioQueue[i].n < ioQueue[j].n
  /\ \A i \in Pushed(c), j \in Underway(c) : back[c][i].n < ioQueue[j].n
  /\ {back[c][i].n : i \in Pushed(c)} \cup {ioQueue[j].n : j \in Underway(c)}
       = joined[c] + 1 .. Passed(c)
  /\ joined[c] <= Passed(c)

PushRows ==
  /\ \A c \in Clients : serv[c] = "none" => Pushed(c) = {} /\ Underway(c) = {}
  /\ ~torn => \A c \in Clients : serv[c] = "up" => PushRow(c)

Rows == \A c \in Clients : SentRow(c) /\ EchoRow(c)

Partings == \A c \in Clients : Ends(c) /\ Farewell(c)

IInv == Types /\ Rows /\ Partings /\ PushRows

-----------------------------------------------------------------------------
(* The clients are numbered from one.                                       *)
LEMMA Numbered ==
  /\ N \in Nat /\ N >= 1 /\ Clients = 1 .. N /\ 1 \in Clients
  /\ \A c \in Clients : c \in Nat /\ c >= 1 /\ (c + 1 \notin Clients => c = N)
<1>1. N \in Nat /\ Clients = 1 .. N
  BY ClientsAssumption, FS_CardinalityType DEF N
<1>2. N >= 1
  BY <1>1, SomeClient
<1> QED BY <1>1, <1>2

(* The phases follow one another.                                           *)
LEMMA NextPhase ==
  /\ Range(Phases) = {"new", "send", "close", "delete", "quit"}
  /\ \A p \in {"new", "send", "close", "delete"} :
       Phases[1 + CHOOSE k \in DOMAIN Phases : Phases[k] = p]
         = CASE p = "new" -> "send" [] p = "send" -> "close"
             [] p = "close" -> "delete" [] p = "delete" -> "quit"
<1>1. DOMAIN Phases = 1 .. 5
  BY DEF Phases
<1>2. /\ Phases[1] = "new" /\ Phases[2] = "send" /\ Phases[3] = "close"
      /\ Phases[4] = "delete" /\ Phases[5] = "quit"
  BY DEF Phases
<1> HIDE DEF Phases
<1>3. 1 .. 5 = {1, 2, 3, 4, 5}
  OBVIOUS
<1>4. Range(Phases) = {"new", "send", "close", "delete", "quit"}
  BY <1>1, <1>2, <1>3 DEF Range
<1>5. ASSUME NEW j \in {1, 2, 3, 4} PROVE (CHOOSE k \in DOMAIN Phases : Phases[k] = Phases[j]) = j
  <2>1. \A k \in DOMAIN Phases : Phases[k] = Phases[j] => k = j
    BY <1>1, <1>2, <1>3
  <2>2. j \in DOMAIN Phases
    BY <1>1, <1>3
  <2> QED BY <2>1, <2>2
<1>6. /\ (CHOOSE k \in DOMAIN Phases : Phases[k] = "new") = 1
      /\ (CHOOSE k \in DOMAIN Phases : Phases[k] = "send") = 2
      /\ (CHOOSE k \in DOMAIN Phases : Phases[k] = "close") = 3
      /\ (CHOOSE k \in DOMAIN Phases : Phases[k] = "delete") = 4
  BY <1>2, <1>5
<1>7. /\ (1 + CHOOSE k \in DOMAIN Phases : Phases[k] = "new") = 2
      /\ (1 + CHOOSE k \in DOMAIN Phases : Phases[k] = "send") = 3
      /\ (1 + CHOOSE k \in DOMAIN Phases : Phases[k] = "close") = 4
      /\ (1 + CHOOSE k \in DOMAIN Phases : Phases[k] = "delete") = 5
  <2>1. 1 + 1 = 2 /\ 1 + 2 = 3 /\ 1 + 3 = 4 /\ 1 + 4 = 5
    OBVIOUS
  <2> QED BY <1>6, <2>1, Zenon
<1>8. \A p \in {"new", "send", "close", "delete"} :
        Phases[1 + CHOOSE k \in DOMAIN Phases : Phases[k] = p]
          = CASE p = "new" -> "send" [] p = "send" -> "close"
              [] p = "close" -> "delete" [] p = "delete" -> "quit"
  <2>1. Phases[1 + CHOOSE k \in DOMAIN Phases : Phases[k] = "new"] = "send"
    BY <1>2, <1>7, Zenon
  <2>2. Phases[1 + CHOOSE k \in DOMAIN Phases : Phases[k] = "send"] = "close"
    BY <1>2, <1>7, Zenon
  <2>3. Phases[1 + CHOOSE k \in DOMAIN Phases : Phases[k] = "close"] = "delete"
    BY <1>2, <1>7, Zenon
  <2>4. Phases[1 + CHOOSE k \in DOMAIN Phases : Phases[k] = "delete"] = "quit"
    BY <1>2, <1>7, Zenon
  <2> SUFFICES ASSUME NEW p \in {"new", "send", "close", "delete"}
               PROVE  Phases[1 + CHOOSE k \in DOMAIN Phases : Phases[k] = p]
                        = CASE p = "new" -> "send" [] p = "send" -> "close"
                            [] p = "close" -> "delete" [] p = "delete" -> "quit"
    OBVIOUS
  <2>5. CASE p = "new"
    BY <2>1, <2>5
  <2>6. CASE p = "send"
    BY <2>2, <2>6
  <2>7. CASE p = "close"
    BY <2>3, <2>7
  <2>8. CASE p = "delete"
    BY <2>4, <2>8
  <2> QED BY <2>5, <2>6, <2>7, <2>8
<1> QED BY <1>4, <1>8

-----------------------------------------------------------------------------
(* The steps of the server leave the clients' part alone, and those of the  *)
(* clients the server's.                                                    *)
LEMMA ServerSteps ==
  ASSUME ServerStep(IoThread \/ MainLoop)
  PROVE  /\ UNCHANGED <<wire, sent, clientVars>>
         /\ \/ \E c \in Clients : OnConnectionUp(c)
            \/ \E c \in Clients : OnConnectionDown(c)
            \/ \E c \in Clients : OnMessage(c)
            \/ \E c \in Clients : Push(c)
            \/ RunPush
            \/ OnTimer
            \/ PushEnds
  BY DEF ServerStep, IoThread, MainLoop

LEMMA ClientSteps ==
  ASSUME Main \/ Loop
  PROVE  /\ UNCHANGED serverVars
         /\ \/ \E c \in Clients : Start(c)
            \/ \E c \in Clients : SendMsg(c)
            \/ \E c \in Clients : SendMsgTooEarly(c)
            \/ \E c \in Clients : Close(c)
            \/ \E c \in Clients : Delete(c)
            \/ QuitLoop
            \/ Return
            \/ Exit
            \/ \E c \in Clients : OnConnect(c)
            \/ \E c \in Clients : OnDisconnect(c)
            \/ \E c \in Clients : OnPing(c)
            \/ \E c \in Clients : OnPingFails(c)
            \/ RunPending
            \/ LoopEnds
  BY DEF Main, Loop, Start, SendMsg, SendMsgTooEarly, Close, Delete, QuitLoop, Return, Exit,
         OnConnect, OnDisconnect, OnPing, OnPingFails, RunPending, LoopEnds

(* The process of the clients ends, or a step leaves the connections and    *)
(* what is queued for them alone.                                           *)
Ended == sent' = sent /\ \E how \in {"end", "crash"} : ProcessEnds(how)

Apart ==
  /\ UNCHANGED <<wire, sent, next, link, pending>>
  /\ phase' = phase \/ (phase = "return" /\ phase' = "join")

LEMMA ClientKinds ==
  ASSUME Main \/ Loop
  PROVE  \/ \E c \in Clients : Start(c)
         \/ \E c \in Clients : SendMsg(c)
         \/ \E c \in Clients : Close(c)
         \/ \E c \in Clients : Delete(c)
         \/ QuitLoop
         \/ \E c \in Clients : OnConnect(c)
         \/ \E c \in Clients : OnDisconnect(c)
         \/ \E c \in Clients : OnPing(c)
         \/ RunPending
         \/ Apart
         \/ Ended
<1>1. ASSUME NEW c \in Clients, SendMsgTooEarly(c) PROVE Ended
  BY <1>1 DEF SendMsgTooEarly, Ended
<1>2. Exit => Ended
  BY DEF Exit, Ended
<1>3. ASSUME NEW c \in Clients, OnPingFails(c) PROVE Ended \/ Apart
  BY <1>3 DEF OnPingFails, Ended, Apart
<1>4. Return \/ LoopEnds => Apart
  BY DEF Return, LoopEnds, Apart
<1> QED BY <1>1, <1>2, <1>3, <1>4, ClientSteps

(* Advance goes on to the next client, or to the first one in the phase     *)
(* after this one.                                                          *)
LEMMA AdvanceEffect ==
  ASSUME NEW c \in Clients, phase \in {"new", "send", "close", "delete"}, Advance(c)
  PROVE  /\ next' \in Clients
         /\ \/ next' = c + 1 /\ phase' = phase /\ c + 1 \in Clients
            \/ /\ c + 1 \notin Clients /\ c = N /\ next' = 1
               /\ phase' = CASE phase = "new" -> "send" [] phase = "send" -> "close"
                             [] phase = "close" -> "delete" [] phase = "delete" -> "quit"
<1>1. CASE c + 1 \in Clients
  BY <1>1 DEF Advance
<1>2. CASE c + 1 \notin Clients
  <2>1. next' = 1 /\ phase' = Phases[1 + CHOOSE k \in DOMAIN Phases : Phases[k] = phase]
    BY <1>2, Zenon DEF Advance
  <2>2. phase' = CASE phase = "new" -> "send" [] phase = "send" -> "close"
                   [] phase = "close" -> "delete" [] phase = "delete" -> "quit"
    BY <2>1, NextPhase, Zenon
  <2> QED BY <1>2, <2>1, <2>2, Numbered
<1> QED BY <1>1, <1>2

(* What Write adds to the stream of a client.                               *)
LEMMA WriteEffect ==
  ASSUME RowTypes, NEW c \in Clients, NEW kinds \in Seq(Kinds), Write(c, kinds)
  PROVE  /\ sent' \in [Clients -> Seq(Sent)]
         /\ \A d \in Clients : d # c => sent'[d] = sent[d]
         /\ Len(sent'[c]) = Len(sent[c]) + Len(kinds)
         /\ \A k \in 1 .. Len(sent[c]) : sent'[c][k] = sent[c][k]
         /\ \A k \in 1 .. Len(kinds) :
              sent'[c][Len(sent[c]) + k] = [kind |-> kinds[k], n |-> Len(sent[c]) + k]
<1> DEFINE s == sent[c]
           t == [k \in DOMAIN kinds |-> [kind |-> kinds[k], n |-> Len(s) + k]]
<1>1. s \in Seq(Sent) /\ Len(s) \in Nat /\ Len(kinds) \in Nat /\ DOMAIN kinds = 1 .. Len(kinds)
  BY LenProperties DEF RowTypes
<1>2. \A k \in 1 .. Len(kinds) : kinds[k] \in Kinds
  BY ElementOfSeq
<1>3. \A k \in 1 .. Len(kinds) : [kind |-> kinds[k], n |-> Len(s) + k] \in Sent
  BY <1>1, <1>2 DEF Sent
<1>4. t = [k \in 1 .. Len(kinds) |-> [kind |-> kinds[k], n |-> Len(s) + k]]
  BY <1>1
<1>5. t \in Seq(Sent) /\ Len(t) = Len(kinds)
  BY <1>1, <1>3, <1>4, SeqDef, LenProperties
<1>6. \A k \in 1 .. Len(kinds) : t[k] = [kind |-> kinds[k], n |-> Len(s) + k]
  BY <1>4
<1>7. sent' = [sent EXCEPT ![c] = s \o t]
  BY DEF Write
<1>8. sent \in [Clients -> Seq(Sent)]
  BY DEF RowTypes
<1> HIDE DEF s, t
<1>9. /\ s \o t \in Seq(Sent) /\ Len(s \o t) = Len(s) + Len(t)
      /\ \A k \in 1 .. Len(s) + Len(t) : (s \o t)[k] = IF k <= Len(s) THEN s[k] ELSE t[k - Len(s)]
  BY <1>1, <1>5, ConcatProperties
<1>10. \A k \in 1 .. Len(s) : (s \o t)[k] = s[k]
  BY <1>1, <1>5, <1>9
<1>11. \A k \in 1 .. Len(kinds) : (s \o t)[Len(s) + k] = t[k]
  <2> SUFFICES ASSUME NEW k \in 1 .. Len(kinds) PROVE (s \o t)[Len(s) + k] = t[k]
    OBVIOUS
  <2>1. Len(s) + k \in 1 .. Len(s) + Len(t) /\ ~(Len(s) + k <= Len(s)) /\ Len(s) + k - Len(s) = k
    BY <1>1, <1>5
  <2> QED BY <1>9, <2>1
<1>12. sent'[c] = s \o t /\ \A d \in Clients : d # c => sent'[d] = sent[d]
  BY <1>7, <1>8
<1>13. sent' \in [Clients -> Seq(Sent)]
  BY <1>7, <1>8, <1>9
<1> QED BY <1>5, <1>6, <1>9, <1>10, <1>11, <1>12, <1>13 DEF s

(* Taking the first of what is queued.                                      *)
LEMMA Popping ==
  ASSUME NEW S, NEW q \in Seq(S), q # << >>
  PROVE  /\ Len(q) \in Nat /\ Len(q) >= 1 /\ Head(q) = q[1] /\ Head(q) \in S
         /\ Tail(q) \in Seq(S) /\ Len(Tail(q)) = Len(q) - 1
         /\ \A k \in 1 .. Len(q) - 1 : Tail(q)[k] = q[k + 1]
<1>1. Len(q) \in Nat /\ Len(q) >= 1
  <2>1. Len(q) \in Nat \ {0}
    BY EmptySeq
  <2> QED BY <2>1
<1>2. 1 \in 1 .. Len(q)
  BY <1>1
<1>3. Head(q) = q[1]
  OBVIOUS
<1>4. q[1] \in S
  BY <1>2, ElementOfSeq
<1>5. /\ Tail(q) \in Seq(S) /\ Len(Tail(q)) = Len(q) - 1
      /\ \A k \in 1 .. Len(Tail(q)) : Tail(q)[k] = q[k + 1]
  BY HeadTailProperties
<1> QED BY <1>1, <1>3, <1>4, <1>5

(* What OnMessage takes, and what it sends back of it: all or nothing.      *)
Answers(c, n) ==
  /\ Len(back'[c]) = Len(back[c]) + (n - got[c])
  /\ \A k \in 1 .. n - got[c] : back'[c][Len(back[c]) + k] = sent[c][got[c] + k]

Drops(c, n) ==
  /\ Len(back'[c]) = Len(back[c])
  /\ \A k \in got[c] + 1 .. n - 1 : ~(sent[c][k].kind = "pi" /\ sent[c][k + 1].kind = "ng")

LEMMA MessageEffect ==
  ASSUME RowTypes, NEW c \in Clients, OnMessage(c)
  PROVE  \E n \in got[c] + 1 .. Len(sent[c]) :
           /\ got' = [got EXCEPT ![c] = n]
           /\ cut' = IF sent[c][n].kind = "pi" THEN [cut EXCEPT ![c] = @ \cup {n}] ELSE cut
           /\ back' \in [Clients -> Seq(Back)]
           /\ \A d \in Clients : d # c => back'[d] = back[d]
           /\ \A k \in 1 .. Len(back[c]) : back'[c][k] = back[c][k]
           /\ Answers(c, n) \/ Drops(c, n)
<1>1. PICK n \in got[c] + 1 .. Len(sent[c]) :
        /\ got' = [got EXCEPT ![c] = n]
        /\ cut' = IF sent[c][n].kind = "pi" THEN [cut EXCEPT ![c] = @ \cup {n}] ELSE cut
        /\ back' = [back EXCEPT ![c] = @ \o Echo(SubSeq(sent[c], got[c] + 1, n))]
  BY DEF OnMessage
<1> DEFINE s == sent[c]
           b == back[c]
           batch == SubSeq(s, got[c] + 1, n)
<1>2. /\ s \in Seq(Sent) /\ Len(s) \in Nat /\ b \in Seq(Back) /\ Len(b) \in Nat
      /\ got[c] \in Nat /\ n \in Nat /\ got[c] < n /\ n <= Len(s)
  <2>1. s \in Seq(Sent) /\ b \in Seq(Back) /\ got[c] \in Nat
    BY DEF RowTypes
  <2>2. Len(s) \in Nat /\ Len(b) \in Nat
    BY <2>1, LenProperties
  <2> QED BY <2>1, <2>2
<1>3. \A k \in 1 .. Len(s) : s[k] \in Sent
  BY <1>2, ElementOfSeq
<1>4. /\ batch \in Seq(Sent) /\ Len(batch) = n - got[c]
      /\ \A k \in 1 .. n - got[c] : batch[k] = s[got[c] + k]
  <2>1. \A k \in got[c] + 1 .. n : s[k] \in Sent
    BY <1>2, <1>3
  <2>2. got[c] + 1 \in Int /\ n \in Int
    BY <1>2
  <2> HIDE DEF s
  <2>3. /\ batch \in Seq(Sent)
        /\ Len(batch) = IF got[c] + 1 <= n THEN n - (got[c] + 1) + 1 ELSE 0
        /\ \A k \in 1 .. n - (got[c] + 1) + 1 : batch[k] = s[got[c] + 1 + k - 1]
    BY <2>1, <2>2, SubSeqProperties
  <2> HIDE DEF batch
  <2>4. Len(batch) = n - got[c] /\ n - (got[c] + 1) + 1 = n - got[c]
    BY <1>2, <2>3
  <2>5. ASSUME NEW k \in 1 .. n - got[c] PROVE got[c] + 1 + k - 1 = got[c] + k
    BY <1>2
  <2> QED BY <2>3, <2>4, <2>5
<1>5. Sent \subseteq Back
  BY DEF Sent, Back
<1>6. back \in [Clients -> Seq(Back)]
  BY DEF RowTypes
<1>7. CASE HasPing(batch)
  <2>1. back' = [back EXCEPT ![c] = b \o batch]
    BY <1>1, <1>7, Zenon DEF Echo
  <2>2. batch \in Seq(Back)
    BY <1>4, <1>5, SeqMonotonic
  <2> HIDE DEF batch, b
  <2>3. /\ b \o batch \in Seq(Back) /\ Len(b \o batch) = Len(b) + Len(batch)
        /\ \A k \in 1 .. Len(b) + Len(batch) :
             (b \o batch)[k] = IF k <= Len(b) THEN b[k] ELSE batch[k - Len(b)]
    BY <1>2, <2>2, ConcatProperties
  <2>4. \A k \in 1 .. Len(b) : (b \o batch)[k] = b[k]
    BY <1>2, <1>4, <2>3
  <2>5. ASSUME NEW k \in 1 .. n - got[c] PROVE (b \o batch)[Len(b) + k] = s[got[c] + k]
    <3>1. /\ Len(b) + k \in 1 .. Len(b) + Len(batch) /\ ~(Len(b) + k <= Len(b))
          /\ Len(b) + k - Len(b) = k
      BY <1>2, <1>4
    <3> QED BY <1>4, <2>3, <3>1
  <2>6. /\ back'[c] = b \o batch /\ back' \in [Clients -> Seq(Back)]
        /\ \A d \in Clients : d # c => back'[d] = back[d]
    BY <1>6, <2>1, <2>3
  <2>7. Answers(c, n)
    <3>1. Len(back'[c]) = Len(b) + (n - got[c])
      BY <1>4, <2>3, <2>6
    <3>2. \A k \in 1 .. n - got[c] : back'[c][Len(b) + k] = s[got[c] + k]
      BY <2>5, <2>6
    <3> QED BY <3>1, <3>2 DEF Answers, b
  <2>8. \A k \in 1 .. Len(back[c]) : back'[c][k] = back[c][k]
    BY <2>4, <2>6 DEF b
  <2> QED BY <1>1, <2>6, <2>7, <2>8
<1>8. CASE ~HasPing(batch)
  <2>1. back' = [back EXCEPT ![c] = b \o << >>]
    BY <1>1, <1>8, Zenon DEF Echo
  <2>2. b \o << >> = b
    BY <1>2, ConcatEmptySeq
  <2>3. back' = back
    BY <1>6, <2>1, <2>2
  <2>4. Drops(c, n)
    <3> SUFFICES ASSUME NEW k \in got[c] + 1 .. n - 1, s[k].kind = "pi", s[k + 1].kind = "ng"
                 PROVE FALSE
      BY <2>3 DEF Drops
    <3> DEFINE j == k - got[c]
    <3>1. /\ j \in 1 .. n - got[c] - 1 /\ got[c] + j = k /\ got[c] + (j + 1) = k + 1
          /\ j \in 1 .. n - got[c] /\ j + 1 \in 1 .. n - got[c]
      <4>1. k \in Int /\ got[c] + 1 <= k /\ k <= n - 1 /\ got[c] \in Int /\ n \in Int
        BY <1>2
      <4>2. \A g, m \in Int : g + 1 <= k /\ k <= m - 1 =>
              /\ k - g \in 1 .. m - g - 1 /\ g + (k - g) = k /\ g + (k - g + 1) = k + 1
              /\ k - g \in 1 .. m - g /\ k - g + 1 \in 1 .. m - g
        BY <4>1
      <4> QED BY <4>1, <4>2
    <3> HIDE DEF j
    <3>2. batch[j] = s[k] /\ batch[j + 1] = s[k + 1]
      BY <1>4, <3>1
    <3>3. j \in 1 .. Len(batch) - 1
      BY <1>4, <3>1
    <3> HIDE DEF batch
    <3> QED BY <1>8, <3>2, <3>3 DEF HasPing
  <2>5. back' \in [Clients -> Seq(Back)]
    BY <1>6, <2>3
  <2> QED BY <1>1, <2>3, <2>4, <2>5
<1> QED BY <1>7, <1>8

(* RunPush takes the first push and writes it to a connection that is up.   *)
LEMMA RunPushEffect ==
  ASSUME NetTypes, WalkTypes, RowTypes, RunPush
  PROVE  \E c \in Clients, n \in 1 .. MaxRounds :
           /\ Len(ioQueue) \in Nat /\ Len(ioQueue) >= 1
           /\ ioQueue[1].to = c /\ ioQueue[1].n = n
           /\ ioQueue' \in Seq([to : Clients, n : 1 .. MaxRounds])
           /\ Len(ioQueue') = Len(ioQueue) - 1
           /\ \A k \in 1 .. Len(ioQueue) - 1 : ioQueue'[k] = ioQueue[k + 1]
           /\ back' \in [Clients -> Seq(Back)]
           /\ \A d \in Clients : d # c \/ serv[d] # "up" => back'[d] = back[d]
           /\ serv[c] = "up" =>
                /\ Len(back'[c]) = Len(back[c]) + 1
                /\ \A k \in 1 .. Len(back[c]) : back'[c][k] = back[c][k]
                /\ back'[c][Len(back[c]) + 1] = [kind |-> "push", n |-> n]
<1>1. ioQueue \in Seq([to : Clients, n : 1 .. MaxRounds]) /\ ioQueue # << >>
  BY DEF WalkTypes, RunPush
<1>2. /\ Len(ioQueue) \in Nat /\ Len(ioQueue) >= 1
      /\ Head(ioQueue) = ioQueue[1] /\ Head(ioQueue) \in [to : Clients, n : 1 .. MaxRounds]
  BY <1>1, Popping
<1>3. /\ ioQueue' \in Seq([to : Clients, n : 1 .. MaxRounds]) /\ Len(ioQueue') = Len(ioQueue) - 1
      /\ \A k \in 1 .. Len(ioQueue) - 1 : ioQueue'[k] = ioQueue[k + 1]
  <2>1. ioQueue' = Tail(ioQueue)
    BY DEF RunPush
  <2> QED BY <1>1, <2>1, Popping
<1> DEFINE c == Head(ioQueue).to
           n == Head(ioQueue).n
           b == back[c]
           e == [kind |-> "push", n |-> n]
<1>4. c \in Clients /\ n \in 1 .. MaxRounds /\ n \in Nat
  BY <1>2
<1>5. back' = IF serv[c] # "up" THEN back ELSE [back EXCEPT ![c] = Append(b, e)]
  BY DEF RunPush
<1>6. e \in Back
  BY <1>4 DEF Back
<1>7. back \in [Clients -> Seq(Back)] /\ b \in Seq(Back)
  BY <1>4 DEF RowTypes
<1>8. ioQueue[1].to = c /\ ioQueue[1].n = n
  BY <1>2
<1> HIDE DEF c, n, e
<1>9. /\ Append(b, e) \in Seq(Back) /\ Len(Append(b, e)) = Len(b) + 1
      /\ \A k \in 1 .. Len(b) : Append(b, e)[k] = b[k]
      /\ Append(b, e)[Len(b) + 1] = e
  BY <1>6, <1>7, AppendProperties
<1>10. CASE serv[c] = "up"
  <2>1. back' = [back EXCEPT ![c] = Append(b, e)]
    BY <1>5, <1>10
  <2>2. /\ back' \in [Clients -> Seq(Back)] /\ back'[c] = Append(b, e)
        /\ \A d \in Clients : d # c => back'[d] = back[d]
    BY <1>4, <1>7, <1>9, <2>1
  <2>3. /\ Len(back'[c]) = Len(back[c]) + 1
        /\ \A k \in 1 .. Len(back[c]) : back'[c][k] = back[c][k]
        /\ back'[c][Len(back[c]) + 1] = [kind |-> "push", n |-> n]
    BY <1>9, <2>2 DEF e, b
  <2>4. \A d \in Clients : d # c \/ serv[d] # "up" => back'[d] = back[d]
    BY <1>10, <2>2
  <2> QED BY <1>2, <1>3, <1>4, <1>8, <2>2, <2>3, <2>4
<1>11. CASE serv[c] # "up"
  <2>1. back' = back
    BY <1>5, <1>11
  <2> QED BY <1>2, <1>3, <1>4, <1>7, <1>8, <1>11, <2>1
<1> QED BY <1>10, <1>11

-----------------------------------------------------------------------------
(* The types hold after every step of the server.                           *)
LEMMA PassedType ==
  ASSUME WalkTypes, NEW c \in Clients
  PROVE  Passed(c) \in 0 .. MaxRounds
<1>1. c \in Nat /\ rounds \in Nat /\ rounds <= MaxRounds /\ MaxRounds \in Nat
  BY Numbered, RoundsAssumption DEF WalkTypes
<1>2. cursor # -1 => rounds >= 1
  BY DEF WalkTypes
<1> QED BY <1>1, <1>2 DEF Passed

LEMMA NetTypesServer ==
  ASSUME Types, ServerStep(IoThread \/ MainLoop)
  PROVE  NetTypes'
<1> USE DEF Types
<1>1. wire' = wire
  BY ServerSteps
<1>2. CASE serv' = serv /\ m_Conns' = m_Conns /\ torn' = torn /\ dead' = dead
  BY <1>1, <1>2 DEF NetTypes
<1>3. CASE \E c \in Clients : OnConnectionUp(c)
  <2>1. PICK c \in Clients : OnConnectionUp(c)
    BY <1>3
  <2>2. serv' = [serv EXCEPT ![c] = "up"] /\ m_Conns' = m_Conns \cup {c}
    BY <2>1 DEF OnConnectionUp
  <2>3. serv' \in [Clients -> {"none", "up", "closed"}] /\ m_Conns' = {d \in Clients : serv'[d] = "up"}
    BY <2>2 DEF NetTypes
  <2>4. torn' \in BOOLEAN /\ dead' \in BOOLEAN
    BY <2>1 DEF NetTypes, OnConnectionUp, Race
  <2> QED BY <1>1, <2>3, <2>4 DEF NetTypes
<1>4. CASE \E c \in Clients : OnConnectionDown(c)
  <2>1. PICK c \in Clients : OnConnectionDown(c)
    BY <1>4
  <2>2. serv' = [serv EXCEPT ![c] = "closed"] /\ m_Conns' = m_Conns \ {c}
    BY <2>1 DEF OnConnectionDown, Erase
  <2>3. serv' \in [Clients -> {"none", "up", "closed"}] /\ m_Conns' = {d \in Clients : serv'[d] = "up"}
    BY <2>2 DEF NetTypes
  <2>4. torn' \in BOOLEAN /\ dead' \in BOOLEAN
    BY <2>1 DEF NetTypes, OnConnectionDown, Race
  <2> QED BY <1>1, <2>3, <2>4 DEF NetTypes
<1> QED BY <1>2, <1>3, <1>4, ServerSteps DEF OnMessage, Push, RunPush, OnTimer, PushEnds

LEMMA WalkTypesServer ==
  ASSUME Types, ServerStep(IoThread \/ MainLoop)
  PROVE  WalkTypes'
<1> USE DEF Types
<1>1. \A c \in Clients : c \in Nat /\ c # -1
  BY Numbered
<1>2. rounds \in Nat /\ rounds <= MaxRounds /\ MaxRounds \in Nat
  BY RoundsAssumption DEF WalkTypes
<1>3. CASE \E c \in Clients : OnConnectionUp(c)
  <2>1. PICK c \in Clients : OnConnectionUp(c)
    BY <1>3
  <2>2. joined' \in [Clients -> 0 .. MaxRounds]
    BY <2>1, PassedType DEF WalkTypes, OnConnectionUp
  <2>3. cursor' \in {cursor, -1} /\ rounds' = rounds /\ ioQueue' = ioQueue
    BY <2>1 DEF OnConnectionUp, Race
  <2> QED BY <2>2, <2>3 DEF WalkTypes
<1>4. CASE \E c \in Clients : OnConnectionDown(c)
  <2>1. cursor' \in {cursor, -1} /\ rounds' = rounds /\ ioQueue' = ioQueue /\ joined' = joined
    BY <1>4 DEF OnConnectionDown, Race
  <2> QED BY <2>1 DEF WalkTypes
<1>5. CASE \E c \in Clients : Push(c)
  <2>1. PICK c \in Clients : Push(c)
    BY <1>5
  <2>2. rounds \in 1 .. MaxRounds
    BY <1>2, <2>1 DEF WalkTypes, Push
  <2>3. [to |-> c, n |-> rounds] \in [to : Clients, n : 1 .. MaxRounds]
    BY <2>2
  <2>4. ioQueue' \in Seq([to : Clients, n : 1 .. MaxRounds])
    BY <2>1, <2>3, AppendProperties DEF WalkTypes, Push
  <2>5. cursor' = c /\ rounds' = rounds /\ joined' = joined
    BY <2>1 DEF Push
  <2> QED BY <2>2, <2>4, <2>5 DEF WalkTypes
<1>6. CASE RunPush
  <2>1. ioQueue' \in Seq([to : Clients, n : 1 .. MaxRounds])
    BY <1>6, RunPushEffect
  <2> QED BY <1>6, <2>1 DEF WalkTypes, RunPush
<1>7. CASE OnTimer
  BY <1>2, <1>7 DEF WalkTypes, OnTimer
<1>8. CASE PushEnds
  BY <1>8 DEF WalkTypes, PushEnds
<1>9. CASE \E c \in Clients : OnMessage(c)
  BY <1>9 DEF WalkTypes, OnMessage
<1> QED BY <1>3, <1>4, <1>5, <1>6, <1>7, <1>8, <1>9, ServerSteps

LEMMA RowTypesServer ==
  ASSUME Types, ServerStep(IoThread \/ MainLoop)
  PROVE  RowTypes'
<1> USE DEF Types
<1>1. sent' = sent
  BY ServerSteps
<1>2. CASE got' = got /\ cut' = cut /\ back' \in [Clients -> Seq(Back)]
  BY <1>1, <1>2 DEF RowTypes
<1>3. CASE RunPush
  BY <1>2, <1>3, RunPushEffect DEF RunPush
<1>4. CASE \E c \in Clients : OnMessage(c)
  <2>1. PICK c \in Clients : OnMessage(c)
    BY <1>4
  <2>2. PICK n \in got[c] + 1 .. Len(sent[c]) :
          /\ got' = [got EXCEPT ![c] = n]
          /\ cut' = IF sent[c][n].kind = "pi" THEN [cut EXCEPT ![c] = @ \cup {n}] ELSE cut
          /\ back' \in [Clients -> Seq(Back)]
    BY <2>1, MessageEffect
  <2>3. got[c] \in Nat /\ Len(sent[c]) \in Nat
    BY LenProperties DEF RowTypes
  <2>4. n \in Nat /\ n <= Len(sent[c])
    BY <2>2, <2>3
  <2>5. got' \in [Clients -> Nat] /\ \A d \in Clients : got'[d] <= Len(sent[d])
    BY <2>2, <2>4 DEF RowTypes
  <2>6. cut' \in [Clients -> SUBSET Nat]
    BY <2>2, <2>4 DEF RowTypes
  <2> QED BY <1>1, <2>2, <2>5, <2>6 DEF RowTypes
<1>5. back \in [Clients -> Seq(Back)]
  BY DEF RowTypes
<1> QED BY <1>2, <1>3, <1>4, <1>5, ServerSteps
        DEF OnConnectionUp, OnConnectionDown, Push, OnTimer, PushEnds

LEMMA TypesServer ==
  ASSUME Types, ServerStep(IoThread \/ MainLoop)
  PROVE  Types'
<1>1. ClientTypes'
  BY ServerSteps DEF Types, ClientTypes, clientVars
<1> QED BY <1>1, NetTypesServer, WalkTypesServer, RowTypesServer DEF Types

-----------------------------------------------------------------------------
(* What a client has sent stays, and what is added to it is numbered on.    *)
Grown ==
  /\ sent' \in [Clients -> Seq(Sent)]
  /\ \A c \in Clients :
       /\ Len(sent[c]) <= Len(sent'[c])
       /\ \A k \in 1 .. Len(sent[c]) : sent'[c][k] = sent[c][k]
       /\ SentRow(c) => SentRow(c)'

LEMMA WriteGrows ==
  ASSUME RowTypes, NEW c \in Clients, NEW kinds \in Seq(Kinds), Write(c, kinds),
         \A k \in 1 .. Len(kinds) :
           kinds[k] = "pi" => k < Len(kinds) /\ kinds[k + 1] = "ng"
  PROVE  Grown
<1>1. /\ sent' \in [Clients -> Seq(Sent)]
      /\ \A d \in Clients : d # c => sent'[d] = sent[d]
      /\ Len(sent'[c]) = Len(sent[c]) + Len(kinds)
      /\ \A k \in 1 .. Len(sent[c]) : sent'[c][k] = sent[c][k]
      /\ \A k \in 1 .. Len(kinds) :
           sent'[c][Len(sent[c]) + k] = [kind |-> kinds[k], n |-> Len(sent[c]) + k]
  BY WriteEffect
<1>2. (\A d \in Clients : Len(sent[d]) \in Nat) /\ Len(kinds) \in Nat
  BY LenProperties DEF RowTypes
<1>3. Len(sent[c]) <= Len(sent'[c])
  BY <1>1, <1>2
<1>4. ASSUME SentRow(c) PROVE SentRow(c)'
  <2> DEFINE L == Len(sent[c])
             M == Len(kinds)
  <2>0. L \in Nat /\ M \in Nat /\ Len(sent'[c]) = L + M
    BY <1>1, <1>2
  <2>1. /\ \A k \in 1 .. L : sent'[c][k] = sent[c][k]
        /\ \A k \in 1 .. M : sent'[c][L + k] = [kind |-> kinds[k], n |-> L + k]
    BY <1>1
  <2>2. \A k \in 1 .. L : sent[c][k].n = k /\ (sent[c][k].kind = "pi" => k < L /\ sent[c][k + 1].kind = "ng")
    BY <1>4 DEF SentRow
  <2> SUFFICES ASSUME NEW k \in 1 .. L + M
               PROVE  /\ sent'[c][k].n = k
                      /\ sent'[c][k].kind = "pi" => k < L + M /\ sent'[c][k + 1].kind = "ng"
    BY <2>0 DEF SentRow
  <2> HIDE DEF L, M
  <2>3. CASE k <= L
    <3>1. k \in 1 .. L
      BY <2>0, <2>3
    <3>2. sent'[c][k] = sent[c][k]
      BY <2>1, <3>1
    <3>3. k < L => k + 1 \in 1 .. L /\ k < L + M
      BY <2>0, <3>1
    <3>4. k < L => sent'[c][k + 1] = sent[c][k + 1]
      BY <2>1, <3>3
    <3>5. sent[c][k].n = k /\ (sent[c][k].kind = "pi" => k < L /\ sent[c][k + 1].kind = "ng")
      BY <2>2, <3>1
    <3> QED BY <3>2, <3>3, <3>4, <3>5
  <2>4. CASE ~(k <= L)
    <3>1. PICK m \in 1 .. M : k = L + m
      <4>1. k - L \in 1 .. M /\ k = L + (k - L)
        BY <2>0, <2>4
      <4> QED BY <4>1
    <3>2. sent'[c][k].kind = kinds[m] /\ sent'[c][k].n = k
      <4>1. sent'[c][L + m] = [kind |-> kinds[m], n |-> L + m]
        BY <2>1, Zenon
      <4>2. sent'[c][k] = [kind |-> kinds[m], n |-> k]
        BY <3>1, <4>1, Zenon
      <4> QED BY <4>2
    <3>3. m < M => m + 1 \in 1 .. M /\ k + 1 = L + (m + 1) /\ k < L + M
      BY <2>0, <3>1
    <3>4. m < M => sent'[c][k + 1].kind = kinds[m + 1]
      <4> SUFFICES ASSUME m < M PROVE sent'[c][k + 1].kind = kinds[m + 1]
        OBVIOUS
      <4>1. sent'[c][L + (m + 1)] = [kind |-> kinds[m + 1], n |-> L + (m + 1)]
        BY <2>1, <3>3
      <4>2. k + 1 = L + (m + 1)
        BY <3>3
      <4> QED BY <4>1, <4>2
    <3>5. kinds[m] = "pi" => m < M /\ kinds[m + 1] = "ng"
      BY DEF M
    <3> QED BY <3>2, <3>3, <3>4, <3>5
  <2> QED BY <2>3, <2>4
<1>5. ASSUME NEW d \in Clients, d # c, SentRow(d) PROVE SentRow(d)'
  BY <1>1, <1>5 DEF SentRow
<1>6. \A d \in Clients : Len(sent[d]) <= Len(sent'[d])
  <2> SUFFICES ASSUME NEW d \in Clients PROVE Len(sent[d]) <= Len(sent'[d])
    OBVIOUS
  <2>1. CASE d = c
    BY <1>3, <2>1
  <2>2. CASE d # c
    <3>1. sent'[d] = sent[d] /\ Len(sent[d]) \in Nat
      BY <1>1, <1>2, <2>2
    <3> QED BY <3>1
  <2> QED BY <2>1, <2>2
<1>7. \A d \in Clients : \A k \in 1 .. Len(sent[d]) : sent'[d][k] = sent[d][k]
  BY <1>1
<1>8. \A d \in Clients : SentRow(d) => SentRow(d)'
  BY <1>4, <1>5
<1> QED BY <1>1, <1>6, <1>7, <1>8 DEF Grown

LEMMA StaysGrows == ASSUME RowTypes, sent' = sent PROVE Grown
<1>1. \A c \in Clients : Len(sent[c]) \in Nat
  BY LenProperties DEF RowTypes
<1> QED BY <1>1 DEF Grown, SentRow, RowTypes

LEMMA ClientsGrow ==
  ASSUME Types, Main \/ Loop
  PROVE  Grown
<1>0. RowTypes
  BY DEF Types
<1>1. CASE sent' = sent
  BY <1>0, <1>1, StaysGrows
<1>2. <<"hello">> \in Seq(Kinds) /\ <<"msg">> \in Seq(Kinds) /\ <<"pi", "ng">> \in Seq(Kinds)
  BY DEF Kinds
<1>3. CASE \E c \in Clients : OnConnect(c)
  <2>1. PICK c \in Clients : Write(c, <<"hello">>)
    BY <1>3 DEF OnConnect
  <2> DEFINE kinds == <<"hello">>
  <2>2. \A k \in 1 .. Len(kinds) : kinds[k] = "pi" => k < Len(kinds) /\ kinds[k + 1] = "ng"
    OBVIOUS
  <2>3. Write(c, kinds) /\ kinds \in Seq(Kinds)
    BY <1>2, <2>1
  <2> HIDE DEF kinds
  <2> QED BY <1>0, <2>2, <2>3, WriteGrows
<1>4. CASE \E c \in Clients : OnPing(c)
  <2>1. SUFFICES ASSUME NEW c \in Clients, Write(c, <<"pi", "ng">>) PROVE Grown
    BY <1>1, <1>4 DEF OnPing
  <2> DEFINE kinds == <<"pi", "ng">>
  <2>2. \A k \in 1 .. Len(kinds) : kinds[k] = "pi" => k < Len(kinds) /\ kinds[k + 1] = "ng"
    OBVIOUS
  <2>3. Write(c, kinds) /\ kinds \in Seq(Kinds)
    BY <1>2, <2>1
  <2> HIDE DEF kinds
  <2> QED BY <1>0, <2>2, <2>3, WriteGrows
<1>5. CASE RunPending
  <2>1. pending # << >> /\ pending \in Seq(Call)
    BY <1>5 DEF RunPending, Types, ClientTypes
  <2>2. Head(pending) \in Call
    BY <2>1, Popping
  <2>3. sent' = sent \/ (Head(pending).call = "send" /\ Write(Head(pending).to, <<"msg">>))
    BY <1>5 DEF RunPending
  <2>4. SUFFICES ASSUME Head(pending).call = "send", Write(Head(pending).to, <<"msg">>) PROVE Grown
    BY <1>1, <2>3
  <2> DEFINE kinds == <<"msg">>
  <2>5. PICK c \in Clients : Head(pending).to = c
    BY <2>2, <2>4 DEF Call
  <2>6. \A k \in 1 .. Len(kinds) : kinds[k] = "pi" => k < Len(kinds) /\ kinds[k + 1] = "ng"
    OBVIOUS
  <2>7. Write(c, kinds) /\ kinds \in Seq(Kinds)
    BY <1>2, <2>4, <2>5
  <2> HIDE DEF kinds
  <2> QED BY <1>0, <2>6, <2>7, WriteGrows
<1> QED BY <1>1, <1>3, <1>4, <1>5, ClientKinds
        DEF Start, SendMsg, Close, Delete, QuitLoop, OnDisconnect, Apart, Ended

(* What a call at the head of the queue does.                               *)
LEMMA RunPendingEffect ==
  ASSUME Types, RunPending
  PROVE  /\ Len(pending) \in Nat /\ Len(pending) >= 1
         /\ pending' \in Seq(Call) /\ Len(pending') = Len(pending) - 1
         /\ \A k \in 1 .. Len(pending) - 1 : pending'[k] = pending[k + 1]
         /\ \/ \E c \in Clients :
                 /\ pending[1] = [call |-> "send", to |-> c]
                 /\ IF NoConnection(c) THEN sent' = sent ELSE Write(c, <<"msg">>)
                 /\ UNCHANGED <<wire, link, quitting>>
            \/ \E c \in Clients :
                 /\ pending[1] = [call |-> "shutdown", to |-> c]
                 /\ wire' = IF NoConnection(c) THEN wire ELSE [wire EXCEPT ![c] = "fin"]
                 /\ UNCHANGED <<sent, link, quitting>>
            \/ \E c \in Clients :
                 /\ pending[1] = [call |-> "forceClose", to |-> c]
                 /\ IF NoConnection(c) THEN UNCHANGED <<link, wire>>
                    ELSE SetLink(c, "down") /\ wire' = [wire EXCEPT ![c] = "reset"]
                 /\ UNCHANGED <<sent, quitting>>
            \/ /\ pending[1] = [call |-> "quit"]
               /\ quitting' = TRUE
               /\ UNCHANGED <<sent, wire, link>>
<1>1. pending # << >> /\ pending \in Seq(Call) /\ pending' = Tail(pending)
  BY DEF RunPending, Types, ClientTypes
<1>2. /\ Len(pending) \in Nat /\ Len(pending) >= 1
      /\ pending' \in Seq(Call) /\ Len(pending') = Len(pending) - 1
      /\ \A k \in 1 .. Len(pending) - 1 : pending'[k] = pending[k + 1]
  BY <1>1, Popping
<1>3. Head(pending) = pending[1] /\ pending[1] \in Call
  BY <1>1, Popping
<1>4. \/ \E c \in Clients : pending[1] = [call |-> "send", to |-> c]
      \/ \E c \in Clients : pending[1] = [call |-> "shutdown", to |-> c]
      \/ \E c \in Clients : pending[1] = [call |-> "forceClose", to |-> c]
      \/ pending[1] = [call |-> "quit"]
  BY <1>3 DEF Call, Calls
<1> DEFINE q == Head(pending)
<1>5. q = pending[1]
  BY <1>3
<1>6. \/ /\ q.call = "send"
         /\ IF NoConnection(q.to) THEN UNCHANGED sent ELSE Write(q.to, <<"msg">>)
         /\ UNCHANGED <<wire, link, quitting>>
      \/ /\ q.call = "shutdown"
         /\ wire' = IF NoConnection(q.to) THEN wire ELSE [wire EXCEPT ![q.to] = "fin"]
         /\ UNCHANGED <<sent, link, quitting>>
      \/ /\ q.call = "forceClose"
         /\ IF NoConnection(q.to) THEN UNCHANGED <<link, wire>>
            ELSE SetLink(q.to, "down") /\ wire' = [wire EXCEPT ![q.to] = "reset"]
         /\ UNCHANGED <<sent, quitting>>
      \/ /\ q.call = "quit"
         /\ quitting' = TRUE
         /\ UNCHANGED <<sent, wire, link>>
  BY DEF RunPending
<1> HIDE DEF q
<1>7. CASE \E c \in Clients : q = [call |-> "send", to |-> c]
  <2>1. PICK c \in Clients : q = [call |-> "send", to |-> c]
    BY <1>7
  <2>2. q.call = "send" /\ q.to = c
    BY <2>1
  <2>3. /\ IF NoConnection(c) THEN UNCHANGED sent ELSE Write(c, <<"msg">>)
        /\ UNCHANGED <<wire, link, quitting>>
    BY <1>6, <2>2
  <2> QED BY <1>2, <1>5, <2>1, <2>3
<1>8. CASE \E c \in Clients : q = [call |-> "shutdown", to |-> c]
  <2>1. PICK c \in Clients : q = [call |-> "shutdown", to |-> c]
    BY <1>8
  <2>2. q.call = "shutdown" /\ q.to = c
    BY <2>1
  <2>3. /\ wire' = IF NoConnection(c) THEN wire ELSE [wire EXCEPT ![c] = "fin"]
        /\ UNCHANGED <<sent, link, quitting>>
    BY <1>6, <2>2
  <2> QED BY <1>2, <1>5, <2>1, <2>3
<1>9. CASE \E c \in Clients : q = [call |-> "forceClose", to |-> c]
  <2>1. PICK c \in Clients : q = [call |-> "forceClose", to |-> c]
    BY <1>9
  <2>2. q.call = "forceClose" /\ q.to = c
    BY <2>1
  <2>3. /\ IF NoConnection(c) THEN UNCHANGED <<link, wire>>
           ELSE SetLink(c, "down") /\ wire' = [wire EXCEPT ![c] = "reset"]
        /\ UNCHANGED <<sent, quitting>>
    BY <1>6, <2>2
  <2> QED BY <1>2, <1>5, <2>1, <2>3
<1>10. CASE q = [call |-> "quit"]
  <2>1. q.call = "quit"
    BY <1>10
  <2>2. quitting' = TRUE /\ UNCHANGED <<sent, wire, link>>
    BY <1>6, <2>1
  <2> QED BY <1>2, <1>5, <1>10, <2>2
<1> QED BY <1>4, <1>5, <1>7, <1>8, <1>9, <1>10

(* Queueing a call puts it behind the others.                               *)
LEMMA QueueEffect ==
  ASSUME Types, NEW e \in Call, pending' = Append(pending, e)
  PROVE  /\ Len(pending) \in Nat /\ pending' \in Seq(Call)
         /\ Len(pending') = Len(pending) + 1
         /\ \A k \in 1 .. Len(pending) : pending'[k] = pending[k]
         /\ pending'[Len(pending) + 1] = e
  BY AppendProperties, LenProperties DEF Types, ClientTypes

LEMMA CallTypes ==
  /\ [call |-> "quit"] \in Call
  /\ \A c \in Clients : \A what \in Calls : [call |-> what, to |-> c] \in Call
  BY DEF Call

(* The types hold after every step of the clients.                          *)
LEMMA NetTypesClient ==
  ASSUME Types, Main \/ Loop
  PROVE  NetTypes'
<1> USE DEF Types
<1>1. serv' = serv /\ m_Conns' = m_Conns /\ torn' = torn /\ dead' = dead
  BY ClientSteps DEF serverVars
<1>2. CASE wire' = wire
  BY <1>1, <1>2 DEF NetTypes
<1>3. CASE \E c \in Clients : OnConnect(c)
  BY <1>1, <1>3 DEF NetTypes, OnConnect
<1>4. CASE RunPending
  <2>1. \/ wire' = wire
        \/ \E c \in Clients : wire' = [wire EXCEPT ![c] = "fin"]
        \/ \E c \in Clients : wire' = [wire EXCEPT ![c] = "reset"]
    BY <1>4, RunPendingEffect
  <2> QED BY <1>1, <2>1 DEF NetTypes
<1>5. CASE Ended
  <2>1. wire' = [c \in Clients |-> IF wire[c] = "none" THEN "none" ELSE "reset"]
    BY <1>5 DEF Ended, ProcessEnds
  <2> QED BY <1>1, <2>1 DEF NetTypes
<1> QED BY <1>2, <1>3, <1>4, <1>5, ClientKinds
        DEF Start, SendMsg, Close, Delete, QuitLoop, OnDisconnect, OnPing, Apart

LEMMA WalkTypesClient ==
  ASSUME Types, Main \/ Loop
  PROVE  WalkTypes'
  BY ClientSteps DEF Types, WalkTypes, serverVars

LEMMA RowTypesClient ==
  ASSUME Types, Main \/ Loop
  PROVE  RowTypes'
<1>1. got' = got /\ back' = back /\ cut' = cut
  BY ClientSteps DEF serverVars
<1>2. /\ sent' \in [Clients -> Seq(Sent)]
      /\ \A c \in Clients : Len(sent[c]) <= Len(sent'[c])
  BY ClientsGrow DEF Grown
<1>3. \A c \in Clients : got[c] \in Nat /\ Len(sent[c]) \in Nat /\ Len(sent'[c]) \in Nat
  BY <1>2, LenProperties DEF Types, RowTypes
<1>4. \A c \in Clients : got[c] <= Len(sent'[c])
  <2> SUFFICES ASSUME NEW c \in Clients PROVE got[c] <= Len(sent'[c])
    OBVIOUS
  <2>1. got[c] <= Len(sent[c]) /\ Len(sent[c]) <= Len(sent'[c])
    BY <1>2 DEF Types, RowTypes
  <2> QED BY <1>3, <2>1
<1> QED BY <1>1, <1>2, <1>4 DEF Types, RowTypes

LEMMA ClientTypesClient ==
  ASSUME Types, Main \/ Loop
  PROVE  ClientTypes'
<1> USE DEF Types
<1>0. ASSUME NEW how \in {"end", "crash"}, ProcessEnds(how)
      PROVE  /\ phase' \in LastPhases /\ pending' \in Seq(Call) /\ looping' \in BOOLEAN
             /\ link' \in [Clients -> {"none", "connecting", "up", "closing", "down"}]
  <2>1. phase' \in LastPhases
    BY <1>0 DEF ProcessEnds, LastPhases
  <2>2. << >> \in Seq(Call)
    OBVIOUS
  <2>3. pending' = << >> /\ looping' = FALSE /\ link' = [c \in Clients |-> "down"]
    BY <1>0 DEF ProcessEnds
  <2> QED BY <2>1, <2>2, <2>3
<1>1. CASE \E c \in Clients : Start(c)
  <2>1. PICK c \in Clients : Start(c)
    BY <1>1
  <2>2. next' \in Clients /\ phase' \in {"new", "send"}
    BY <2>1, AdvanceEffect DEF Start
  <2> QED BY <2>1, <2>2 DEF ClientTypes, Start, SetLink
<1>2. CASE \E c \in Clients : SendMsg(c)
  <2>1. PICK c \in Clients : SendMsg(c)
    BY <1>2
  <2>2. next' \in Clients /\ phase' \in {"send", "close"}
    BY <2>1, AdvanceEffect DEF SendMsg
  <2>3. pending' \in Seq(Call)
    BY <2>1, QueueEffect, CallTypes DEF SendMsg, Queue, Calls
  <2> QED BY <2>1, <2>2, <2>3 DEF ClientTypes, SendMsg
<1>3. CASE \E c \in Clients : SendMsgTooEarly(c)
  BY <1>0, <1>3 DEF ClientTypes, SendMsgTooEarly
<1>4. CASE \E c \in Clients : Close(c)
  <2>1. PICK c \in Clients : Close(c)
    BY <1>4
  <2>2. next' \in Clients /\ phase' \in {"close", "delete"}
    BY <2>1, AdvanceEffect DEF Close
  <2>3. pending' \in Seq(Call)
    BY <2>1, QueueEffect, CallTypes DEF Close, Queue, Calls, ClientTypes
  <2> QED BY <2>1, <2>2, <2>3 DEF ClientTypes, Close, SetLink
<1>5. CASE \E c \in Clients : Delete(c)
  <2>1. PICK c \in Clients : Delete(c)
    BY <1>5
  <2>2. next' \in Clients /\ phase' \in {"delete", "quit"}
    BY <2>1, AdvanceEffect DEF Delete
  <2>3. pending' \in Seq(Call)
    BY <2>1, QueueEffect, CallTypes DEF Delete, Queue, Calls, ClientTypes
  <2> QED BY <2>1, <2>2, <2>3 DEF ClientTypes, Delete, SetLink
<1>6. CASE QuitLoop
  <2>1. pending' \in Seq(Call)
    BY <1>6, QueueEffect, CallTypes DEF QuitLoop
  <2> QED BY <1>6, <2>1 DEF ClientTypes, QuitLoop, LastPhases
<1>7. CASE \E c \in Clients : OnConnect(c)
  BY <1>7 DEF ClientTypes, OnConnect, SetLink
<1>8. CASE \E c \in Clients : OnDisconnect(c)
  BY <1>8 DEF ClientTypes, OnDisconnect, SetLink
<1>9. ASSUME NEW c \in Clients, Fire(c)
      PROVE  pings' \in [Clients -> Nat] /\ \A d \in Clients : pings'[d] <= MaxPings[d]
  <2>1. pings[c] \in Nat /\ MaxPings[c] \in Nat /\ pings[c] < MaxPings[c]
    BY <1>9, PingsAssumption DEF ClientTypes, Fire
  <2>2. pings' = [pings EXCEPT ![c] = pings[c] + 1] /\ pings[c] + 1 \in Nat /\ pings[c] + 1 <= MaxPings[c]
    BY <1>9, <2>1 DEF Fire
  <2> QED BY <2>2 DEF ClientTypes
<1>10. CASE \E c \in Clients : OnPing(c)
  BY <1>9, <1>10 DEF ClientTypes, OnPing
<1>11. CASE \E c \in Clients : OnPingFails(c)
  <2>1. PICK c \in Clients : OnPingFails(c)
    BY <1>11
  <2>2. pings' \in [Clients -> Nat] /\ \A d \in Clients : pings'[d] <= MaxPings[d]
    BY <1>9, <2>1 DEF OnPingFails
  <2> QED BY <1>0, <2>1, <2>2 DEF ClientTypes, OnPingFails
<1>12. CASE RunPending
  <2>1. pending' \in Seq(Call)
    BY <1>12, RunPendingEffect
  <2>2. \/ link' = link /\ quitting' \in BOOLEAN
        \/ \E c \in Clients : link' = [link EXCEPT ![c] = "down"] /\ quitting' = quitting
    BY <1>12, RunPendingEffect DEF SetLink, ClientTypes
  <2>3. link' \in [Clients -> {"none", "connecting", "up", "closing", "down"}]
    BY <2>2 DEF ClientTypes
  <2>4. quitting' \in BOOLEAN
    BY <2>2 DEF ClientTypes
  <2> QED BY <1>12, <2>1, <2>3, <2>4 DEF ClientTypes, RunPending
<1>13. CASE Return
  BY <1>13 DEF ClientTypes, Return, LastPhases
<1>14. CASE Exit
  BY <1>0, <1>14 DEF ClientTypes, Exit
<1>15. CASE LoopEnds
  BY <1>15 DEF ClientTypes, LoopEnds
<1> QED BY <1>1, <1>2, <1>3, <1>4, <1>5, <1>6, <1>7, <1>8, <1>10, <1>11, <1>12, <1>13, <1>14,
           <1>15, ClientSteps

LEMMA TypesStep == ASSUME Types, Next PROVE Types'
<1>1. CASE ServerStep(IoThread \/ MainLoop)
  BY <1>1, TypesServer
<1>2. CASE Main \/ Loop
  BY <1>2, NetTypesClient, WalkTypesClient, RowTypesClient, ClientTypesClient DEF Types
<1> QED BY <1>1, <1>2 DEF Next

LEMMA TypesAreTypeOK == Types => TypeOK
<1> SUFFICES ASSUME Types PROVE TypeOK
  OBVIOUS
<1> USE DEF Types
<1>1. \A c \in Clients : got[c] \in 0 .. Len(sent[c])
  <2> SUFFICES ASSUME NEW c \in Clients PROVE got[c] \in 0 .. Len(sent[c])
    OBVIOUS
  <2>1. got[c] \in Nat /\ Len(sent[c]) \in Nat /\ got[c] <= Len(sent[c])
    BY LenProperties DEF RowTypes
  <2> QED BY <2>1
<1>2. \A c \in Clients : pings[c] \in 0 .. MaxPings[c]
  <2> SUFFICES ASSUME NEW c \in Clients PROVE pings[c] \in 0 .. MaxPings[c]
    OBVIOUS
  <2>1. pings[c] \in Nat /\ MaxPings[c] \in Nat /\ pings[c] <= MaxPings[c]
    BY PingsAssumption DEF ClientTypes
  <2> QED BY <2>1
<1>3. phase \in Range(Phases) \cup LastPhases
  BY NextPhase DEF ClientTypes
<1>4. pending \in Seq([call : Calls, to : Clients] \cup {[call |-> "quit"]})
  BY DEF ClientTypes, Call
<1>5. /\ sent \in [Clients -> Seq([kind : Kinds, n : Nat])]
      /\ back \in [Clients -> Seq([kind : Kinds \cup {"push"}, n : Nat])]
  BY DEF RowTypes, Sent, Back
<1>6. /\ wire \in [Clients -> {"none", "open", "fin", "reset"}]
      /\ serv \in [Clients -> {"none", "up", "closed"}]
      /\ m_Conns = {c \in Clients : serv[c] = "up"}
      /\ torn \in BOOLEAN /\ dead \in BOOLEAN
  BY DEF NetTypes
<1>7. /\ rounds \in 0 .. MaxRounds /\ cursor \in Clients \cup {-1, 0}
      /\ ioQueue \in Seq([to : Clients, n : 1 .. MaxRounds])
      /\ joined \in [Clients -> 0 .. MaxRounds]
  BY DEF WalkTypes
<1>8. cut \in [Clients -> SUBSET Nat]
  BY DEF RowTypes
<1>9. /\ next \in Clients /\ object \in [Clients -> {"none", "alive", "deleted"}]
      /\ link \in [Clients -> {"none", "connecting", "up", "closing", "down"}]
      /\ quitting \in BOOLEAN /\ looping \in BOOLEAN
  BY DEF ClientTypes
<1> QED BY <1>1, <1>2, <1>3, <1>4, <1>5, <1>6, <1>7, <1>8, <1>9 DEF TypeOK

-----------------------------------------------------------------------------
(* OnMessage appends what it has taken, or drops what has no ping in it.    *)
LEMMA MessageRows ==
  ASSUME Types, NEW c \in Clients, OnMessage(c), sent' = sent,
         NEW d \in Clients, SentRow(d), EchoRow(d)
  PROVE  EchoRow(d)'
<1>1. PICK n \in got[c] + 1 .. Len(sent[c]) :
        /\ got' = [got EXCEPT ![c] = n]
        /\ cut' = IF sent[c][n].kind = "pi" THEN [cut EXCEPT ![c] = @ \cup {n}] ELSE cut
        /\ back' \in [Clients -> Seq(Back)]
        /\ \A e \in Clients : e # c => back'[e] = back[e]
        /\ \A k \in 1 .. Len(back[c]) : back'[c][k] = back[c][k]
        /\ Answers(c, n) \/ Drops(c, n)
  BY MessageEffect DEF Types
<1>2. got \in [Clients -> Nat] /\ cut \in [Clients -> SUBSET Nat]
  BY DEF Types, RowTypes
<1>3. CASE d # c
  <2>1. got'[d] = got[d] /\ cut'[d] = cut[d] /\ back'[d] = back[d] /\ sent'[d] = sent[d]
    BY <1>1, <1>2, <1>3
  <2> QED BY <2>1 DEF EchoRow, Echoes
<1>4. CASE d = c
  <2> DEFINE g == got[c]
             s == sent[c]
             b == back[c]
             b2 == back'[c]
             L == Len(b)
  <2>1. /\ s \in Seq(Sent) /\ b \in Seq(Back) /\ b2 \in Seq(Back)
        /\ g \in Nat /\ Len(s) \in Nat /\ L \in Nat /\ Len(b2) \in Nat
    <3>1. s \in Seq(Sent) /\ b \in Seq(Back) /\ b2 \in Seq(Back) /\ g \in Nat
      BY <1>1 DEF Types, RowTypes
    <3> QED BY <3>1, LenProperties
  <2>2. n \in Nat /\ g < n /\ n <= Len(s)
    BY <1>1, <2>1
  <2>3. got'[c] = n /\ sent'[c] = s
    BY <1>1, <1>2
  <2>4. cut'[c] = IF s[n].kind = "pi" THEN cut[c] \cup {n} ELSE cut[c]
    BY <1>1, <1>2
  <2>5. /\ DOMAIN b = 1 .. L /\ DOMAIN b2 = 1 .. Len(b2)
        /\ \A k \in 1 .. L : b2[k] = b[k]
    BY <1>1, <2>1, LenProperties
  <2>6. \A k \in 1 .. Len(s) :
          /\ s[k].n = k /\ s[k].kind # "push"
          /\ s[k].kind = "pi" => k < Len(s) /\ s[k + 1].kind = "ng"
    <3>1. \A k \in 1 .. Len(s) : s[k] \in Sent
      BY <2>1, ElementOfSeq
    <3>2. \A k \in 1 .. Len(s) : s[k].kind # "push"
      BY <3>1 DEF Sent, Kinds
    <3> QED BY <1>4, <3>2 DEF SentRow
  <2>7. /\ \A i \in 1 .. L : b[i].kind # "push" => b[i].n \in 1 .. g /\ b[i] = s[b[i].n]
        /\ \A i, j \in 1 .. L : b[i].kind # "push" /\ b[j].kind # "push" /\ i < j => b[i].n < b[j].n
        /\ \A k \in 1 .. g - 1 : s[k].kind = "pi" /\ k \notin cut[c] =>
             (\E i \in 1 .. L : b[i] = s[k]) /\ (\E i \in 1 .. L : b[i] = s[k + 1])
        /\ g > 0 /\ s[g].kind = "pi" => g \in cut[c]
    <3>1. EchoRow(c)
      BY <1>4
    <3>2. \A i \in 1 .. L : b[i].kind # "push" => i \in Echoes(c)
      BY <2>5 DEF Echoes
    <3>3. \A x \in Range(b) : \E i \in 1 .. L : b[i] = x
      BY <2>5 DEF Range
    <3>4. \A k \in 1 .. g - 1 : s[k].kind = "pi" /\ k \notin cut[c] => s[k] \in Range(b) /\ s[k + 1] \in Range(b)
      BY <3>1 DEF EchoRow
    <3> QED BY <3>1, <3>2, <3>3, <3>4 DEF EchoRow
  <2>8. \/ /\ Len(b2) = L + (n - g)
           /\ \A k \in 1 .. n - g : b2[L + k] = s[g + k]
        \/ /\ Len(b2) = L
           /\ \A k \in g + 1 .. n - 1 : ~(s[k].kind = "pi" /\ s[k + 1].kind = "ng")
    BY <1>1 DEF Answers, Drops
  <2>9. SUFFICES
          /\ \A i \in 1 .. Len(b2) : b2[i].kind # "push" => b2[i].n \in 1 .. n /\ b2[i] = s[b2[i].n]
          /\ \A i, j \in 1 .. Len(b2) :
               b2[i].kind # "push" /\ b2[j].kind # "push" /\ i < j => b2[i].n < b2[j].n
          /\ \A k \in 1 .. n - 1 : s[k].kind = "pi" /\ k \notin cut'[c] =>
               (\E i \in 1 .. Len(b2) : b2[i] = s[k]) /\ (\E i \in 1 .. Len(b2) : b2[i] = s[k + 1])
          /\ s[n].kind = "pi" => n \in cut'[c]
    <3>1. Echoes(c)' = {i \in 1 .. Len(b2) : b2[i].kind # "push"}
      BY <2>5 DEF Echoes
    <3>2. \A x : (\E i \in 1 .. Len(b2) : b2[i] = x) => x \in Range(b2)
      BY <2>5 DEF Range
    <3> HIDE DEF b2, s
    <3>3. \A k \in 1 .. n - 1 : s[k].kind = "pi" /\ k \notin cut'[c] => {s[k], s[k + 1]} \subseteq Range(b2)
      BY <2>9, <3>2
    <3> QED BY <1>4, <2>3, <2>9, <3>1, <3>3 DEF EchoRow, b2
  <2> HIDE DEF g, s, b, b2, L
  <2>10. s[n].kind = "pi" => n \in cut'[c]
    BY <2>4
  <2>11. CASE /\ Len(b2) = L + (n - g)
              /\ \A k \in 1 .. n - g : b2[L + k] = s[g + k]
    <3>1. \A i \in 1 .. Len(b2) : i \notin 1 .. L => i - L \in 1 .. n - g /\ i = L + (i - L)
      BY <2>1, <2>2, <2>11
    <3>2. ASSUME NEW i \in 1 .. Len(b2), i \notin 1 .. L
          PROVE  /\ b2[i] = s[g + (i - L)] /\ g + (i - L) \in 1 .. n /\ g + (i - L) \in 1 .. Len(s)
                 /\ b2[i].n = g + (i - L)
      <4>1. i - L \in 1 .. n - g /\ i = L + (i - L)
        BY <3>1, <3>2
      <4>2. g + (i - L) \in 1 .. n /\ g + (i - L) \in 1 .. Len(s)
        BY <2>1, <2>2, <4>1
      <4>3. b2[L + (i - L)] = s[g + (i - L)]
        BY <2>11, <4>1
      <4> QED BY <2>6, <4>1, <4>2, <4>3
    <3>3. \A i \in 1 .. Len(b2) : b2[i].kind # "push" => b2[i].n \in 1 .. n /\ b2[i] = s[b2[i].n]
      <4> SUFFICES ASSUME NEW i \in 1 .. Len(b2), b2[i].kind # "push"
                   PROVE  b2[i].n \in 1 .. n /\ b2[i] = s[b2[i].n]
        OBVIOUS
      <4>1. CASE i \in 1 .. L
        <5>1. b2[i] = b[i] /\ b[i].n \in 1 .. g /\ b[i] = s[b[i].n]
          BY <2>5, <2>7, <4>1
        <5>2. b[i].n \in 1 .. n
          BY <2>1, <2>2, <5>1
        <5> QED BY <5>1, <5>2
      <4> QED BY <3>2, <4>1
    <3>4. \A i, j \in 1 .. Len(b2) :
            b2[i].kind # "push" /\ b2[j].kind # "push" /\ i < j => b2[i].n < b2[j].n
      <4> SUFFICES ASSUME NEW i \in 1 .. Len(b2), NEW j \in 1 .. Len(b2),
                          b2[i].kind # "push", b2[j].kind # "push", i < j
                   PROVE  b2[i].n < b2[j].n
        OBVIOUS
      <4>1. CASE j \in 1 .. L
        <5>1. i \in 1 .. L
          BY <2>1, <4>1
        <5> QED BY <2>5, <2>7, <4>1, <5>1
      <4>2. CASE i \in 1 .. L /\ j \notin 1 .. L
        <5>1. b2[i].n \in 1 .. g
          BY <2>5, <2>7, <4>2
        <5>2. b2[j].n = g + (j - L) /\ j - L \in 1 .. n - g
          BY <3>1, <3>2, <4>2
        <5>3. b2[j].n \in Int /\ g < b2[j].n
          BY <2>1, <2>2, <5>2
        <5>4. b2[i].n \in Int /\ b2[i].n <= g /\ g \in Int
          BY <2>1, <5>1
        <5> QED BY <5>3, <5>4
      <4>3. CASE i \notin 1 .. L /\ j \notin 1 .. L
        <5>1. b2[i].n = g + (i - L) /\ b2[j].n = g + (j - L)
          BY <3>2, <4>3
        <5> QED BY <2>1, <5>1
      <4> QED BY <4>1, <4>2, <4>3
    <3>5. \A k \in 1 .. n : k \notin 1 .. g => \E i \in 1 .. Len(b2) : b2[i] = s[k]
      <4> SUFFICES ASSUME NEW k \in 1 .. n, k \notin 1 .. g
                   PROVE  \E i \in 1 .. Len(b2) : b2[i] = s[k]
        OBVIOUS
      <4>1. k - g \in 1 .. n - g /\ g + (k - g) = k /\ L + (k - g) \in 1 .. Len(b2)
        BY <2>1, <2>2, <2>11
      <4> QED BY <2>11, <4>1
    <3>6. \A i \in 1 .. L : i \in 1 .. Len(b2)
      BY <2>1, <2>2, <2>11
    <3>7. ASSUME NEW k \in 1 .. n - 1, s[k].kind = "pi", k \notin cut'[c]
          PROVE  (\E i \in 1 .. Len(b2) : b2[i] = s[k]) /\ (\E i \in 1 .. Len(b2) : b2[i] = s[k + 1])
      <4>1. k \notin cut[c]
        BY <2>4, <3>7
      <4>2. CASE k \in 1 .. g - 1
        <5>1. (\E i \in 1 .. L : b[i] = s[k]) /\ (\E i \in 1 .. L : b[i] = s[k + 1])
          BY <2>7, <3>7, <4>1, <4>2
        <5> QED BY <2>5, <3>6, <5>1
      <4>3. CASE k \notin 1 .. g - 1
        <5>1. k # g
          BY <2>1, <2>7, <3>7, <4>1
        <5>2. k \in 1 .. n /\ k + 1 \in 1 .. n /\ k \notin 1 .. g /\ k + 1 \notin 1 .. g
          BY <2>1, <2>2, <4>3, <5>1
        <5> QED BY <3>5, <5>2
      <4> QED BY <4>2, <4>3
    <3> QED BY <2>10, <3>3, <3>4, <3>7
  <2>12. CASE /\ Len(b2) = L
              /\ \A k \in g + 1 .. n - 1 : ~(s[k].kind = "pi" /\ s[k + 1].kind = "ng")
    <3>1. \A i \in 1 .. Len(b2) : i \in 1 .. L /\ b2[i] = b[i]
      BY <2>5, <2>12
    <3>2. \A m \in 1 .. g : m \in 1 .. n
      BY <2>1, <2>2
    <3>3. \A i \in 1 .. Len(b2) : b2[i].kind # "push" => b2[i].n \in 1 .. n /\ b2[i] = s[b2[i].n]
      BY <2>7, <3>1, <3>2
    <3>4. \A i, j \in 1 .. Len(b2) :
            b2[i].kind # "push" /\ b2[j].kind # "push" /\ i < j => b2[i].n < b2[j].n
      BY <2>7, <3>1
    <3>5. ASSUME NEW k \in 1 .. n - 1, s[k].kind = "pi", k \notin cut'[c]
          PROVE  (\E i \in 1 .. Len(b2) : b2[i] = s[k]) /\ (\E i \in 1 .. Len(b2) : b2[i] = s[k + 1])
      <4>1. k \notin cut[c]
        BY <2>4, <3>5
      <4>2. k \in 1 .. Len(s)
        BY <2>1, <2>2
      <4>3. s[k + 1].kind = "ng"
        BY <2>6, <3>5, <4>2
      <4>4. k \notin g + 1 .. n - 1
        BY <2>12, <3>5, <4>3
      <4>5. k # g
        BY <2>1, <2>7, <3>5, <4>1
      <4>6. k \in 1 .. g - 1
        BY <2>1, <2>2, <4>4, <4>5
      <4>7. (\E i \in 1 .. L : b[i] = s[k]) /\ (\E i \in 1 .. L : b[i] = s[k + 1])
        BY <2>7, <3>5, <4>1, <4>6
      <4> QED BY <2>5, <2>12, <4>7
    <3> QED BY <2>10, <3>3, <3>4, <3>5
  <2> QED BY <2>8, <2>11, <2>12
<1> QED BY <1>3, <1>4

(* A push that is appended is no echo.                                      *)
LEMMA PushedRows ==
  ASSUME Types, RunPush, sent' = sent, NEW d \in Clients, EchoRow(d)
  PROVE  EchoRow(d)'
<1>1. PICK c \in Clients, n \in 1 .. MaxRounds :
        /\ back' \in [Clients -> Seq(Back)]
        /\ \A e \in Clients : e # c \/ serv[e] # "up" => back'[e] = back[e]
        /\ serv[c] = "up" =>
             /\ Len(back'[c]) = Len(back[c]) + 1
             /\ \A k \in 1 .. Len(back[c]) : back'[c][k] = back[c][k]
             /\ back'[c][Len(back[c]) + 1] = [kind |-> "push", n |-> n]
  BY RunPushEffect DEF Types
<1>2. got' = got /\ cut' = cut
  BY DEF RunPush
<1>3. CASE back'[d] = back[d]
  BY <1>2, <1>3 DEF EchoRow, Echoes
<1>4. CASE d = c /\ serv[c] = "up"
  <2>1. /\ back[d] \in Seq(Back) /\ back'[d] \in Seq(Back)
    BY <1>1 DEF Types, RowTypes
  <2> DEFINE b == back[d]
             b2 == back'[d]
             L == Len(b)
  <2>2. /\ L \in Nat /\ Len(b2) = L + 1 /\ DOMAIN b = 1 .. L /\ DOMAIN b2 = 1 .. L + 1
        /\ \A k \in 1 .. L : b2[k] = b[k]
        /\ b2[L + 1].kind = "push"
    <3>1. L \in Nat /\ DOMAIN b = 1 .. L /\ DOMAIN b2 = 1 .. Len(b2)
      BY <2>1, LenProperties
    <3>2. /\ Len(b2) = L + 1
          /\ \A k \in 1 .. L : b2[k] = b[k]
          /\ b2[L + 1] = [kind |-> "push", n |-> n]
      BY <1>1, <1>4
    <3> QED BY <3>1, <3>2
  <2>3. Echoes(d) = {i \in 1 .. L : b[i].kind # "push"}
    BY <2>2 DEF Echoes
  <2>4. Echoes(d)' = {i \in 1 .. L + 1 : b2[i].kind # "push"}
    BY <2>2 DEF Echoes
  <2>5. Range(b) \subseteq Range(b2)
    <3> SUFFICES ASSUME NEW i \in 1 .. L PROVE b[i] \in Range(b2)
      BY <2>2 DEF Range
    <3>1. i \in 1 .. L + 1 /\ b2[i] = b[i]
      BY <2>2
    <3> QED BY <2>2, <3>1 DEF Range
  <2> HIDE DEF L, b, b2
  <2>6. Echoes(d)' = Echoes(d) /\ \A i \in Echoes(d) : b2[i] = b[i]
    <3>1. \A i \in 1 .. L + 1 : i \in 1 .. L \/ i = L + 1
      BY <2>2
    <3>2. \A i \in 1 .. L : i \in 1 .. L + 1
      BY <2>2
    <3> QED BY <2>2, <2>3, <2>4, <3>1, <3>2
  <2>7. \A i \in Echoes(d)' : back'[d][i] = back[d][i]
    BY <2>6 DEF b, b2
  <2>8. Range(back[d]) \subseteq Range(back'[d])
    BY <2>5 DEF b, b2
  <2>9. sent'[d] = sent[d] /\ got'[d] = got[d] /\ cut'[d] = cut[d]
    BY <1>2
  <2>10. \A i \in Echoes(d)' : back'[d][i].n \in 1 .. got'[d] /\ back'[d][i] = sent'[d][back'[d][i].n]
    BY <2>6, <2>7, <2>9 DEF EchoRow
  <2>11. \A i, j \in Echoes(d)' : i < j => back'[d][i].n < back'[d][j].n
    BY <2>6, <2>7 DEF EchoRow
  <2>12. \A k \in 1 .. got'[d] - 1 :
           sent'[d][k].kind = "pi" /\ k \notin cut'[d] =>
             {sent'[d][k], sent'[d][k + 1]} \subseteq Range(back'[d])
    BY <2>8, <2>9 DEF EchoRow
  <2>13. got'[d] > 0 /\ sent'[d][got'[d]].kind = "pi" => got'[d] \in cut'[d]
    BY <2>9 DEF EchoRow
  <2> QED BY <2>10, <2>11, <2>12, <2>13 DEF EchoRow
<1> QED BY <1>1, <1>3, <1>4

(* What the server has read stays as it is while the client sends more.     *)
LEMMA ClientRows ==
  ASSUME Types, Main \/ Loop, NEW d \in Clients, SentRow(d), EchoRow(d)
  PROVE  SentRow(d)' /\ EchoRow(d)'
<1>1. got' = got /\ back' = back /\ cut' = cut
  BY ClientSteps DEF serverVars
<1>2. SentRow(d)' /\ \A k \in 1 .. Len(sent[d]) : sent'[d][k] = sent[d][k]
  BY ClientsGrow DEF Grown
<1>3. got[d] \in Nat /\ Len(sent[d]) \in Nat /\ got[d] <= Len(sent[d])
  BY LenProperties DEF Types, RowTypes
<1>4. \A k \in 1 .. got[d] : sent'[d][k] = sent[d][k]
  BY <1>2, <1>3
<1>5. Echoes(d)' = Echoes(d)
  BY <1>1 DEF Echoes
<1>6. \A i \in Echoes(d) : back[d][i].n \in 1 .. got[d] /\ back[d][i] = sent'[d][back[d][i].n]
  BY <1>4 DEF EchoRow
<1>7. \A k \in 1 .. got[d] - 1 : sent'[d][k] = sent[d][k] /\ sent'[d][k + 1] = sent[d][k + 1]
  <2>1. \A k \in 1 .. got[d] - 1 : k \in 1 .. got[d] /\ k + 1 \in 1 .. got[d]
    BY <1>3
  <2> QED BY <1>4, <2>1
<1>8. \A k \in 1 .. got[d] - 1 :
        sent'[d][k].kind = "pi" /\ k \notin cut[d] =>
          {sent'[d][k], sent'[d][k + 1]} \subseteq Range(back[d])
  BY <1>7 DEF EchoRow
<1>9. got[d] > 0 /\ sent'[d][got[d]].kind = "pi" => got[d] \in cut[d]
  <2>1. got[d] > 0 => got[d] \in 1 .. got[d]
    BY <1>3
  <2> QED BY <1>4, <2>1 DEF EchoRow
<1>10. \A i, j \in Echoes(d) : i < j => back[d][i].n < back[d][j].n
  BY DEF EchoRow
<1>11. EchoRow(d)'
  BY <1>1, <1>5, <1>6, <1>8, <1>9, <1>10 DEF EchoRow
<1> QED BY <1>2, <1>11

LEMMA RowsStep == ASSUME Types, Rows, Next PROVE Rows'
<1>1. \A d \in Clients : SentRow(d) /\ EchoRow(d)
  BY DEF Rows
<1>2. CASE ServerStep(IoThread \/ MainLoop)
  <2> SUFFICES ASSUME NEW d \in Clients PROVE SentRow(d)' /\ EchoRow(d)'
    BY DEF Rows
  <2>1. sent' = sent
    BY <1>2, ServerSteps
  <2>2. SentRow(d)'
    BY <1>1, <2>1 DEF SentRow
  <2>3. CASE \E c \in Clients : OnMessage(c)
    BY <1>1, <2>1, <2>2, <2>3, MessageRows
  <2>4. CASE RunPush
    BY <1>1, <2>1, <2>2, <2>4, PushedRows
  <2>5. CASE got' = got /\ back' = back /\ cut' = cut
    BY <1>1, <2>1, <2>2, <2>5 DEF EchoRow, Echoes
  <2> QED BY <1>2, <2>3, <2>4, <2>5, ServerSteps
          DEF OnConnectionUp, OnConnectionDown, Push, OnTimer, PushEnds
<1>3. CASE Main \/ Loop
  BY <1>1, <1>3, ClientRows DEF Rows
<1> QED BY <1>2, <1>3 DEF Next

-----------------------------------------------------------------------------
(* The pushes are judged by their places and numbers alone.                 *)
LEMMA PushRowSame ==
  ASSUME NEW d \in Clients,
         Pushed(d)' = Pushed(d), \A i \in Pushed(d) : back'[d][i] = back[d][i],
         Underway(d)' = Underway(d), \A i \in Underway(d) : ioQueue'[i] = ioQueue[i],
         joined'[d] = joined[d], Passed(d)' = Passed(d), PushRow(d)
  PROVE  PushRow(d)'
<1>1. /\ \A i, j \in Pushed(d)' : i < j => back'[d][i].n < back'[d][j].n
      /\ \A i, j \in Underway(d)' : i < j => ioQueue'[i].n < ioQueue'[j].n
      /\ \A i \in Pushed(d)', j \in Underway(d)' : back'[d][i].n < ioQueue'[j].n
  BY DEF PushRow
<1>2. /\ {back'[d][i].n : i \in Pushed(d)'} = {back[d][i].n : i \in Pushed(d)}
      /\ {ioQueue'[j].n : j \in Underway(d)'} = {ioQueue[j].n : j \in Underway(d)}
  OBVIOUS
<1>3. {back[d][i].n : i \in Pushed(d)} \cup {ioQueue[j].n : j \in Underway(d)}
        = joined[d] + 1 .. Passed(d)
  BY DEF PushRow
<1>5. joined'[d] <= Passed(d)'
  BY DEF PushRow
<1> HIDE DEF Pushed, Underway, Passed
<1>4. {back'[d][i].n : i \in Pushed(d)'} \cup {ioQueue'[j].n : j \in Underway(d)'}
        = joined'[d] + 1 .. Passed(d)'
  BY <1>2, <1>3
<1> QED BY <1>1, <1>4, <1>5 DEF PushRow

(* OnMessage sends no push.                                                 *)
LEMMA MessagePushed ==
  ASSUME Types, NEW c \in Clients, OnMessage(c), NEW d \in Clients
  PROVE  Pushed(d)' = Pushed(d) /\ \A i \in Pushed(d) : back'[d][i] = back[d][i]
<1>1. PICK n \in got[c] + 1 .. Len(sent[c]) :
        /\ back' \in [Clients -> Seq(Back)]
        /\ \A e \in Clients : e # c => back'[e] = back[e]
        /\ \A k \in 1 .. Len(back[c]) : back'[c][k] = back[c][k]
        /\ Answers(c, n) \/ Drops(c, n)
  BY MessageEffect DEF Types
<1>2. CASE d # c
  BY <1>1, <1>2 DEF Pushed
<1>3. CASE d = c
  <2> DEFINE b == back[c]
             b2 == back'[c]
             L == Len(b)
             g == got[c]
             s == sent[c]
  <2>1. /\ b \in Seq(Back) /\ b2 \in Seq(Back) /\ g \in Nat /\ s \in Seq(Sent)
    BY <1>1 DEF Types, RowTypes
  <2>2. /\ L \in Nat /\ Len(b2) \in Nat /\ Len(s) \in Nat
        /\ DOMAIN b = 1 .. L /\ DOMAIN b2 = 1 .. Len(b2)
    BY <2>1, LenProperties
  <2>3. \A k \in 1 .. Len(s) : s[k].kind # "push"
    <3>1. \A k \in 1 .. Len(s) : s[k] \in Sent
      BY <2>1, ElementOfSeq
    <3> QED BY <3>1 DEF Sent, Kinds
  <2>4. \A k \in 1 .. L : b2[k] = b[k]
    BY <1>1
  <2>5. n \in Nat /\ g < n /\ n <= Len(s)
    BY <1>1, <2>1, <2>2
  <2>6. \/ /\ Len(b2) = L + (n - g)
           /\ \A k \in 1 .. n - g : b2[L + k] = s[g + k]
        \/ Len(b2) = L
    BY <1>1 DEF Answers, Drops
  <2>7. Pushed(c) = {i \in 1 .. L : b[i].kind = "push"}
    BY <2>2 DEF Pushed
  <2>8. Pushed(c)' = {i \in 1 .. Len(b2) : b2[i].kind = "push"}
    BY <2>2 DEF Pushed
  <2> HIDE DEF b, b2, L, g, s
  <2>9. /\ L \in Nat /\ Len(b2) \in Nat /\ Len(s) \in Nat /\ g \in Nat
        /\ n \in Nat /\ g < n /\ n <= Len(s)
        /\ Len(b2) = L + (n - g) \/ Len(b2) = L
    <3>1. Len(b2) = L + (n - g) \/ Len(b2) = L
      BY <2>6, Zenon
    <3> QED BY <2>1, <2>2, <2>5, <3>1
  <2>13. \A i \in 1 .. L : i \in 1 .. Len(b2)
    BY <2>9
  <2>10. ASSUME NEW i \in 1 .. Len(b2), i \notin 1 .. L PROVE b2[i].kind # "push"
    <3>1. i - L \in 1 .. n - g /\ L + (i - L) = i /\ g + (i - L) \in 1 .. Len(s)
      <4>1. i \in Int /\ L < i /\ i <= Len(b2) /\ Len(b2) = L + (n - g)
        BY <2>9, <2>10
      <4> QED BY <2>9, <4>1
    <3>2. b2[L + (i - L)] = s[g + (i - L)]
      <4>1. Len(b2) # L
        BY <2>9, <2>10
      <4> QED BY <2>6, <3>1, <4>1
    <3> QED BY <2>3, <3>1, <3>2
  <2>11. Pushed(c)' = Pushed(c)
    BY <2>4, <2>7, <2>8, <2>10, <2>13
  <2>12. \A i \in Pushed(c) : b2[i] = b[i]
    BY <2>4, <2>7
  <2> QED BY <1>3, <2>11, <2>12 DEF b, b2
<1> QED BY <1>2, <1>3

LEMMA PushRowsMessage ==
  ASSUME Types, PushRows, NEW c \in Clients, OnMessage(c)
  PROVE  PushRows'
<1>1. UNCHANGED <<serv, m_Conns, rounds, cursor, ioQueue, torn, dead, joined>>
  BY DEF OnMessage
<1>2. ASSUME NEW d \in Clients
      PROVE  /\ Pushed(d)' = Pushed(d) /\ \A i \in Pushed(d) : back'[d][i] = back[d][i]
             /\ Underway(d)' = Underway(d) /\ Passed(d)' = Passed(d)
  BY <1>1, MessagePushed DEF Underway, Passed
<1>3. \A d \in Clients : serv'[d] = "none" => Pushed(d)' = {} /\ Underway(d)' = {}
  BY <1>1, <1>2 DEF PushRows
<1>4. ASSUME ~torn', NEW d \in Clients, serv'[d] = "up" PROVE PushRow(d)'
  <2>1. PushRow(d)
    BY <1>1, <1>4 DEF PushRows
  <2>2. joined'[d] = joined[d] /\ \A i \in Underway(d) : ioQueue'[i] = ioQueue[i]
    BY <1>1
  <2> QED BY <1>2, <2>1, <2>2, PushRowSame
<1> QED BY <1>3, <1>4 DEF PushRows

LEMMA PushRowsUp ==
  ASSUME Types, PushRows, NEW c \in Clients, OnConnectionUp(c)
  PROVE  PushRows'
<1>1. /\ serv[c] = "none" /\ serv' = [serv EXCEPT ![c] = "up"]
      /\ joined' = [joined EXCEPT ![c] = Passed(c)]
      /\ UNCHANGED <<back, rounds, ioQueue>>
      /\ UNCHANGED <<cursor, torn>> \/ torn'
  BY DEF OnConnectionUp, Race, Types, NetTypes
<1>2. serv \in [Clients -> {"none", "up", "closed"}] /\ joined \in [Clients -> 0 .. MaxRounds]
  BY DEF Types, NetTypes, WalkTypes
<1>3. \A d \in Clients : Pushed(d)' = Pushed(d) /\ Underway(d)' = Underway(d)
  BY <1>1 DEF Pushed, Underway
<1>4. \A d \in Clients : serv'[d] = "none" => serv[d] = "none"
  BY <1>1, <1>2
<1>5. \A d \in Clients : serv'[d] = "none" => Pushed(d)' = {} /\ Underway(d)' = {}
  BY <1>3, <1>4 DEF PushRows
<1>6. ASSUME ~torn', NEW d \in Clients, serv'[d] = "up" PROVE PushRow(d)'
  <2>1. cursor' = cursor /\ torn' = torn
    BY <1>1, <1>6
  <2>2. Passed(d)' = Passed(d)
    BY <1>1, <2>1 DEF Passed
  <2>3. CASE d # c
    <3>1. serv[d] = "up" /\ joined'[d] = joined[d]
      BY <1>1, <1>2, <1>6, <2>3
    <3>2. PushRow(d)
      BY <1>6, <2>1, <3>1 DEF PushRows
    <3>3. /\ \A i \in Pushed(d) : back'[d][i] = back[d][i]
          /\ \A i \in Underway(d) : ioQueue'[i] = ioQueue[i]
      BY <1>1
    <3> QED BY <1>3, <2>2, <3>1, <3>2, <3>3, PushRowSame
  <2>4. CASE d = c
    <3>1. Pushed(c)' = {} /\ Underway(c)' = {}
      BY <1>1, <1>3 DEF PushRows
    <3>2. joined'[c] = Passed(c) /\ Passed(c) \in Int
      BY <1>1, <1>2, PassedType DEF Types
    <3>3. joined'[c] + 1 .. Passed(c)' = {}
      BY <2>2, <2>4, <3>2
    <3>4. /\ {back'[c][i].n : i \in Pushed(c)'} = {}
          /\ {ioQueue'[j].n : j \in Underway(c)'} = {}
      BY <3>1
    <3>5. joined'[c] <= Passed(c)'
      BY <2>2, <2>4, <3>2
    <3> QED BY <2>4, <3>1, <3>3, <3>4, <3>5 DEF PushRow
  <2> QED BY <2>3, <2>4
<1> QED BY <1>5, <1>6 DEF PushRows

LEMMA PushRowsDown ==
  ASSUME Types, PushRows, NEW c \in Clients, OnConnectionDown(c)
  PROVE  PushRows'
<1>1. /\ serv[c] = "up" /\ serv' = [serv EXCEPT ![c] = "closed"]
      /\ UNCHANGED <<back, rounds, ioQueue, joined>>
      /\ UNCHANGED <<cursor, torn>> \/ torn'
  BY DEF OnConnectionDown, Race, Types, NetTypes
<1>2. serv \in [Clients -> {"none", "up", "closed"}]
  BY DEF Types, NetTypes
<1>3. \A d \in Clients : Pushed(d)' = Pushed(d) /\ Underway(d)' = Underway(d)
  BY <1>1 DEF Pushed, Underway
<1>4. \A d \in Clients : /\ serv'[d] = "none" => serv[d] = "none"
                         /\ serv'[d] = "up" => serv[d] = "up"
  BY <1>1, <1>2
<1>5. \A d \in Clients : serv'[d] = "none" => Pushed(d)' = {} /\ Underway(d)' = {}
  BY <1>3, <1>4 DEF PushRows
<1>6. ASSUME ~torn', NEW d \in Clients, serv'[d] = "up" PROVE PushRow(d)'
  <2>1. cursor' = cursor /\ torn' = torn
    BY <1>1, <1>6
  <2>2. Passed(d)' = Passed(d)
    BY <1>1, <2>1 DEF Passed
  <2>3. PushRow(d)
    BY <1>4, <1>6, <2>1 DEF PushRows
  <2>4. /\ \A i \in Pushed(d) : back'[d][i] = back[d][i]
        /\ \A i \in Underway(d) : ioQueue'[i] = ioQueue[i]
        /\ joined'[d] = joined[d]
    BY <1>1
  <2> QED BY <1>3, <2>2, <2>3, <2>4, PushRowSame
<1> QED BY <1>5, <1>6 DEF PushRows

(* The walk begins before the first connection and ends behind the last:    *)
(* neither changes which runs are past a connection that is up.             *)
LEMMA PushRowsTimer ==
  ASSUME Types, PushRows, OnTimer
  PROVE  PushRows'
<1>1. /\ cursor = -1 /\ rounds' = rounds + 1 /\ cursor' = 0
      /\ UNCHANGED <<back, serv, ioQueue, torn, joined>>
  BY DEF OnTimer
<1>2. rounds \in Nat
  BY RoundsAssumption DEF Types, WalkTypes
<1>3. ASSUME NEW d \in Clients
      PROVE  Pushed(d)' = Pushed(d) /\ Underway(d)' = Underway(d) /\ Passed(d)' = Passed(d)
  <2>1. Pushed(d)' = Pushed(d) /\ Underway(d)' = Underway(d)
    BY <1>1 DEF Pushed, Underway
  <2>2. d \in Nat /\ d > 0
    BY Numbered
  <2>3. Passed(d)' = Passed(d)
    BY <1>1, <1>2, <2>2 DEF Passed
  <2> QED BY <2>1, <2>3
<1>4. \A d \in Clients : serv'[d] = "none" => Pushed(d)' = {} /\ Underway(d)' = {}
  BY <1>1, <1>3 DEF PushRows
<1>5. ASSUME ~torn', NEW d \in Clients, serv'[d] = "up" PROVE PushRow(d)'
  <2>1. PushRow(d)
    BY <1>1, <1>5 DEF PushRows
  <2>2. /\ \A i \in Pushed(d) : back'[d][i] = back[d][i]
        /\ \A i \in Underway(d) : ioQueue'[i] = ioQueue[i]
        /\ joined'[d] = joined[d]
    BY <1>1
  <2> QED BY <1>3, <2>1, <2>2, PushRowSame
<1> QED BY <1>4, <1>5 DEF PushRows

(* A walk that has not ended has a next connection.                         *)
LEMMA NextExists ==
  ASSUME NEW S \in SUBSET Clients, S # {}
  PROVE  \E c \in S : \A d \in S : c <= d
<1> DEFINE Below(n) == 0 .. n
           T == {Below(n) : n \in S}
<1>0. \A n \in S : n \in Nat
  BY Numbered
<1>1. \A n \in S : Below(n) \in FiniteSubsetsOf(Nat)
  BY <1>0, FS_Interval DEF FiniteSubsetsOf
<1>2. PICK A \in T : \A B \in T : <<B, A>> \notin StrictSubsetOrdering(Nat)
  <2>1. T \subseteq FiniteSubsetsOf(Nat) /\ T # {}
    BY <1>1
  <2> HIDE DEF T
  <2> QED BY <2>1, FS_StrictSubsetOrderingWellFounded, WFMin
<1>3. PICK x \in S : A = Below(x)
  BY <1>2
<1>4. \A y \in S : x <= y
  <2> SUFFICES ASSUME NEW y \in S, y < x PROVE FALSE
    BY <1>0
  <2>1. Below(y) \in T /\ Below(y) \subseteq Below(x) /\ Below(x) \subseteq Nat
    BY <1>0
  <2>2. x \in Below(x) /\ x \notin Below(y)
    BY <1>0
  <2> HIDE DEF Below, T
  <2> QED BY <1>2, <1>3, <2>1, <2>2 DEF StrictSubsetOrdering
<1> QED BY <1>4

LEMMA PushRowsEnds ==
  ASSUME Types, PushRows, PushEnds
  PROVE  PushRows'
<1>1. /\ cursor # -1 /\ cursor' = -1 /\ \A c \in Clients : ~NextOf(c)
      /\ UNCHANGED <<back, serv, rounds, ioQueue, torn, joined>>
  BY DEF PushEnds
<1>2. Ahead = {}
  <2>1. Ahead \subseteq Clients
    BY DEF Ahead, Types, NetTypes
  <2> QED BY <1>1, <2>1, NextExists DEF NextOf
<1>3. ASSUME NEW d \in Clients
      PROVE  Pushed(d)' = Pushed(d) /\ Underway(d)' = Underway(d)
  BY <1>1 DEF Pushed, Underway
<1>4. \A d \in Clients : serv'[d] = "none" => Pushed(d)' = {} /\ Underway(d)' = {}
  BY <1>1, <1>3 DEF PushRows
<1>5. ASSUME ~torn', NEW d \in Clients, serv'[d] = "up" PROVE PushRow(d)'
  <2>1. PushRow(d)
    BY <1>1, <1>5 DEF PushRows
  <2>2. /\ \A i \in Pushed(d) : back'[d][i] = back[d][i]
        /\ \A i \in Underway(d) : ioQueue'[i] = ioQueue[i]
        /\ joined'[d] = joined[d]
    BY <1>1
  <2>3. d \in m_Conns
    BY <1>1, <1>5 DEF Types, NetTypes
  <2>4. ~(d > cursor)
    BY <1>2, <2>3 DEF Ahead
  <2>5. Passed(d)' = Passed(d)
    BY <1>1, <2>4 DEF Passed
  <2> QED BY <1>3, <2>1, <2>2, <2>5, PushRowSame
<1> QED BY <1>4, <1>5 DEF PushRows

(* The walk passes one connection, which gets the number of this run.       *)
LEMMA PushRowsPush ==
  ASSUME Types, PushRows, NEW c \in Clients, Push(c)
  PROVE  PushRows'
<1>1. /\ cursor # -1 /\ cursor' = c /\ c \in m_Conns /\ c > cursor
      /\ \A d \in m_Conns : d > cursor => c <= d
      /\ ioQueue' = Append(ioQueue, [to |-> c, n |-> rounds])
      /\ UNCHANGED <<back, serv, rounds, torn, joined>>
  BY DEF Push, NextOf, Ahead
<1>2. /\ serv[c] = "up" /\ \A d \in Clients : serv[d] = "up" => d \in m_Conns
  BY <1>1 DEF Types, NetTypes
<1>3. /\ rounds \in Nat /\ rounds >= 1 /\ cursor \in Int
      /\ \A d \in Clients : d \in Nat /\ d # -1
  <2>1. cursor \in Clients \cup {-1, 0} /\ rounds \in 0 .. MaxRounds /\ rounds >= 1
    BY <1>1 DEF Types, WalkTypes
  <2> QED BY <2>1, Numbered, RoundsAssumption
<1> DEFINE q == ioQueue
           L == Len(ioQueue)
           e == [to |-> c, n |-> rounds]
<1>4. q \in Seq([to : Clients, n : 1 .. MaxRounds]) /\ e \in [to : Clients, n : 1 .. MaxRounds]
  BY <1>1, RoundsAssumption DEF Types, WalkTypes
<1>5. /\ L \in Nat /\ DOMAIN q = 1 .. L
      /\ ioQueue' \in Seq([to : Clients, n : 1 .. MaxRounds]) /\ Len(ioQueue') = L + 1
      /\ \A k \in 1 .. L : ioQueue'[k] = q[k]
      /\ ioQueue'[L + 1] = e
  <2>1. L \in Nat /\ DOMAIN q = 1 .. L
    BY <1>4, LenProperties
  <2> HIDE DEF e
  <2> QED BY <1>1, <1>4, <2>1, AppendProperties DEF e
<1>6. DOMAIN ioQueue' = 1 .. L + 1
  BY <1>5, LenProperties
<1>7. ioQueue'[L + 1].to = c /\ ioQueue'[L + 1].n = rounds
  BY <1>5
<1>8. \A d \in Clients : Underway(d) = {i \in 1 .. L : q[i].to = d}
  BY <1>5 DEF Underway
<1>9. \A d \in Clients : Underway(d)' = {i \in 1 .. L + 1 : ioQueue'[i].to = d}
  BY <1>6 DEF Underway
<1> HIDE DEF q, L, e
<1>10. \A i \in 1 .. L + 1 : i \in 1 .. L \/ i = L + 1
  BY <1>5
<1>11. \A i \in 1 .. L : i \in 1 .. L + 1 /\ i < L + 1 /\ i # L + 1
  BY <1>5
<1>12. L + 1 \in 1 .. L + 1
  BY <1>5
<1>13. ASSUME NEW d \in Clients, d # c PROVE Underway(d)' = Underway(d)
  <2>1. Underway(d) = {i \in 1 .. L : q[i].to = d}
    BY <1>8
  <2>2. Underway(d)' = {i \in 1 .. L + 1 : ioQueue'[i].to = d}
    BY <1>9
  <2>3. \A i \in 1 .. L + 1 : ioQueue'[i].to = d => i \in 1 .. L
    BY <1>7, <1>10, <1>13
  <2> QED BY <1>5, <1>11, <2>1, <2>2, <2>3
<1>14. Underway(c)' = Underway(c) \cup {L + 1}
  BY <1>5, <1>7, <1>8, <1>9, <1>10, <1>11, <1>12
<1>15. \A d \in Clients : \A i \in Underway(d) : ioQueue'[i] = ioQueue[i] /\ i < L + 1
  BY <1>5, <1>8, <1>11 DEF q
<1>16. \A d \in Clients : Pushed(d)' = Pushed(d)
  BY <1>1 DEF Pushed
<1>17. \A d \in Clients : serv'[d] = "none" => Pushed(d)' = {} /\ Underway(d)' = {}
  BY <1>1, <1>2, <1>13, <1>16 DEF PushRows
<1>18. ASSUME ~torn', NEW d \in Clients, serv'[d] = "up", d # c PROVE PushRow(d)'
  <2>1. PushRow(d)
    BY <1>1, <1>18 DEF PushRows
  <2>2. d > cursor => c < d
    <3>1. d \in m_Conns
      BY <1>1, <1>2, <1>18
    <3> QED BY <1>1, <1>3, <1>18, <3>1
  <2>3. c < d => d > cursor
    BY <1>1, <1>3
  <2>4. Passed(d)' = Passed(d)
    BY <1>1, <1>3, <2>2, <2>3 DEF Passed
  <2>5. joined'[d] = joined[d] /\ \A i \in Pushed(d) : back'[d][i] = back[d][i]
    BY <1>1
  <2> QED BY <1>13, <1>15, <1>16, <1>18, <2>1, <2>4, <2>5, PushRowSame
<1>19. ASSUME ~torn' PROVE PushRow(c)'
  <2>1. PushRow(c)
    BY <1>1, <1>2, <1>19 DEF PushRows
  <2>2. Passed(c) = rounds - 1 /\ Passed(c)' = rounds
    BY <1>1, <1>3 DEF Passed
  <2>3. joined'[c] = joined[c] /\ joined[c] \in Nat
    BY <1>1, RoundsAssumption DEF Types, WalkTypes
  <2> DEFINE P == {back[c][i].n : i \in Pushed(c)}
             U == {ioQueue[j].n : j \in Underway(c)}
  <2>4. P \cup U = joined[c] + 1 .. rounds - 1 /\ joined[c] <= rounds - 1
    BY <2>1, <2>2 DEF PushRow
  <2>5. {back'[c][i].n : i \in Pushed(c)'} = P
    BY <1>1, <1>16
  <2>6. {ioQueue'[j].n : j \in Underway(c)'} = U \cup {rounds}
    BY <1>7, <1>14, <1>15
  <2>7. (joined[c] + 1 .. rounds - 1) \cup {rounds} = joined[c] + 1 .. rounds
    BY <1>3, <2>3, <2>4
  <2>8. \A m \in P \cup U : m < rounds
    <3> HIDE DEF P, U
    <3>1. \A m \in joined[c] + 1 .. rounds - 1 : m < rounds
      BY <1>3, <2>3
    <3> QED BY <2>4, <3>1
  <2>9. /\ \A i \in Pushed(c) : back[c][i].n < rounds
        /\ \A i \in Underway(c) : ioQueue[i].n < rounds
    BY <2>8
  <2> HIDE DEF P, U
  <2>10. {back'[c][i].n : i \in Pushed(c)'} \cup {ioQueue'[j].n : j \in Underway(c)'}
           = joined'[c] + 1 .. Passed(c)'
    BY <2>2, <2>3, <2>4, <2>5, <2>6, <2>7
  <2>11. \A i, j \in Pushed(c)' : i < j => back'[c][i].n < back'[c][j].n
    BY <1>1, <1>16, <2>1 DEF PushRow
  <2>12. \A i, j \in Underway(c)' : i < j => ioQueue'[i].n < ioQueue'[j].n
    <3> SUFFICES ASSUME NEW i \in Underway(c)', NEW j \in Underway(c)', i < j
                 PROVE  ioQueue'[i].n < ioQueue'[j].n
      OBVIOUS
    <3>1. CASE j = L + 1
      <4>1. i # L + 1
        BY <1>5, <3>1
      <4>2. i \in Underway(c) /\ ioQueue'[i] = ioQueue[i]
        BY <1>14, <1>15, <4>1
      <4> QED BY <1>7, <2>9, <3>1, <4>2
    <3>2. CASE j # L + 1
      <4>1. j \in Underway(c) /\ ioQueue'[j] = ioQueue[j] /\ j \in 1 .. L
        BY <1>8, <1>14, <1>15, <3>2
      <4>2. i # L + 1
        BY <1>5, <4>1
      <4>3. i \in Underway(c) /\ ioQueue'[i] = ioQueue[i]
        BY <1>14, <1>15, <4>2
      <4> QED BY <2>1, <4>1, <4>3 DEF PushRow
    <3> QED BY <3>1, <3>2
  <2>13. \A i \in Pushed(c)', j \in Underway(c)' : back'[c][i].n < ioQueue'[j].n
    <3> SUFFICES ASSUME NEW i \in Pushed(c), NEW j \in Underway(c)'
                 PROVE  back[c][i].n < ioQueue'[j].n
      BY <1>1, <1>16
    <3>1. CASE j = L + 1
      BY <1>7, <2>9, <3>1
    <3>2. CASE j # L + 1
      <4>1. j \in Underway(c) /\ ioQueue'[j] = ioQueue[j]
        BY <1>14, <1>15, <3>2
      <4> QED BY <2>1, <4>1 DEF PushRow
    <3> QED BY <3>1, <3>2
  <2>14. joined'[c] <= Passed(c)'
    BY <1>3, <2>2, <2>3, <2>4
  <2> QED BY <2>10, <2>11, <2>12, <2>13, <2>14 DEF PushRow
<1> QED BY <1>17, <1>18, <1>19 DEF PushRows

(* A push goes from the head of the queue to the end of what is sent back,  *)
(* or is dropped with its connection.                                       *)
LEMMA PushRowsRun ==
  ASSUME Types, PushRows, RunPush
  PROVE  PushRows'
<1>1. PICK c \in Clients, n \in 1 .. MaxRounds :
        /\ Len(ioQueue) \in Nat /\ Len(ioQueue) >= 1
        /\ ioQueue[1].to = c /\ ioQueue[1].n = n
        /\ ioQueue' \in Seq([to : Clients, n : 1 .. MaxRounds])
        /\ Len(ioQueue') = Len(ioQueue) - 1
        /\ \A k \in 1 .. Len(ioQueue) - 1 : ioQueue'[k] = ioQueue[k + 1]
        /\ back' \in [Clients -> Seq(Back)]
        /\ \A e \in Clients : e # c \/ serv[e] # "up" => back'[e] = back[e]
        /\ serv[c] = "up" =>
             /\ Len(back'[c]) = Len(back[c]) + 1
             /\ \A k \in 1 .. Len(back[c]) : back'[c][k] = back[c][k]
             /\ back'[c][Len(back[c]) + 1] = [kind |-> "push", n |-> n]
  BY RunPushEffect DEF Types
<1>2. UNCHANGED <<serv, rounds, cursor, torn, joined>>
  BY DEF RunPush
<1> DEFINE L == Len(ioQueue)
<1>3. /\ L \in Nat /\ L >= 1 /\ DOMAIN ioQueue = 1 .. L /\ DOMAIN ioQueue' = 1 .. L - 1
      /\ \A k \in 1 .. L - 1 : ioQueue'[k] = ioQueue[k + 1]
  <2>1. ioQueue \in Seq([to : Clients, n : 1 .. MaxRounds])
    BY DEF Types, WalkTypes
  <2> QED BY <1>1, <2>1, LenProperties
<1>4. \A d \in Clients : Underway(d) = {i \in 1 .. L : ioQueue[i].to = d}
  BY <1>3 DEF Underway
<1>5. \A d \in Clients : Underway(d)' = {i \in 1 .. L - 1 : ioQueue'[i].to = d}
  BY <1>3 DEF Underway
<1> HIDE DEF L
<1>6. /\ \A i \in 1 .. L - 1 : i \in Int /\ i + 1 \in 1 .. L /\ i + 1 # 1
      /\ \A i \in 1 .. L : i # 1 => i - 1 \in 1 .. L - 1 /\ (i - 1) + 1 = i
      /\ 1 \in 1 .. L
  BY <1>3
<1>7. ASSUME NEW d \in Clients, NEW i \in Underway(d)'
      PROVE  i \in Int /\ i + 1 \in Underway(d) /\ ioQueue'[i] = ioQueue[i + 1] /\ i + 1 # 1
  BY <1>3, <1>4, <1>5, <1>6
<1>8. ASSUME NEW d \in Clients, NEW i \in Underway(d), i # 1
      PROVE  i - 1 \in Underway(d)' /\ ioQueue'[i - 1] = ioQueue[i]
  <2>1. i \in 1 .. L /\ ioQueue[i].to = d
    BY <1>4
  <2>2. i - 1 \in 1 .. L - 1 /\ (i - 1) + 1 = i
    BY <1>6, <1>8, <2>1
  <2>3. ioQueue'[i - 1] = ioQueue[i]
    BY <1>3, <2>2
  <2> QED BY <1>5, <2>1, <2>2, <2>3
<1>9. /\ 1 \in Underway(c)
      /\ \A d \in Clients : d # c => 1 \notin Underway(d)
  <2>1. ioQueue[1].to = c /\ 1 \in 1 .. L
    BY <1>1, <1>6
  <2> QED BY <1>4, <2>1
<1>10. \A d \in Clients : serv'[d] = "none" => Pushed(d)' = {} /\ Underway(d)' = {}
  <2> SUFFICES ASSUME NEW d \in Clients, serv'[d] = "none" PROVE Pushed(d)' = {} /\ Underway(d)' = {}
    OBVIOUS
  <2>1. serv[d] = "none" /\ Pushed(d) = {} /\ Underway(d) = {}
    BY <1>2 DEF PushRows
  <2>2. back'[d] = back[d]
    BY <1>1, <2>1
  <2>3. Pushed(d)' = Pushed(d)
    BY <2>2 DEF Pushed
  <2> QED BY <1>7, <2>1, <2>3
<1>11. ASSUME ~torn', NEW d \in Clients, serv'[d] = "up" PROVE PushRow(d)'
  <2>1. PushRow(d) /\ serv[d] = "up"
    BY <1>2, <1>11 DEF PushRows
  <2>2. joined'[d] = joined[d] /\ Passed(d)' = Passed(d)
    BY <1>2 DEF Passed
  <2>3. \A i, j \in Underway(d)' : i < j => ioQueue'[i].n < ioQueue'[j].n
    <3> SUFFICES ASSUME NEW i \in Underway(d)', NEW j \in Underway(d)', i < j
                 PROVE  ioQueue'[i].n < ioQueue'[j].n
      OBVIOUS
    <3>1. i + 1 \in Underway(d) /\ j + 1 \in Underway(d) /\ i + 1 < j + 1
      BY <1>7
    <3>2. ioQueue'[i] = ioQueue[i + 1] /\ ioQueue'[j] = ioQueue[j + 1]
      BY <1>7
    <3> QED BY <2>1, <3>1, <3>2 DEF PushRow
  <2> DEFINE P == {back[d][i].n : i \in Pushed(d)}
             U == {ioQueue[j].n : j \in Underway(d)}
             P2 == {back'[d][i].n : i \in Pushed(d)'}
             U2 == {ioQueue'[j].n : j \in Underway(d)'}
  <2>4. P \cup U = joined[d] + 1 .. Passed(d)
    BY <2>1 DEF PushRow
  <2>5. U2 \subseteq U
    BY <1>7
  <2>6. joined'[d] <= Passed(d)'
    BY <2>1, <2>2 DEF PushRow
  <2>7. CASE d # c
    <3>1. back'[d] = back[d]
      BY <1>1, <2>7
    <3>2. Pushed(d)' = Pushed(d)
      BY <3>1 DEF Pushed
    <3>3. U \subseteq U2
      <4> SUFFICES ASSUME NEW j \in Underway(d) PROVE ioQueue[j].n \in U2
        OBVIOUS
      <4>1. j - 1 \in Underway(d)' /\ ioQueue'[j - 1] = ioQueue[j]
        BY <1>8, <1>9, <2>7
      <4> QED BY <4>1
    <3>4. P2 = P
      BY <3>1, <3>2
    <3>5. \A i, j \in Pushed(d)' : i < j => back'[d][i].n < back'[d][j].n
      BY <2>1, <3>1, <3>2 DEF PushRow
    <3>6. \A i \in Pushed(d)', j \in Underway(d)' : back'[d][i].n < ioQueue'[j].n
      BY <1>7, <2>1, <3>1, <3>2 DEF PushRow
    <3> HIDE DEF P, U, P2, U2
    <3>7. P2 \cup U2 = joined'[d] + 1 .. Passed(d)'
      BY <2>2, <2>4, <2>5, <3>3, <3>4
    <3> QED BY <2>3, <2>6, <3>5, <3>6, <3>7 DEF PushRow, P2, U2
  <2>8. CASE d = c
    <3> DEFINE b == back[c]
               b2 == back'[c]
               M == Len(b)
    <3>1. /\ M \in Nat /\ DOMAIN b = 1 .. M /\ DOMAIN b2 = 1 .. M + 1
          /\ \A k \in 1 .. M : b2[k] = b[k]
          /\ b2[M + 1].kind = "push" /\ b2[M + 1].n = n
      <4>1. b \in Seq(Back) /\ b2 \in Seq(Back)
        BY <1>1 DEF Types, RowTypes
      <4>2. M \in Nat /\ DOMAIN b = 1 .. M /\ DOMAIN b2 = 1 .. Len(b2)
        BY <4>1, LenProperties
      <4>3. /\ Len(b2) = M + 1
            /\ \A k \in 1 .. M : b2[k] = b[k]
            /\ b2[M + 1] = [kind |-> "push", n |-> n]
        BY <1>1, <2>1, <2>8
      <4> QED BY <4>2, <4>3
    <3>2. Pushed(c) = {i \in 1 .. M : b[i].kind = "push"}
      BY <3>1 DEF Pushed
    <3>3. Pushed(c)' = {i \in 1 .. M + 1 : b2[i].kind = "push"}
      BY <3>1 DEF Pushed
    <3> HIDE DEF M
    <3>4. /\ \A i \in 1 .. M + 1 : i \in 1 .. M \/ i = M + 1
          /\ \A i \in 1 .. M : i \in 1 .. M + 1 /\ i < M + 1
          /\ M + 1 \in 1 .. M + 1
      BY <3>1
    <3>5. Pushed(c)' = Pushed(c) \cup {M + 1}
      BY <3>1, <3>2, <3>3, <3>4
    <3>6. \A i \in Pushed(c) : i \in 1 .. M /\ b2[i] = b[i]
      BY <3>1, <3>2
    <3>7. P2 = P \cup {n}
      <4>1. \A i \in Pushed(c)' : b2[i].n \in P \cup {n}
        <5> SUFFICES ASSUME NEW i \in Pushed(c)' PROVE b2[i].n \in P \cup {n}
          OBVIOUS
        <5>1. CASE i = M + 1
          BY <3>1, <5>1
        <5>2. CASE i \in Pushed(c)
          BY <2>8, <3>6, <5>2
        <5> QED BY <3>5, <5>1, <5>2
      <4>2. \A i \in Pushed(c) : b[i].n \in P2
        BY <2>8, <3>5, <3>6
      <4>3. n \in P2
        BY <2>8, <3>1, <3>5
      <4>4. P2 \subseteq P \cup {n}
        BY <2>8, <4>1
      <4>5. P \subseteq P2
        BY <2>8, <4>2
      <4> HIDE DEF P, P2
      <4> QED BY <4>3, <4>4, <4>5
    <3>8. U = U2 \cup {n}
      <4>1. n \in U
        BY <1>1, <1>9, <2>8
      <4>2. ASSUME NEW j \in Underway(d) PROVE ioQueue[j].n \in U2 \cup {n}
        <5>1. CASE j = 1
          BY <1>1, <5>1
        <5>2. CASE j # 1
          <6>1. j - 1 \in Underway(d)' /\ ioQueue'[j - 1] = ioQueue[j]
            BY <1>8, <5>2
          <6> QED BY <6>1
        <5> QED BY <5>1, <5>2
      <4>3. U \subseteq U2 \cup {n}
        BY <4>2
      <4> HIDE DEF U, U2
      <4> QED BY <2>5, <4>1, <4>3
    <3>9. \A j \in Underway(c)' : n < ioQueue'[j].n
      <4> SUFFICES ASSUME NEW j \in Underway(c)' PROVE n < ioQueue'[j].n
        OBVIOUS
      <4>1. j + 1 \in Underway(c) /\ ioQueue'[j] = ioQueue[j + 1] /\ 1 < j + 1
        <5>1. j \in 1 .. L - 1
          BY <1>5
        <5> QED BY <1>7, <5>1
      <4>2. ioQueue[1].n < ioQueue[j + 1].n
        BY <1>9, <2>1, <2>8, <4>1 DEF PushRow
      <4> QED BY <1>1, <4>1, <4>2
    <3>10. \A i \in Pushed(c) : b[i].n < n
      BY <1>1, <1>9, <2>1, <2>8 DEF PushRow
    <3>11. \A i, j \in Pushed(d)' : i < j => back'[d][i].n < back'[d][j].n
      <4> SUFFICES ASSUME NEW i \in Pushed(c)', NEW j \in Pushed(c)', i < j
                   PROVE  b2[i].n < b2[j].n
        BY <2>8
      <4>1. CASE j = M + 1
        <5>1. i # M + 1
          BY <3>1, <4>1
        <5>2. i \in Pushed(c) /\ b2[i] = b[i]
          BY <3>5, <3>6, <5>1
        <5> QED BY <3>1, <3>10, <4>1, <5>2
      <4>2. CASE j # M + 1
        <5>1. j \in Pushed(c) /\ b2[j] = b[j] /\ j \in 1 .. M
          BY <3>5, <3>6, <4>2
        <5>2. i # M + 1
          BY <3>1, <5>1
        <5>3. i \in Pushed(c) /\ b2[i] = b[i]
          BY <3>5, <3>6, <5>2
        <5>4. \A x, y \in Pushed(c) : x < y => b[x].n < b[y].n
          BY <2>1, <2>8 DEF PushRow
        <5> QED BY <5>1, <5>3, <5>4
      <4> QED BY <4>1, <4>2
    <3>12. \A i \in Pushed(d)', j \in Underway(d)' : back'[d][i].n < ioQueue'[j].n
      <4> SUFFICES ASSUME NEW i \in Pushed(c)', NEW j \in Underway(c)'
                   PROVE  b2[i].n < ioQueue'[j].n
        BY <2>8
      <4>1. CASE i = M + 1
        BY <3>1, <3>9, <4>1
      <4>2. CASE i # M + 1
        <5>1. i \in Pushed(c) /\ b2[i] = b[i]
          BY <3>5, <3>6, <4>2
        <5>2. \A x \in Pushed(c), y \in Underway(c) : b[x].n < ioQueue[y].n
          BY <2>1, <2>8 DEF PushRow
        <5>3. j + 1 \in Underway(c) /\ ioQueue'[j] = ioQueue[j + 1]
          BY <1>7
        <5> QED BY <5>1, <5>2, <5>3
      <4> QED BY <4>1, <4>2
    <3> HIDE DEF P, U, P2, U2
    <3>13. P2 \cup U2 = joined'[d] + 1 .. Passed(d)'
      BY <2>2, <2>4, <3>7, <3>8
    <3> QED BY <2>3, <2>6, <3>11, <3>12, <3>13 DEF PushRow, P2, U2
  <2> QED BY <2>7, <2>8
<1> QED BY <1>10, <1>11 DEF PushRows

LEMMA PushRowsStep == ASSUME Types, PushRows, Next PROVE PushRows'
<1>1. CASE ServerStep(IoThread \/ MainLoop)
  BY <1>1, ServerSteps, PushRowsMessage, PushRowsUp, PushRowsDown, PushRowsTimer, PushRowsEnds,
     PushRowsPush, PushRowsRun
<1>2. CASE Main \/ Loop
  <2>1. UNCHANGED serverVars
    BY <1>2, ClientSteps
  <2> QED BY <2>1 DEF PushRows, PushRow, Pushed, Underway, Passed, serverVars
<1> QED BY <1>1, <1>2 DEF Next

-----------------------------------------------------------------------------
(* The server's steps keep the order of comings and goings.                 *)
LEMMA PartingsServer ==
  ASSUME Types, Partings, ServerStep(IoThread \/ MainLoop)
  PROVE  Partings'
<1>1. /\ wire' = wire /\ sent' = sent /\ link' = link /\ phase' = phase /\ next' = next
      /\ pending' = pending
  BY ServerSteps DEF clientVars
<1>2. serv \in [Clients -> {"none", "up", "closed"}] /\ wire \in [Clients -> {"none", "open", "fin", "reset"}]
  BY DEF Types, NetTypes
<1>3. \A d \in Clients : Ends(d) /\ Farewell(d)
  BY DEF Partings
<1>4. \A d \in Clients : got[d] \in Nat /\ got'[d] \in Nat /\ got[d] <= got'[d]
  <2>1. RowTypes'
    BY RowTypesServer
  <2>2. \A d \in Clients : got[d] \in Nat /\ got'[d] \in Nat
    BY <2>1 DEF Types, RowTypes
  <2>3. CASE got' = got
    BY <2>2, <2>3
  <2>4. CASE \E c \in Clients : OnMessage(c)
    <3>1. PICK c \in Clients, n \in Int : got' = [got EXCEPT ![c] = n] /\ got[c] < n
      <4>1. PICK c \in Clients : OnMessage(c)
        BY <2>4
      <4>2. PICK n \in got[c] + 1 .. Len(sent[c]) : got' = [got EXCEPT ![c] = n]
        BY <4>1, MessageEffect DEF Types
      <4>3. got[c] < n /\ n \in Int
        BY <2>2
      <4> QED BY <4>2, <4>3
    <3>2. got'[c] = n /\ \A d \in Clients : d # c => got'[d] = got[d]
      BY <3>1 DEF Types, RowTypes
    <3> SUFFICES ASSUME NEW d \in Clients PROVE got[d] <= got'[d]
      BY <2>2
    <3> QED BY <2>2, <3>1, <3>2
  <2> QED BY <2>2, <2>3, <2>4, ServerSteps
          DEF OnConnectionUp, OnConnectionDown, Push, RunPush, OnTimer, PushEnds
<1>5. \A d \in Clients : /\ serv'[d] # "none" /\ serv[d] = "none" => wire[d] # "none"
                         /\ serv'[d] = "closed" /\ serv[d] # "closed" => Left(d) /\ got'[d] = got[d]
  <2>1. CASE serv' = serv
    BY <2>1
  <2>2. CASE \E c \in Clients : OnConnectionUp(c)
    BY <1>2, <2>2 DEF OnConnectionUp
  <2>3. CASE \E c \in Clients : OnConnectionDown(c)
    BY <1>2, <2>3 DEF OnConnectionDown
  <2> QED BY <2>1, <2>2, <2>3, ServerSteps DEF OnMessage, Push, RunPush, OnTimer, PushEnds
<1>6. ASSUME NEW d \in Clients PROVE Ends(d)'
  <2>1. serv'[d] = "closed" => wire[d] \in {"fin", "reset"}
    BY <1>3, <1>5 DEF Ends, Left
  <2>2. serv'[d] # "none" => wire[d] # "none"
    BY <1>3, <1>5 DEF Ends
  <2> QED BY <1>1, <1>3, <2>1, <2>2 DEF Ends
<1>7. ASSUME NEW d \in Clients PROVE Farewell(d)'
  <2>1. MsgSent(d)' = MsgSent(d) /\ SendDone(d)' = SendDone(d)
    BY <1>1 DEF MsgSent, SendDone
  <2>2. \A m : SendQueued(d, m)' = SendQueued(d, m)
    BY <1>1 DEF SendQueued
  <2>3. MsgTaken(d) => MsgTaken(d)'
    <3>1. \A k \in 1 .. got[d] : k \in 1 .. got'[d]
      BY <1>4
    <3> QED BY <1>1, <3>1 DEF MsgTaken
  <2>4. serv'[d] = "closed" /\ serv[d] # "closed" /\ wire[d] = "fin" => MsgTaken(d)'
    <3> SUFFICES ASSUME serv'[d] = "closed", serv[d] # "closed", wire[d] = "fin" PROVE MsgTaken(d)'
      OBVIOUS
    <3>1. got[d] = Len(sent[d])
      BY <1>5 DEF Left
    <3>2. MsgSent(d)
      BY <1>3 DEF Farewell
    <3>3. MsgTaken(d)
      BY <3>1, <3>2 DEF MsgSent, MsgTaken
    <3> QED BY <2>3, <3>3
  <2>5. serv'[d] = "closed" /\ wire'[d] = "fin" => MsgTaken(d)'
    BY <1>1, <1>3, <2>3, <2>4 DEF Farewell
  <2>6. /\ \A i \in 1 .. Len(pending) : pending[i] = [call |-> "send", to |-> d] =>
             link[d] \in {"up", "closing", "down"}
        /\ SendDone(d) => MsgSent(d) \/ link[d] = "down" \/ SendQueued(d, Len(pending))
        /\ \A i \in 1 .. Len(pending) : pending[i] = [call |-> "shutdown", to |-> d] =>
             MsgSent(d) \/ link[d] = "down" \/ SendQueued(d, i - 1)
        /\ wire[d] = "fin" => MsgSent(d)
    BY <1>3 DEF Farewell
  <2>7. \A i \in 1 .. Len(pending') : pending'[i] = [call |-> "send", to |-> d] =>
          link'[d] \in {"up", "closing", "down"}
    BY <1>1, <2>6
  <2>8. SendDone(d)' => MsgSent(d)' \/ link'[d] = "down" \/ SendQueued(d, Len(pending))'
    BY <1>1, <2>1, <2>6 DEF SendQueued
  <2>9. \A i \in 1 .. Len(pending') : pending'[i] = [call |-> "shutdown", to |-> d] =>
          MsgSent(d)' \/ link'[d] = "down" \/ SendQueued(d, i - 1)'
    BY <1>1, <2>1, <2>6 DEF SendQueued
  <2>10. wire'[d] = "fin" => MsgSent(d)'
    BY <1>1, <2>1, <2>6
  <2> QED BY <2>5, <2>7, <2>8, <2>9, <2>10 DEF Farewell
<1> QED BY <1>6, <1>7 DEF Partings

(* The main thread gets past its call to send for d by making it.           *)
LEMMA SendDoneSteps ==
  ASSUME Types, Main \/ Loop, NEW d \in Clients, SendDone(d)', ~SendDone(d)
  PROVE  SendMsg(d)
<1>1. /\ phase \notin {"close", "delete", "quit", "return", "join"}
      /\ phase = "send" => ~(d < next)
  BY DEF SendDone
<1>2. phase' \in {"close", "delete", "quit", "return", "join"} \/ (phase' = "send" /\ d < next')
  BY DEF SendDone
<1>3. \A e \in Clients : e \in Nat /\ e >= 1 /\ e <= N /\ N \in Nat
  BY Numbered
<1>4. ASSUME phase' = phase, next' = next PROVE FALSE
  BY <1>1, <1>2, <1>4
<1>5. ASSUME NEW c \in Clients, Start(c) PROVE FALSE
  <2>1. phase = "new" /\ Advance(c)
    BY <1>5 DEF Start
  <2>2. phase' = "new" \/ (phase' = "send" /\ next' = 1)
    BY <2>1, AdvanceEffect
  <2> QED BY <1>2, <1>3, <2>2
<1>6. ASSUME NEW c \in Clients, SendMsg(c) PROVE c = d
  <2>1. phase = "send" /\ next = c /\ Advance(c)
    BY <1>6 DEF SendMsg
  <2>2. \/ next' = c + 1 /\ phase' = "send"
        \/ c = N /\ phase' = "close"
    BY <2>1, AdvanceEffect
  <2>3. ~(d < c)
    BY <1>1, <2>1
  <2> QED BY <1>2, <1>3, <2>2, <2>3
<1>7. ASSUME phase \in {"close", "delete", "quit", "return"} PROVE FALSE
  BY <1>1, <1>7
<1>8. ASSUME Ended PROVE FALSE
  BY <1>2, <1>8 DEF Ended, ProcessEnds
<1> QED BY <1>4, <1>5, <1>6, <1>7, <1>8, ClientKinds
        DEF Close, Delete, QuitLoop, OnConnect, OnDisconnect, OnPing, RunPending, Apart

(* A connection that has been there is never made again, and one that is    *)
(* gone stays away.                                                         *)
LEMMA LinkSteps ==
  ASSUME Types, Partings, Main \/ Loop, NEW d \in Clients
  PROVE  /\ link[d] = "down" => link'[d] = "down"
         /\ link[d] \in {"up", "closing"} => link'[d] \in {"up", "closing", "down"}
<1>1. link \in [Clients -> {"none", "connecting", "up", "closing", "down"}]
  BY DEF Types, ClientTypes
<1>2. CASE link' = link
  BY <1>2
<1>3. CASE \E c \in Clients : Start(c)
  <2>1. PICK c \in Clients : Start(c)
    BY <1>3
  <2>2. phase = "new" /\ c >= next /\ link' = [link EXCEPT ![c] = "connecting"]
    BY <2>1, Numbered DEF Start, SetLink
  <2>3. link[c] = "none"
    BY <2>2 DEF Partings, Ends
  <2> QED BY <1>1, <2>2, <2>3
<1>4. CASE \E c \in Clients : link[c] = "connecting" /\ link' = [link EXCEPT ![c] = "up"]
  BY <1>1, <1>4
<1>5. CASE \E c \in Clients : link' = [link EXCEPT ![c] = "down"]
  BY <1>1, <1>5
<1>6. CASE \E c \in Clients : ~NoConnection(c) /\ link' = [link EXCEPT ![c] = "closing"]
  BY <1>1, <1>6 DEF NoConnection
<1>7. CASE \E c \in Clients : Close(c)
  <2>1. link' = link \/ \E c \in Clients : ~NoConnection(c) /\ link' = [link EXCEPT ![c] = "closing"]
    BY <1>7 DEF Close, NoConnection, SetLink
  <2> QED BY <1>2, <1>6, <2>1
<1>8. CASE \E c \in Clients : Delete(c)
  <2>1. \/ \E c \in Clients : link' = [link EXCEPT ![c] = "down"]
        \/ \E c \in Clients : ~NoConnection(c) /\ link' = [link EXCEPT ![c] = "closing"]
    BY <1>8 DEF Delete, SetLink
  <2> QED BY <1>5, <1>6, <2>1
<1>9. CASE RunPending
  <2>1. link' = link \/ \E c \in Clients : link' = [link EXCEPT ![c] = "down"]
    BY <1>9, RunPendingEffect DEF SetLink
  <2> QED BY <1>2, <1>5, <2>1
<1>10. CASE Ended
  <2>1. link'[d] = "down"
    BY <1>10 DEF Ended, ProcessEnds
  <2> QED BY <2>1
<1> QED BY <1>2, <1>3, <1>4, <1>5, <1>7, <1>8, <1>9, <1>10, ClientKinds
        DEF SendMsg, QuitLoop, OnConnect, OnDisconnect, OnPing, Apart, SetLink

LEMMA EndsClient ==
  ASSUME Types, Partings, Main \/ Loop, NEW d \in Clients
  PROVE  Ends(d)'
<1>1. /\ link \in [Clients -> {"none", "connecting", "up", "closing", "down"}]
      /\ wire \in [Clients -> {"none", "open", "fin", "reset"}]
      /\ serv \in [Clients -> {"none", "up", "closed"}]
      /\ next \in Clients /\ \A c \in Clients : c \in Nat
  BY Numbered DEF Types, ClientTypes, NetTypes
<1>2. serv' = serv
  BY ClientSteps DEF serverVars
<1>3. \A c \in Clients : Ends(c)
  BY DEF Partings
<1>4. ASSUME NEW c \in Clients, ~NoConnection(c)
      PROVE  /\ link[c] \in {"up", "closing"} /\ wire[c] # "reset"
             /\ ~(phase = "new" /\ c >= next)
  BY <1>3, <1>4 DEF NoConnection, Ends
<1>5. CASE link' = link /\ wire' = wire /\ (phase' = "new" => phase = "new" /\ next' = next)
  BY <1>2, <1>3, <1>5 DEF Ends
<1>6. CASE \E c \in Clients : Start(c)
  <2>1. PICK c \in Clients : Start(c)
    BY <1>6
  <2>2. phase = "new" /\ next = c /\ link' = [link EXCEPT ![c] = "connecting"] /\ wire' = wire /\ Advance(c)
    BY <2>1 DEF Start, SetLink
  <2>3. link[c] = "none"
    BY <1>1, <1>3, <2>2 DEF Ends
  <2>4. phase' # "new" \/ (phase' = "new" /\ next' = c + 1)
    BY <2>2, AdvanceEffect
  <2>5. phase' = "new" /\ d >= next' => d # c /\ phase = "new" /\ d >= next
    BY <1>1, <2>2, <2>4
  <2> QED BY <1>1, <1>2, <1>3, <2>2, <2>3, <2>5 DEF Ends
<1>7. CASE \E c \in Clients : Close(c)
  <2>1. PICK c \in Clients : Close(c)
    BY <1>7
  <2>2. /\ phase = "close" /\ wire' = wire /\ Advance(c)
        /\ link' = link \/ (~NoConnection(c) /\ link' = [link EXCEPT ![c] = "closing"])
    BY <2>1 DEF Close, NoConnection, SetLink
  <2>3. phase' # "new"
    BY <2>2, AdvanceEffect
  <2> QED BY <1>1, <1>2, <1>3, <1>4, <2>2, <2>3 DEF Ends
<1>8. CASE \E c \in Clients : Delete(c)
  <2>1. PICK c \in Clients : Delete(c)
    BY <1>8
  <2>2. /\ phase = "delete" /\ wire' = wire /\ Advance(c)
        /\ \/ link' = [link EXCEPT ![c] = "down"]
           \/ ~NoConnection(c) /\ link' = [link EXCEPT ![c] = "closing"]
    BY <2>1 DEF Delete, SetLink
  <2>3. phase' # "new"
    BY <2>2, AdvanceEffect
  <2> QED BY <1>1, <1>2, <1>3, <1>4, <2>2, <2>3 DEF Ends
<1>9. CASE \E c \in Clients : SendMsg(c)
  <2>1. PICK c \in Clients : SendMsg(c)
    BY <1>9
  <2>2. phase = "send" /\ link' = link /\ wire' = wire /\ Advance(c)
    BY <2>1 DEF SendMsg
  <2>3. phase' # "new"
    BY <2>2, AdvanceEffect
  <2> QED BY <1>5, <2>2, <2>3
<1>10. CASE \E c \in Clients : OnConnect(c)
  <2>1. PICK c \in Clients : OnConnect(c)
    BY <1>10
  <2>2. /\ link[c] = "connecting" /\ link' = [link EXCEPT ![c] = "up"]
        /\ wire' = [wire EXCEPT ![c] = "open"] /\ phase' = phase /\ next' = next
    BY <2>1 DEF OnConnect, SetLink
  <2>3. serv[c] = "none" /\ ~(phase = "new" /\ c >= next)
    BY <1>1, <1>3, <2>2 DEF Ends
  <2> QED BY <1>1, <1>2, <1>3, <2>2, <2>3 DEF Ends
<1>11. CASE \E c \in Clients : OnDisconnect(c)
  <2>1. PICK c \in Clients : OnDisconnect(c)
    BY <1>11
  <2>2. /\ ~NoConnection(c) /\ link' = [link EXCEPT ![c] = "down"]
        /\ wire' = wire /\ phase' = phase /\ next' = next
    BY <2>1 DEF OnDisconnect, SetLink
  <2> QED BY <1>1, <1>2, <1>3, <1>4, <2>2 DEF Ends
<1>12. CASE RunPending
  <2>1. phase' = phase /\ next' = next
    BY <1>12 DEF RunPending
  <2>2. \/ wire' = wire /\ link' = link
        \/ \E c \in Clients : ~NoConnection(c) /\ wire' = [wire EXCEPT ![c] = "fin"] /\ link' = link
        \/ \E c \in Clients : /\ ~NoConnection(c) /\ wire' = [wire EXCEPT ![c] = "reset"]
                              /\ link' = [link EXCEPT ![c] = "down"]
    BY <1>12, RunPendingEffect DEF SetLink
  <2>3. CASE \E c \in Clients : ~NoConnection(c) /\ wire' = [wire EXCEPT ![c] = "fin"] /\ link' = link
    BY <1>1, <1>2, <1>3, <1>4, <2>1, <2>3 DEF Ends
  <2>4. CASE \E c \in Clients : /\ ~NoConnection(c) /\ wire' = [wire EXCEPT ![c] = "reset"]
                                /\ link' = [link EXCEPT ![c] = "down"]
    BY <1>1, <1>2, <1>3, <1>4, <2>1, <2>4 DEF Ends
  <2> QED BY <1>5, <2>1, <2>2, <2>3, <2>4
<1>13. CASE Ended
  <2>1. /\ link'[d] = "down" /\ phase' # "new"
        /\ wire'[d] = IF wire[d] = "none" THEN "none" ELSE "reset"
    BY <1>13 DEF Ended, ProcessEnds
  <2> QED BY <1>2, <1>3, <2>1 DEF Ends
<1> QED BY <1>5, <1>6, <1>7, <1>8, <1>9, <1>10, <1>11, <1>12, <1>13, ClientKinds
        DEF QuitLoop, OnPing, Apart

(* A message that is sent or taken remains so.                              *)
LEMMA MsgKept ==
  ASSUME Types, Main \/ Loop, NEW d \in Clients
  PROVE  (MsgSent(d) => MsgSent(d)') /\ (MsgTaken(d) => MsgTaken(d)')
<1>1. /\ Len(sent[d]) <= Len(sent'[d])
      /\ \A k \in 1 .. Len(sent[d]) : sent'[d][k] = sent[d][k]
  BY ClientsGrow DEF Grown
<1>2. got' = got /\ got[d] \in Nat /\ got[d] <= Len(sent[d])
  BY ClientSteps DEF serverVars, Types, RowTypes
<1>3. Len(sent[d]) \in Nat /\ Len(sent'[d]) \in Nat
  <2>1. sent'[d] \in Seq(Sent) /\ sent[d] \in Seq(Sent)
    BY ClientsGrow DEF Grown, Types, RowTypes
  <2> QED BY <2>1, LenProperties
<1>4. MsgSent(d) => MsgSent(d)'
  <2>1. \A k \in 1 .. Len(sent[d]) : k \in 1 .. Len(sent'[d])
    BY <1>1, <1>3
  <2> QED BY <1>1, <2>1 DEF MsgSent
<1>5. MsgTaken(d) => MsgTaken(d)'
  <2>1. \A k \in 1 .. got[d] : k \in 1 .. Len(sent[d])
    BY <1>2, <1>3
  <2> QED BY <1>1, <1>2, <2>1 DEF MsgTaken
<1> QED BY <1>4, <1>5

(* A call that is queued is behind those it depends on.                     *)
LEMMA FarewellQueued ==
  ASSUME Types, Partings, Main \/ Loop, NEW d \in Clients, NEW e \in Call,
         pending' = Append(pending, e),
         e = [call |-> "send", to |-> d] => link[d] \in {"up", "closing", "down"},
         e = [call |-> "shutdown", to |-> d] => SendDone(d),
         SendDone(d)' => SendDone(d) \/ e = [call |-> "send", to |-> d],
         wire' = wire
  PROVE  Farewell(d)'
<1> DEFINE L == Len(pending)
           S == [call |-> "send", to |-> d]
           Q == [call |-> "shutdown", to |-> d]
<1>1. /\ L \in Nat /\ Len(pending') = L + 1
      /\ \A k \in 1 .. L : pending'[k] = pending[k]
      /\ pending'[L + 1] = e
  BY QueueEffect
<1>2. /\ \A i \in 1 .. L : pending[i] = S => link[d] \in {"up", "closing", "down"}
      /\ SendDone(d) => MsgSent(d) \/ link[d] = "down" \/ \E i \in 1 .. L : pending[i] = S
      /\ \A i \in 1 .. L : pending[i] = Q =>
           MsgSent(d) \/ link[d] = "down" \/ \E j \in 1 .. i - 1 : pending[j] = S
      /\ wire[d] = "fin" => MsgSent(d)
      /\ serv[d] = "closed" /\ wire[d] = "fin" => MsgTaken(d)
  BY DEF Partings, Farewell, SendQueued
<1>3. /\ link[d] = "down" => link'[d] = "down"
      /\ link[d] \in {"up", "closing", "down"} => link'[d] \in {"up", "closing", "down"}
      /\ MsgSent(d) => MsgSent(d)'
      /\ MsgTaken(d) => MsgTaken(d)'
  BY LinkSteps, MsgKept
<1>4. serv' = serv
  BY ClientSteps DEF serverVars
<1> HIDE DEF L, S, Q
<1>5. /\ \A i \in 1 .. L + 1 : i \in 1 .. L \/ i = L + 1
      /\ \A i \in 1 .. L : i \in 1 .. L + 1
      /\ L + 1 \in 1 .. L + 1 /\ (L + 1) - 1 = L
      /\ \A i \in 1 .. L : \A j \in 1 .. i - 1 : j \in 1 .. L
  BY <1>1
<1>6. \A i \in 1 .. L + 1 : pending'[i] = S => link'[d] \in {"up", "closing", "down"}
  BY <1>1, <1>2, <1>3, <1>5 DEF S
<1>7. SendDone(d)' => MsgSent(d)' \/ link'[d] = "down" \/ \E i \in 1 .. L + 1 : pending'[i] = S
  <2>1. CASE e = S
    BY <1>1, <1>5, <2>1
  <2>2. CASE e # S
    <3>1. SendDone(d)' => SendDone(d)
      BY <2>2 DEF S
    <3> QED BY <1>1, <1>2, <1>3, <1>5, <3>1
  <2> QED BY <2>1, <2>2
<1>8. ASSUME NEW i \in 1 .. L + 1, pending'[i] = Q
      PROVE  MsgSent(d)' \/ link'[d] = "down" \/ \E j \in 1 .. i - 1 : pending'[j] = S
  <2>1. CASE i \in 1 .. L
    <3>1. pending[i] = Q
      BY <1>1, <1>8, <2>1
    <3>2. MsgSent(d) \/ link[d] = "down" \/ \E j \in 1 .. i - 1 : pending[j] = S
      BY <1>2, <2>1, <3>1
    <3> QED BY <1>1, <1>3, <1>5, <2>1, <3>2
  <2>2. CASE i = L + 1
    <3>1. e = Q
      BY <1>1, <1>8, <2>2
    <3>2. SendDone(d)
      BY <3>1 DEF Q
    <3>3. MsgSent(d) \/ link[d] = "down" \/ \E j \in 1 .. L : pending[j] = S
      BY <1>2, <3>2
    <3> QED BY <1>1, <1>3, <1>5, <2>2, <3>3
  <2> QED BY <1>5, <2>1, <2>2
<1>9. wire'[d] = "fin" => MsgSent(d)'
  BY <1>2, <1>3
<1>10. serv'[d] = "closed" /\ wire'[d] = "fin" => MsgTaken(d)'
  BY <1>2, <1>3, <1>4
<1>11. /\ \A i \in 1 .. Len(pending') : pending'[i] = S => link'[d] \in {"up", "closing", "down"}
       /\ SendDone(d)' => MsgSent(d)' \/ link'[d] = "down" \/ \E i \in 1 .. Len(pending') : pending'[i] = S
       /\ \A i \in 1 .. Len(pending') : pending'[i] = Q =>
            MsgSent(d)' \/ link'[d] = "down" \/ \E j \in 1 .. i - 1 : pending'[j] = S
  BY <1>1, <1>6, <1>7, <1>8
<1> QED BY <1>9, <1>10, <1>11 DEF Farewell, SendQueued, S, Q

(* The same when nothing is queued.                                         *)
LEMMA FarewellSame ==
  ASSUME Types, Partings, Main \/ Loop, NEW d \in Clients,
         pending' = pending, SendDone(d)' => SendDone(d),
         wire'[d] = "fin" => wire[d] = "fin"
  PROVE  Farewell(d)'
<1>1. Farewell(d)
  BY DEF Partings
<1>2. /\ link[d] = "down" => link'[d] = "down"
      /\ link[d] \in {"up", "closing", "down"} => link'[d] \in {"up", "closing", "down"}
      /\ MsgSent(d) => MsgSent(d)'
      /\ MsgTaken(d) => MsgTaken(d)'
  BY LinkSteps, MsgKept
<1>3. serv' = serv
  BY ClientSteps DEF serverVars
<1>4. \A m : SendQueued(d, m)' <=> SendQueued(d, m)
  BY DEF SendQueued
<1>5. \A i \in 1 .. Len(pending') : pending'[i] = [call |-> "send", to |-> d] =>
        link'[d] \in {"up", "closing", "down"}
  BY <1>1, <1>2 DEF Farewell
<1>6. SendDone(d)' => MsgSent(d)' \/ link'[d] = "down" \/ SendQueued(d, Len(pending))'
  BY <1>1, <1>2 DEF Farewell, SendQueued
<1>7. \A i \in 1 .. Len(pending') : pending'[i] = [call |-> "shutdown", to |-> d] =>
        MsgSent(d)' \/ link'[d] = "down" \/ SendQueued(d, i - 1)'
  BY <1>1, <1>2 DEF Farewell, SendQueued
<1>8. wire'[d] = "fin" => MsgSent(d)'
  BY <1>1, <1>2 DEF Farewell
<1>9. serv'[d] = "closed" /\ wire'[d] = "fin" => MsgTaken(d)'
  BY <1>1, <1>2, <1>3 DEF Farewell
<1> QED BY <1>5, <1>6, <1>7, <1>8, <1>9 DEF Farewell

(* The call at the head takes effect: after a send the message is there, or *)
(* the connection is gone; a shutdown that comes to its turn is behind it.  *)
LEMMA FarewellPopped ==
  ASSUME Types, Partings, Main \/ Loop, RunPending, NEW d \in Clients
  PROVE  Farewell(d)'
<1> DEFINE L == Len(pending)
           S == [call |-> "send", to |-> d]
           Q == [call |-> "shutdown", to |-> d]
<1>1. /\ L \in Nat /\ L >= 1 /\ Len(pending') = L - 1
      /\ \A k \in 1 .. L - 1 : pending'[k] = pending[k + 1]
  BY RunPendingEffect
<1>2. /\ \A i \in 1 .. L : pending[i] = S => link[d] \in {"up", "closing", "down"}
      /\ SendDone(d) => MsgSent(d) \/ link[d] = "down" \/ \E i \in 1 .. L : pending[i] = S
      /\ \A i \in 1 .. L : pending[i] = Q =>
           MsgSent(d) \/ link[d] = "down" \/ \E j \in 1 .. i - 1 : pending[j] = S
      /\ wire[d] = "fin" => MsgSent(d)
      /\ serv[d] = "closed" /\ wire[d] = "fin" => MsgTaken(d)
  BY DEF Partings, Farewell, SendQueued
<1>3. /\ link[d] = "down" => link'[d] = "down"
      /\ link[d] \in {"up", "closing", "down"} => link'[d] \in {"up", "closing", "down"}
      /\ MsgSent(d) => MsgSent(d)'
      /\ MsgTaken(d) => MsgTaken(d)'
  BY LinkSteps, MsgKept
<1>4. serv' = serv /\ (SendDone(d)' => SendDone(d))
  <2>1. serv' = serv
    BY ClientSteps DEF serverVars
  <2>2. phase' = phase /\ next' = next
    BY DEF RunPending
  <2> QED BY <2>1, <2>2 DEF SendDone
<1>5. pending[1] = S => MsgSent(d)' \/ link'[d] = "down"
  <2> SUFFICES ASSUME pending[1] = S PROVE MsgSent(d)' \/ link'[d] = "down"
    OBVIOUS
  <2>1. link[d] \in {"up", "closing", "down"}
    <3>1. 1 \in 1 .. L
      BY <1>1
    <3> QED BY <1>2, <3>1
  <2>2. PICK c \in Clients :
          /\ pending[1] = [call |-> "send", to |-> c]
          /\ IF NoConnection(c) THEN sent' = sent ELSE Write(c, <<"msg">>)
    <3>1. pending[1].call = "send"
      OBVIOUS
    <3>2. \/ \E c \in Clients :
               /\ pending[1] = [call |-> "send", to |-> c]
               /\ IF NoConnection(c) THEN sent' = sent ELSE Write(c, <<"msg">>)
          \/ pending[1].call \in {"shutdown", "forceClose", "quit"}
      <4>1. /\ \A c \in Clients : [call |-> "shutdown", to |-> c].call = "shutdown"
            /\ \A c \in Clients : [call |-> "forceClose", to |-> c].call = "forceClose"
            /\ [call |-> "quit"].call = "quit"
        OBVIOUS
      <4> QED BY <4>1, RunPendingEffect, Zenon
    <3> QED BY <3>1, <3>2
  <2>3. c = d
    BY <2>2
  <2>4. CASE NoConnection(d)
    BY <1>3, <2>1, <2>4 DEF NoConnection
  <2>5. CASE ~NoConnection(d)
    <3>1. Write(d, <<"msg">>)
      BY <2>2, <2>3, <2>5
    <3> DEFINE kinds == <<"msg">>
    <3>2. kinds \in Seq(Kinds) /\ Len(kinds) = 1 /\ kinds[1] = "msg" /\ 1 \in 1 .. Len(kinds)
      BY DEF Kinds
    <3>3. Write(d, kinds)
      BY <3>1
    <3> HIDE DEF kinds
    <3>4. /\ Len(sent'[d]) = Len(sent[d]) + 1
          /\ sent'[d][Len(sent[d]) + 1] = [kind |-> "msg", n |-> Len(sent[d]) + 1]
      <4>1. RowTypes
        BY DEF Types
      <4>2. /\ Len(sent'[d]) = Len(sent[d]) + Len(kinds)
            /\ \A k \in 1 .. Len(kinds) :
                 sent'[d][Len(sent[d]) + k] = [kind |-> kinds[k], n |-> Len(sent[d]) + k]
        BY <3>2, <3>3, <4>1, WriteEffect
      <4>3. sent'[d][Len(sent[d]) + 1] = [kind |-> kinds[1], n |-> Len(sent[d]) + 1]
        BY <3>2, <4>2, Zenon
      <4> QED BY <3>2, <4>2, <4>3
    <3>5. Len(sent[d]) \in Nat
      BY LenProperties DEF Types, RowTypes
    <3>6. Len(sent[d]) + 1 \in 1 .. Len(sent'[d])
      BY <3>4, <3>5
    <3>7. sent'[d][Len(sent[d]) + 1].kind = "msg"
      BY <3>4
    <3> QED BY <3>6, <3>7 DEF MsgSent
  <2> QED BY <2>4, <2>5
<1>6. wire'[d] = "fin" /\ wire[d] # "fin" =>
        pending[1] = Q /\ ~NoConnection(d)
  <2>1. wire \in [Clients -> {"none", "open", "fin", "reset"}]
    BY DEF Types, NetTypes
  <2>2. \/ wire' = wire
        \/ \E c \in Clients : /\ pending[1] = [call |-> "shutdown", to |-> c]
                              /\ ~NoConnection(c) /\ wire' = [wire EXCEPT ![c] = "fin"]
        \/ \E c \in Clients : wire' = [wire EXCEPT ![c] = "reset"]
    BY RunPendingEffect
  <2>3. CASE wire' = wire
    BY <2>3
  <2>4. CASE \E c \in Clients : /\ pending[1] = [call |-> "shutdown", to |-> c]
                                /\ ~NoConnection(c) /\ wire' = [wire EXCEPT ![c] = "fin"]
    <3>1. PICK c \in Clients : /\ pending[1] = [call |-> "shutdown", to |-> c]
                               /\ ~NoConnection(c) /\ wire' = [wire EXCEPT ![c] = "fin"]
      BY <2>4
    <3>2. CASE c = d
      BY <3>1, <3>2
    <3>3. CASE c # d
      BY <2>1, <3>1, <3>3
    <3> QED BY <3>2, <3>3
  <2>5. CASE \E c \in Clients : wire' = [wire EXCEPT ![c] = "reset"]
    BY <2>1, <2>5
  <2> QED BY <2>2, <2>3, <2>4, <2>5
<1> HIDE DEF L, S, Q
<1>7. /\ \A i \in 1 .. L - 1 : i + 1 \in 1 .. L /\ (i + 1) - 1 = i
      /\ \A i \in 1 .. L : i # 1 => i - 1 \in 1 .. L - 1 /\ (i - 1) + 1 = i
      /\ \A i \in 1 .. L - 1 : \A j \in 1 .. i : j # 1 => j - 1 \in 1 .. i - 1 /\ j - 1 \in 1 .. L - 1 /\ (j - 1) + 1 = j
      /\ 1 \in 1 .. L /\ 1 .. 1 - 1 = {}
  BY <1>1
<1>8. \A i \in 1 .. L - 1 : pending'[i] = S => link'[d] \in {"up", "closing", "down"}
  BY <1>1, <1>2, <1>3, <1>7
<1>9. SendDone(d)' => MsgSent(d)' \/ link'[d] = "down" \/ \E i \in 1 .. L - 1 : pending'[i] = S
  <2> SUFFICES ASSUME SendDone(d)' PROVE MsgSent(d)' \/ link'[d] = "down" \/ \E i \in 1 .. L - 1 : pending'[i] = S
    OBVIOUS
  <2>1. MsgSent(d) \/ link[d] = "down" \/ \E i \in 1 .. L : pending[i] = S
    BY <1>2, <1>4
  <2>2. CASE MsgSent(d) \/ link[d] = "down"
    BY <1>3, <2>2
  <2>3. CASE \E i \in 1 .. L : pending[i] = S
    <3>1. PICK i \in 1 .. L : pending[i] = S
      BY <2>3
    <3>2. CASE i = 1
      BY <1>5, <3>1, <3>2
    <3>3. CASE i # 1
      <4>1. i - 1 \in 1 .. L - 1 /\ (i - 1) + 1 = i
        BY <1>7, <3>3
      <4>2. pending'[i - 1] = S
        BY <1>1, <3>1, <4>1
      <4> QED BY <4>1, <4>2
    <3> QED BY <3>2, <3>3
  <2> QED BY <2>1, <2>2, <2>3
<1>10. ASSUME NEW i \in 1 .. L - 1, pending'[i] = Q
       PROVE  MsgSent(d)' \/ link'[d] = "down" \/ \E j \in 1 .. i - 1 : pending'[j] = S
  <2>1. i + 1 \in 1 .. L /\ (i + 1) - 1 = i /\ pending[i + 1] = Q
    BY <1>1, <1>7, <1>10
  <2>2. MsgSent(d) \/ link[d] = "down" \/ \E j \in 1 .. i : pending[j] = S
    BY <1>2, <2>1
  <2>3. CASE MsgSent(d) \/ link[d] = "down"
    BY <1>3, <2>3
  <2>4. CASE \E j \in 1 .. i : pending[j] = S
    <3>1. PICK j \in 1 .. i : pending[j] = S
      BY <2>4
    <3>2. CASE j = 1
      BY <1>5, <3>1, <3>2
    <3>3. CASE j # 1
      <4>1. j - 1 \in 1 .. i - 1 /\ j - 1 \in 1 .. L - 1 /\ (j - 1) + 1 = j
        BY <1>7, <3>3
      <4>2. pending'[j - 1] = S
        BY <1>1, <3>1, <4>1
      <4> QED BY <4>1, <4>2
    <3> QED BY <3>2, <3>3
  <2> QED BY <2>2, <2>3, <2>4
<1>11. wire'[d] = "fin" => MsgSent(d)'
  <2>1. CASE wire[d] = "fin"
    BY <1>2, <1>3, <2>1
  <2>2. CASE wire'[d] = "fin" /\ wire[d] # "fin"
    <3>1. pending[1] = Q /\ link[d] # "down"
      BY <1>6, <2>2 DEF NoConnection
    <3>2. MsgSent(d)
      BY <1>2, <1>7, <3>1
    <3> QED BY <1>3, <3>2
  <2> QED BY <2>1, <2>2
<1>12. serv'[d] = "closed" /\ wire'[d] = "fin" => MsgTaken(d)'
  <2>1. CASE wire[d] = "fin"
    BY <1>2, <1>3, <1>4, <2>1
  <2>2. CASE wire'[d] = "fin" /\ wire[d] # "fin"
    <3>1. link[d] # "down"
      BY <1>6, <2>2 DEF NoConnection
    <3>2. serv[d] # "closed"
      BY <2>2, <3>1 DEF Partings, Ends
    <3> QED BY <1>4, <3>2
  <2> QED BY <2>1, <2>2
<1>13. /\ \A i \in 1 .. Len(pending') : pending'[i] = S => link'[d] \in {"up", "closing", "down"}
       /\ SendDone(d)' => MsgSent(d)' \/ link'[d] = "down" \/ \E i \in 1 .. Len(pending') : pending'[i] = S
       /\ \A i \in 1 .. Len(pending') : pending'[i] = Q =>
            MsgSent(d)' \/ link'[d] = "down" \/ \E j \in 1 .. i - 1 : pending'[j] = S
  BY <1>1, <1>8, <1>9, <1>10
<1> QED BY <1>11, <1>12, <1>13 DEF Farewell, SendQueued, S, Q

LEMMA PartingsClient ==
  ASSUME Types, Partings, Main \/ Loop
  PROVE  Partings'
<1> SUFFICES ASSUME NEW d \in Clients PROVE Farewell(d)'
  BY EndsClient DEF Partings
<1>1. ASSUME ~(\E c \in Clients : SendMsg(c)) PROVE SendDone(d)' => SendDone(d)
  BY <1>1, SendDoneSteps
<1>2. wire \in [Clients -> {"none", "open", "fin", "reset"}]
  BY DEF Types, NetTypes
<1>3. CASE \E c \in Clients : SendMsg(c)
  <2>1. PICK c \in Clients : SendMsg(c)
    BY <1>3
  <2>2. /\ ~NoConnection(c) /\ wire' = wire /\ phase = "send" /\ next = c
        /\ pending' = Append(pending, [call |-> "send", to |-> c])
    BY <2>1 DEF SendMsg, Queue
  <2> DEFINE e == [call |-> "send", to |-> c]
  <2>3. e \in Call
    BY CallTypes DEF Calls
  <2>4. e = [call |-> "send", to |-> d] => link[d] \in {"up", "closing", "down"}
    BY <2>2 DEF NoConnection
  <2>5. e # [call |-> "shutdown", to |-> d]
    OBVIOUS
  <2>6. SendDone(d)' => SendDone(d) \/ e = [call |-> "send", to |-> d]
    <3> SUFFICES ASSUME SendDone(d)', ~SendDone(d) PROVE e = [call |-> "send", to |-> d]
      OBVIOUS
    <3>1. next = d
      BY SendDoneSteps DEF SendMsg
    <3> QED BY <2>2, <3>1
  <2> HIDE DEF e
  <2> QED BY <2>2, <2>3, <2>4, <2>5, <2>6, FarewellQueued DEF e
<1>4. CASE \E c \in Clients : Close(c)
  <2>1. PICK c \in Clients : Close(c)
    BY <1>4
  <2>2. SendDone(d)' => SendDone(d)
    BY <2>1, SendDoneSteps DEF Close, SendMsg
  <2>3. SendDone(d) /\ wire' = wire
    BY <2>1 DEF Close, SendDone
  <2>4. CASE pending' = pending
    BY <2>2, <2>3, <2>4, FarewellSame
  <2>5. CASE pending' = Append(pending, [call |-> "shutdown", to |-> c])
    <3> DEFINE e == [call |-> "shutdown", to |-> c]
    <3>1. e \in Call /\ e # [call |-> "send", to |-> d]
      BY CallTypes DEF Calls
    <3> HIDE DEF e
    <3>2. pending' = Append(pending, e)
      BY <2>5 DEF e
    <3> QED BY <2>2, <2>3, <3>1, <3>2, FarewellQueued
  <2> QED BY <2>1, <2>4, <2>5 DEF Close, Queue
<1>5. CASE \E c \in Clients : Delete(c)
  <2>1. PICK c \in Clients : Delete(c)
    BY <1>5
  <2>2. SendDone(d)' => SendDone(d)
    BY <2>1, SendDoneSteps DEF Delete, SendMsg
  <2>3. wire' = wire
    BY <2>1 DEF Delete
  <2>4. CASE pending' = pending
    BY <2>2, <2>3, <2>4, FarewellSame
  <2>5. CASE pending' = Append(pending, [call |-> "forceClose", to |-> c])
    <3> DEFINE e == [call |-> "forceClose", to |-> c]
    <3>1. e \in Call /\ e # [call |-> "send", to |-> d] /\ e # [call |-> "shutdown", to |-> d]
      BY CallTypes DEF Calls
    <3> HIDE DEF e
    <3>2. pending' = Append(pending, e)
      BY <2>5 DEF e
    <3> QED BY <2>2, <2>3, <3>1, <3>2, FarewellQueued
  <2> QED BY <2>1, <2>4, <2>5 DEF Delete, Queue
<1>6. CASE QuitLoop
  <2>1. SendDone(d)' => SendDone(d)
    BY <1>6, SendDoneSteps DEF QuitLoop, SendMsg
  <2> DEFINE e == [call |-> "quit"]
  <2>2. wire' = wire /\ pending' = Append(pending, e)
    BY <1>6 DEF QuitLoop
  <2>3. e \in Call
    BY CallTypes
  <2>4. e # [call |-> "send", to |-> d] /\ e # [call |-> "shutdown", to |-> d]
    <3>1. /\ e.call = "quit" /\ [call |-> "send", to |-> d].call = "send"
          /\ [call |-> "shutdown", to |-> d].call = "shutdown"
      OBVIOUS
    <3> HIDE DEF e
    <3>2. "quit" # "send" /\ "quit" # "shutdown"
      OBVIOUS
    <3> QED BY <3>1, <3>2, Zenon
  <2> HIDE DEF e
  <2> QED BY <2>1, <2>2, <2>3, <2>4, FarewellQueued
<1>7. CASE RunPending
  BY <1>7, FarewellPopped
<1>8. CASE \E c \in Clients : Start(c)
  <2>1. PICK c \in Clients : Start(c)
    BY <1>8
  <2>2. SendDone(d)' => SendDone(d)
    BY <2>1, SendDoneSteps DEF Start, SendMsg
  <2> QED BY <2>1, <2>2, FarewellSame DEF Start
<1>9. CASE \E c \in Clients : OnConnect(c)
  <2>1. PICK c \in Clients : OnConnect(c)
    BY <1>9
  <2>2. /\ wire' = [wire EXCEPT ![c] = "open"] /\ pending' = pending /\ phase' = phase /\ next' = next
    BY <2>1 DEF OnConnect
  <2>3. wire'[d] = "fin" => wire[d] = "fin"
    BY <1>2, <2>2
  <2> QED BY <2>2, <2>3, FarewellSame DEF SendDone
<1>10. CASE wire' = wire /\ pending' = pending /\ phase' = phase /\ next' = next
  BY <1>10, FarewellSame DEF SendDone
<1>11. CASE Apart
  <2>1. wire' = wire /\ pending' = pending /\ (SendDone(d)' => SendDone(d))
    BY <1>11 DEF Apart, SendDone
  <2> QED BY <2>1, FarewellSame
<1>12. CASE Ended
  <2>1. pending' = << >> /\ ~SendDone(d)' /\ wire'[d] # "fin"
    BY <1>12 DEF Ended, ProcessEnds, SendDone
  <2>2. \A i \in 1 .. Len(pending') : FALSE
    BY <2>1
  <2> QED BY <2>1, <2>2 DEF Farewell
<1> QED BY <1>3, <1>4, <1>5, <1>6, <1>7, <1>8, <1>9, <1>10, <1>11, <1>12, ClientKinds
        DEF OnDisconnect, OnPing

-----------------------------------------------------------------------------
LEMMA InitIInv == Init => IInv
<1> SUFFICES ASSUME Init PROVE IInv
  OBVIOUS
<1> USE DEF Init
<1>1. \A c \in Clients : c \in Nat /\ c >= 1
  BY Numbered
<1>2. \A c \in Clients : sent[c] = << >> /\ back[c] = << >> /\ got[c] = 0
  OBVIOUS
<1>3. Len(<< >>) = 0 /\ DOMAIN << >> = 1 .. 0 /\ \A k \in 1 .. 0 : FALSE
  OBVIOUS
<1>4. NetTypes
  BY DEF NetTypes
<1>5. WalkTypes
  BY RoundsAssumption DEF WalkTypes
<1>6. RowTypes
  <2>1. \A c \in Clients : got[c] <= Len(sent[c])
    BY <1>2, <1>3
  <2> QED BY <2>1 DEF RowTypes
<1>7. ClientTypes
  <2>1. \A c \in Clients : pings[c] <= MaxPings[c]
    BY PingsAssumption
  <2>2. pending \in Seq(Call)
    OBVIOUS
  <2>3. next \in Clients /\ phase = "new" /\ quitting = FALSE /\ looping = TRUE
    BY Numbered
  <2>4. object \in [Clients -> {"none"}] /\ link \in [Clients -> {"none"}] /\ pings \in [Clients -> Nat]
    OBVIOUS
  <2> HIDE DEF Init
  <2> QED BY <2>1, <2>2, <2>3, <2>4 DEF ClientTypes
<1>8. ASSUME NEW c \in Clients PROVE SentRow(c) /\ EchoRow(c)
  <2>1. SentRow(c)
    BY <1>2, <1>3 DEF SentRow
  <2>2. Echoes(c) = {}
    BY <1>2, <1>3 DEF Echoes
  <2>3. EchoRow(c)
    <3>1. \A k \in 1 .. got[c] - 1 : FALSE
      BY <1>2
    <3> QED BY <1>2, <2>2, <3>1 DEF EchoRow
  <2> QED BY <2>1, <2>3
<1>9. ASSUME NEW c \in Clients PROVE Ends(c) /\ Farewell(c)
  <2>1. Ends(c)
    BY DEF Ends
  <2>2. ~SendDone(c)
    BY DEF SendDone
  <2>3. Len(pending) = 0
    OBVIOUS
  <2>4. \A i \in 1 .. Len(pending) : FALSE
    BY <2>3
  <2> QED BY <2>1, <2>2, <2>4 DEF Farewell
<1>10. PushRows
  <2>1. \A c \in Clients : Pushed(c) = {} /\ Underway(c) = {}
    BY <1>2, <1>3 DEF Pushed, Underway
  <2>2. \A c \in Clients : serv[c] # "up"
    OBVIOUS
  <2> QED BY <2>1, <2>2 DEF PushRows
<1> QED BY <1>4, <1>5, <1>6, <1>7, <1>8, <1>9, <1>10 DEF IInv, Types, Rows, Partings

LEMMA StutterIInv == ASSUME IInv, UNCHANGED vars PROVE IInv'
<1> USE DEF vars, serverVars, clientVars
<1>1. Types'
  BY DEF IInv, Types, NetTypes, WalkTypes, RowTypes, ClientTypes
<1>2. Rows'
  BY DEF IInv, Rows, SentRow, EchoRow, Echoes
<1>3. Partings'
  BY DEF IInv, Partings, Ends, Farewell, MsgSent, MsgTaken, SendQueued, SendDone
<1>4. PushRows'
  BY DEF IInv, PushRows, PushRow, Pushed, Underway, Passed
<1> QED BY <1>1, <1>2, <1>3, <1>4 DEF IInv

(* The inductive invariant holds in every reachable state: the streams of   *)
(* OnMessage, the walk of OnTimer and the calls queued for the loop thread  *)
(* stay in step, whatever the threads of both programs do in between.       *)
THEOREM MuduoInvariance == Spec => []IInv
<1>1. ASSUME IInv, Next PROVE IInv'
  <2> USE DEF IInv
  <2>1. Types' /\ Rows' /\ PushRows'
    BY <1>1, TypesStep, RowsStep, PushRowsStep
  <2>2. Partings'
    BY <1>1, PartingsServer, PartingsClient DEF Next
  <2> QED BY <2>1, <2>2
<1>2. IInv /\ [Next]_vars => IInv'
  BY <1>1, StutterIInv
<1> QED BY InitIInv, <1>2, PTL DEF Spec

(* Type correctness of the client, its loop and its server.                 *)
THEOREM MuduoTypeCorrect == Spec => []TypeOK
<1>1. IInv => TypeOK
  BY TypesAreTypeOK DEF IInv
<1> QED BY <1>1, MuduoInvariance, PTL

(* OnMessage sends a client nothing as an echo but what it sent, in order   *)
(* and once, answers every ping that no read has cut, and has read the      *)
(* client's message before OnConnection sees it leave by its own shutdown.  *)
THEOREM MuduoStreamsAgree == Spec => []StreamsAgree
<1>1. IInv => StreamsAgree
  BY DEF IInv, Rows, EchoRow, Partings, Farewell, MsgTaken, StreamsAgree
<1> QED BY <1>1, MuduoInvariance, PTL

(* OnTimer pushes once, in order, for every run that had not passed a       *)
(* connection when it came, to each connection that is up, as long as its   *)
(* walk of m_Conns has not been misled by a change of the map.              *)
THEOREM MuduoPushesReachAll == Spec => []PushesReachAll
<1>1. IInv => PushesReachAll
  BY DEF IInv, PushRows, PushRow, PushesReachAll
<1> QED BY <1>1, MuduoInvariance, PTL

=============================================================================
