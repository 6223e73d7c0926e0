------------------------- MODULE SelectServerProofs -------------------------
(***************************************************************************)
(* Proofs about SelectServer for any clients, any size of the sets and of  *)
(* the buffer.  That only select drops a client is not inductive: the loop *)
(* erases one element, and that this ends the client's membership needs    *)
(* the vector to hold each client once; and a client that is accepted must *)
(* not have been dropped before, so those that still wait in the backlog   *)
(* have to be strangers to the vector and to the set.                      *)
(***************************************************************************)
EXTENDS SelectServer, FiniteSetTheorems, SequenceTheorems, WellFoundedInduction, TLAPS

Sockets == Clients \cup {INVALID_SOCKET}

(* No client has two entries.                                               *)
Once(s) ==
  \A j, k \in 1 .. Len(s) : s[j] = s[k] /\ s[j] # INVALID_SOCKET => j = k

(* A client connects, waits and is accepted once, in this order.            *)
Strangers ==
  /\ \A k \in 1 .. Len(backlog) : backlog[k] \notin Open \cup missed
  /\ \A c \in Clients : peer[c] = "none" =>
       c \notin Open \cup missed /\ \A k \in 1 .. Len(backlog) : backlog[k] # c

(* What the types leave open.                                               *)
Shape ==
  /\ backlog \in Seq(Clients) /\ sent \in [Clients -> Nat]
  /\ IsFiniteSet(read_fds)
  /\ at # InSelect => INVALID_SOCKET \notin read_fds
  /\ Once(all_cli_sockets) /\ Once(backlog)

IInv == TypeOK /\ Shape /\ Strangers /\ DroppedOnlyBySelect

-----------------------------------------------------------------------------
(* The least element of a set of naturals.                                  *)
LEMMA MinInSet ==
  ASSUME NEW S \in SUBSET Nat, S # {}
  PROVE  Min(S) \in S /\ \A n \in S : Min(S) <= n
<1> DEFINE Below(n) == 0 .. n
           T == {Below(n) : n \in S}
<1>1. \A n \in S : Below(n) \in FiniteSubsetsOf(Nat)
  BY FS_Interval DEF FiniteSubsetsOf
<1>2. PICK A \in T : \A B \in T : <<B, A>> \notin StrictSubsetOrdering(Nat)
  <2>1. T \subseteq FiniteSubsetsOf(Nat) /\ T # {}
    BY <1>1
  <2> HIDE DEF T
  <2> QED BY <2>1, FS_StrictSubsetOrderingWellFounded, WFMin
<1>3. PICK x \in S : A = Below(x)
  BY <1>2
<1>4. \A y \in S : x <= y
  <2> SUFFICES ASSUME NEW y \in S, y < x PROVE FALSE
    OBVIOUS
  <2>1. Below(y) \in T /\ Below(y) \subseteq Below(x) /\ Below(x) \subseteq Nat
    OBVIOUS
  <2>2. x \in Below(x) /\ x \notin Below(y)
    OBVIOUS
  <2> HIDE DEF Below, T
  <2> QED BY <1>2, <1>3, <2>1, <2>2 DEF StrictSubsetOrdering
<1> QED BY <1>4 DEF Min

(* Erasing entry n of a vector.                                             *)
LEMMA RemoveEntry ==
  ASSUME NEW S, NEW s \in Seq(S), NEW n \in 1 .. Len(s)
  PROVE  /\ RemoveAt(s, n) \in Seq(S) /\ Len(RemoveAt(s, n)) = Len(s) - 1
         /\ \A k \in 1 .. Len(s) - 1 : RemoveAt(s, n)[k] = IF k < n THEN s[k] ELSE s[k + 1]
<1> DEFINE a == SubSeq(s, 1, n - 1)
           b == SubSeq(s, n + 1, Len(s))
<1>1. Len(s) \in Nat /\ \A k \in 1 .. Len(s) : s[k] \in S
  BY LenProperties, ElementOfSeq
<1>2. a \in Seq(S) /\ Len(a) = n - 1 /\ \A k \in 1 .. n - 1 : a[k] = s[k]
  <2>1. \A k \in 1 .. n - 1 : s[k] \in S
    BY <1>1
  <2>2. /\ a \in Seq(S) /\ Len(a) = IF 1 <= n - 1 THEN n - 1 - 1 + 1 ELSE 0
        /\ \A k \in 1 .. n - 1 - 1 + 1 : a[k] = s[1 + k - 1]
    BY <1>1, <2>1, SubSeqProperties
  <2> HIDE DEF a
  <2> QED BY <1>1, <2>2
<1>3. b \in Seq(S) /\ Len(b) = Len(s) - n /\ \A k \in 1 .. Len(s) - n : b[k] = s[n + k]
  <2>1. \A k \in n + 1 .. Len(s) : s[k] \in S
    BY <1>1
  <2>2. /\ b \in Seq(S) /\ Len(b) = IF n + 1 <= Len(s) THEN Len(s) - (n + 1) + 1 ELSE 0
        /\ \A k \in 1 .. Len(s) - (n + 1) + 1 : b[k] = s[n + 1 + k - 1]
    BY <1>1, <2>1, SubSeqProperties
  <2> HIDE DEF b
  <2> QED BY <1>1, <2>2
<1>4. RemoveAt(s, n) = a \o b
  BY DEF RemoveAt
<1> HIDE DEF a, b
<1>5. /\ a \o b \in Seq(S) /\ Len(a \o b) = Len(a) + Len(b)
      /\ \A k \in 1 .. Len(a) + Len(b) : (a \o b)[k] = IF k <= Len(a) THEN a[k] ELSE b[k - Len(a)]
  BY <1>2, <1>3, ConcatProperties
<1> QED BY <1>1, <1>2, <1>3, <1>4, <1>5

(* The first n entries, or all behind them, of what a client has sent.      *)
LEMMA Pieces ==
  ASSUME NEW S, NEW s \in Seq(S), NEW n \in 0 .. Len(s)
  PROVE  SubSeq(s, 1, n) \in Seq(S) /\ SubSeq(s, n + 1, Len(s)) \in Seq(S)
<1>1. Len(s) \in Nat /\ \A k \in 1 .. Len(s) : s[k] \in S
  BY LenProperties, ElementOfSeq
<1>2. (\A k \in 1 .. n : s[k] \in S) /\ (\A k \in n + 1 .. Len(s) : s[k] \in S)
  BY <1>1
<1> QED BY <1>1, <1>2, SubSeqProperties

(* An echo is a sequence of pieces and garbage.                             *)
LEMMA EchoType ==
  ASSUME NEW data \in Seq(Nat \ {0})
  PROVE  Echo(data) \in Seq(Nat)
<1> DEFINE zero == {k \in DOMAIN data : data[k] \in HasZero}
<1>1. Len(data) \in Nat /\ DOMAIN data = 1 .. Len(data) /\ data \in Seq(Nat)
  BY LenProperties, SeqMonotonic
<1>2. CASE zero # {}
  <2>1. zero \in SUBSET Nat
    BY <1>1
  <2> HIDE DEF zero
  <2>2. Min(zero) \in zero
    BY <1>2, <2>1, MinInSet
  <2> USE DEF zero
  <2>3. Min(zero) - 1 \in 0 .. Len(data)
    BY <1>1, <2>2
  <2> QED BY <1>1, <1>2, <2>3, Pieces DEF Echo
<1>3. CASE zero = {}
  BY <1>1, <1>3, AppendProperties DEF Echo, Garbage
<1> QED BY <1>2, <1>3

(* The clients in the vector, read off its indices.                         *)
LEMMA OpenDef ==
  ASSUME TypeOK
  PROVE  /\ all_cli_sockets \in Seq(Sockets) /\ Len(all_cli_sockets) \in Nat
         /\ DOMAIN all_cli_sockets = 1 .. Len(all_cli_sockets)
         /\ \A c : c \in Open <=> /\ c # INVALID_SOCKET
                                  /\ \E k \in 1 .. Len(all_cli_sockets) : all_cli_sockets[k] = c
<1>1. all_cli_sockets \in Seq(Sockets)
  BY DEF TypeOK, Sockets
<1>2. Len(all_cli_sockets) \in Nat /\ DOMAIN all_cli_sockets = 1 .. Len(all_cli_sockets)
  BY <1>1, LenProperties
<1> QED BY <1>1, <1>2 DEF Open, Range

(* What FD_SET leaves in a set.                                             *)
LEMMA FdSet ==
  ASSUME NEW fd, NEW fds, IsFiniteSet(fds), Cardinality(fds) <= FD_SETSIZE
  PROVE  /\ FD_SET(fd, fds) \subseteq fds \cup {fd} /\ fds \subseteq FD_SET(fd, fds)
         /\ IsFiniteSet(FD_SET(fd, fds)) /\ Cardinality(FD_SET(fd, fds)) <= FD_SETSIZE
<1>1. FD_SETSIZE \in Nat
  BY SelectServerAssumption
<1>2. Cardinality(fds) \in Nat
  BY FS_CardinalityType
<1> QED BY <1>1, <1>2, FS_AddElement DEF FD_SET

(* A part of the set is a set.                                              *)
LEMMA FewerFds ==
  ASSUME TypeOK, Shape, NEW fds \in SUBSET read_fds
  PROVE  IsFiniteSet(fds) /\ Cardinality(fds) <= FD_SETSIZE
<1>1. IsFiniteSet(fds) /\ Cardinality(fds) <= Cardinality(read_fds)
  BY FS_Subset DEF Shape
<1>2. Cardinality(fds) \in Nat /\ Cardinality(read_fds) \in Nat /\ FD_SETSIZE \in Nat
  BY <1>1, FS_CardinalityType, SelectServerAssumption DEF Shape
<1> QED BY <1>1, <1>2 DEF TypeOK

LEMMA InitIInv == Init => IInv
<1> SUFFICES ASSUME Init PROVE IInv
  OBVIOUS
<1>1. Open = {}
  BY DEF Init, Open, Range
<1>2. IsFiniteSet({serv_sock}) /\ Cardinality({serv_sock}) = 1
  BY FS_Singleton
<1>3. \A S : << >> \in Seq(S)
  BY EmptySeq
<1>4. Len(<< >>) = 0
  BY EmptySeq
<1>5. TypeOK
  <2>1. Range(backlog) = {}
    BY DEF Init, Range
  <2>2. 0 \in 0 .. SendRoom
    BY SelectServerAssumption
  <2> QED BY <1>1, <1>2, <1>3, <2>1, <2>2, SelectServerAssumption DEF Init, TypeOK, InSelect
<1>6. Shape /\ Strangers
  BY <1>1, <1>2, <1>3, <1>4, SelectServerAssumption DEF Init, Shape, Strangers, Once
<1>7. DroppedOnlyBySelect
  BY <1>1 DEF DroppedOnlyBySelect
<1> QED BY <1>5, <1>6, <1>7 DEF IInv

-----------------------------------------------------------------------------
(* The clients' steps change neither the set nor the vector.                *)
LEMMA ClientSteps ==
  ASSUME IInv, NEW c \in Clients, Connect(c) \/ Send(c) \/ Read(c) \/ Leave(c)
  PROVE  IInv'
<1> USE DEF IInv
<1>1. /\ UNCHANGED <<read_fds, all_cli_sockets, at, unsent, missed>>
      /\ Open' = Open
  BY DEF Connect, Send, Read, Leave, Open, back
<1>2. DroppedOnlyBySelect'
  BY <1>1 DEF DroppedOnlyBySelect
<1>3. CASE Connect(c)
  <2>1. /\ backlog \in Seq(Clients) /\ Len(backlog) \in Nat
        /\ backlog' \in Seq(Clients) /\ Len(backlog') = Len(backlog) + 1
        /\ \A k \in 1 .. Len(backlog) : backlog'[k] = backlog[k]
        /\ backlog'[Len(backlog) + 1] = c
    BY <1>3, AppendProperties, LenProperties DEF Connect, Shape
  <2>2. Range(backlog') \subseteq Clients
    BY <2>1, RangeOfSeq
  <2>3. /\ peer[c] = "none" /\ c \notin Open \cup missed
        /\ \A k \in 1 .. Len(backlog) : backlog[k] # c
    BY <1>3 DEF Connect, Strangers
  <2>4. Once(backlog')
    <3>1. ASSUME NEW j \in 1 .. Len(backlog) + 1, NEW k \in 1 .. Len(backlog) + 1,
                 backlog'[j] = backlog'[k], backlog'[j] # INVALID_SOCKET
          PROVE  j = k
      <4>1. CASE j \in 1 .. Len(backlog) /\ k \in 1 .. Len(backlog)
        BY <2>1, <3>1, <4>1 DEF Shape, Once
      <4>2. CASE j = Len(backlog) + 1 \/ k = Len(backlog) + 1
        BY <2>1, <2>3, <3>1, <4>2
      <4> QED BY <2>1, <4>1, <4>2
    <3> QED BY <2>1, <3>1 DEF Once
  <2>5. Shape'
    <3>1. Once(all_cli_sockets') /\ UNCHANGED sent
      BY <1>1, <1>3 DEF Connect, Shape, Once
    <3> QED BY <1>1, <2>1, <2>4, <3>1 DEF Shape
  <2>6. Strangers'
    <3>1. \A k \in 1 .. Len(backlog') : backlog'[k] \notin Open' \cup missed'
      <4>1. \A k \in 1 .. Len(backlog) + 1 : k \in 1 .. Len(backlog) \/ k = Len(backlog) + 1
        BY <2>1
      <4> QED BY <1>1, <2>1, <2>3, <4>1 DEF Strangers
    <3>2. \A d \in Clients : peer'[d] = "none" => peer[d] = "none" /\ d # c
      BY <1>3 DEF Connect, TypeOK
    <3>3. ASSUME NEW d \in Clients, peer'[d] = "none", NEW k \in 1 .. Len(backlog')
          PROVE  backlog'[k] # d
      <4>1. k \in 1 .. Len(backlog) \/ k = Len(backlog) + 1
        BY <2>1
      <4> QED BY <2>1, <3>2, <3>3, <4>1 DEF Strangers
    <3> QED BY <1>1, <3>1, <3>2, <3>3 DEF Strangers
  <2>7. TypeOK'
    BY <1>1, <1>3, <2>2 DEF Connect, TypeOK, back
  <2> QED BY <1>2, <2>5, <2>6, <2>7
<1>4. CASE Send(c)
  <2>1. inbox[c] \in Seq(Nat \ {0}) /\ sent[c] + 1 \in Nat \ {0} /\ sent \in [Clients -> Nat]
    BY DEF TypeOK, Shape
  <2>2. Append(inbox[c], sent[c] + 1) \in Seq(Nat \ {0}) /\ <<1>> \in Seq(Nat \ {0})
    BY <2>1, AppendProperties
  <2>3. inbox' \in [Clients -> Seq(Nat \ {0})]
    BY <1>4, <2>2 DEF Send, TypeOK
  <2>4. \A d \in Clients : sent'[d] \in 0 .. MaxPieces[d]
    <3> SUFFICES ASSUME NEW d \in Clients PROVE sent'[d] \in 0 .. MaxPieces[d]
      OBVIOUS
    <3>1. MaxPieces[d] \in Nat
      BY SelectServerAssumption
    <3>2. sent[d] \in Nat /\ sent[d] <= MaxPieces[d]
      BY <3>1 DEF TypeOK, Shape
    <3>3. CASE sent[c] < MaxPieces[c] /\ sent' = [sent EXCEPT ![c] = @ + 1]
      <4>1. sent'[d] = IF d = c THEN sent[d] + 1 ELSE sent[d]
        BY <2>1, <3>3
      <4> QED BY <3>1, <3>2, <3>3, <4>1
    <3>4. CASE sent' = [sent EXCEPT ![c] = 1]
      <4>1. sent'[d] = IF d = c THEN 1 ELSE sent[d]
        BY <2>1, <3>4
      <4>2. MaxPieces[c] > 0
        BY <1>4 DEF Send
      <4> QED BY <3>1, <3>2, <4>1, <4>2
    <3> QED BY <1>4, <3>3, <3>4 DEF Send
  <2>5. echoed' \in [Clients -> Seq(Nat)] /\ cut' \subseteq Clients
    <3>1. << >> \in Seq(Nat)
      BY EmptySeq
    <3> QED BY <1>4, <3>1 DEF Send, TypeOK
  <2>6. TypeOK'
    BY <1>1, <1>4, <2>3, <2>4, <2>5 DEF Send, TypeOK
  <2>7. UNCHANGED <<backlog, peer>> /\ sent' \in [Clients -> Nat]
    <3>1. sent[c] + 1 \in Nat /\ sent \in [Clients -> Nat]
      BY DEF Shape
    <3> QED BY <1>4, <3>1 DEF Send
  <2>8. Shape'
    BY <1>1, <2>7 DEF Shape, Once
  <2>9. Strangers'
    BY <1>1, <2>7 DEF Strangers
  <2> QED BY <1>2, <2>6, <2>8, <2>9
<1>5. CASE Leave(c)
  <2>1. << >> \in Seq(Nat \ {0}) /\ 0 \in 0 .. SendRoom
    BY EmptySeq, SelectServerAssumption
  <2>2. TypeOK'
    <3>1. peer' \in [Clients -> {"none", "open", "closed", "aborted"}]
      BY <1>5 DEF Leave, TypeOK
    <3>2. inbox' \in [Clients -> Seq(Nat \ {0})] /\ unread' \in [Clients -> 0 .. SendRoom]
      <4>1. inbox \in [Clients -> Seq(Nat \ {0})] /\ unread \in [Clients -> 0 .. SendRoom]
        BY DEF TypeOK
      <4>2. inbox' = inbox \/ inbox' = [inbox EXCEPT ![c] = << >>]
        BY <1>5 DEF Leave
      <4>3. unread' = unread \/ unread' = [unread EXCEPT ![c] = 0]
        BY <1>5 DEF Leave
      <4>4. inbox' \in [Clients -> Seq(Nat \ {0})]
        BY <2>1, <4>1, <4>2
      <4>5. unread' \in [Clients -> 0 .. SendRoom]
        BY <2>1, <4>1, <4>3
      <4> QED BY <4>4, <4>5
    <3>3. UNCHANGED <<backlog, sent, echoed, cut>>
      BY <1>5 DEF Leave
    <3> QED BY <1>1, <3>1, <3>2, <3>3 DEF TypeOK
  <2>3. UNCHANGED <<backlog, sent>>
    BY <1>5 DEF Leave
  <2>4. \A d \in Clients : peer'[d] = "none" => peer[d] = "none"
    BY <1>5 DEF Leave, TypeOK
  <2>5. Shape'
    BY <1>1, <2>3 DEF Shape, Once
  <2>6. Strangers'
    BY <1>1, <2>3, <2>4 DEF Strangers
  <2> QED BY <1>2, <2>2, <2>5, <2>6
<1>6. CASE Read(c)
  <2>1. UNCHANGED <<net, echoed, cut>>
    BY <1>6 DEF Read
  <2>2. unread' \in [Clients -> 0 .. SendRoom]
    <3>1. unread[c] \in 0 .. SendRoom /\ unread[c] > 0 /\ SendRoom \in Nat
      BY <1>6, SelectServerAssumption DEF Read, TypeOK
    <3>2. unread[c] - 1 \in 0 .. SendRoom
      BY <3>1
    <3> QED BY <1>6, <3>2 DEF Read, TypeOK
  <2>3. TypeOK'
    BY <1>1, <2>1, <2>2 DEF TypeOK, net
  <2>4. Shape' /\ Strangers'
    BY <1>1, <2>1 DEF Shape, Strangers, Once, net
  <2> QED BY <1>2, <2>3, <2>4
<1> QED BY <1>3, <1>4, <1>5, <1>6

(* select drops what it drops by name.                                      *)
LEMMA SelectSteps ==
  ASSUME IInv, SelectFails \/ SelectTimesOut \/ SelectReturns
  PROVE  IInv'
<1> USE DEF IInv
<1>1. /\ UNCHANGED <<all_cli_sockets, net, back>> /\ Open' = Open
      /\ missed' = missed \cup ((read_fds \ read_fds') \cap Clients)
      /\ read_fds' \subseteq read_fds \cup {serv_sock}
      /\ IsFiniteSet(read_fds') /\ Cardinality(read_fds') <= FD_SETSIZE
      /\ at' \in Nat /\ (at' # InSelect => INVALID_SOCKET \notin read_fds')
  <2>1. IsFiniteSet({}) /\ Cardinality({}) = 0
    BY FS_EmptySet
  <2>2. FD_SETSIZE \in Nat /\ serv_sock \notin Clients
    BY SelectServerAssumption
  <2>3. CASE SelectFails
    <3>1. /\ read_fds' \subseteq {serv_sock}
          /\ IsFiniteSet(read_fds') /\ Cardinality(read_fds') <= FD_SETSIZE
      BY <2>1, <2>2, <2>3, FdSet DEF SelectFails
    <3>2. read_fds \cap Clients = (read_fds \ read_fds') \cap Clients
      BY <2>2, <3>1
    <3> QED BY <2>3, <3>1, <3>2 DEF SelectFails, Open, TypeOK
  <2>4. CASE SelectTimesOut
    BY <2>1, <2>2, <2>4 DEF SelectTimesOut, Open, TypeOK
  <2>5. CASE SelectReturns
    BY <2>5, FewerFds DEF SelectReturns, Refused, Open, InSelect
  <2> QED BY <2>3, <2>4, <2>5
<1>2. serv_sock \notin Clients /\ INVALID_SOCKET \notin Clients /\ Open \subseteq Clients
  BY SelectServerAssumption, OpenDef, ElementOfSeq DEF Sockets
<1>3. TypeOK'
  BY <1>1, <1>2 DEF TypeOK, net, back
<1>4. Shape'
  BY <1>1 DEF Shape, net
<1>5. missed' \subseteq missed \cup Open
  BY <1>1, <1>2 DEF TypeOK
<1>6. Strangers'
  BY <1>1, <1>5 DEF Strangers, net
<1>7. DroppedOnlyBySelect'
  BY <1>1, <1>2 DEF DroppedOnlyBySelect
<1> QED BY <1>3, <1>4, <1>6, <1>7

(* The oldest client of the backlog enters the vector, a stranger to it.    *)
LEMMA AcceptStep ==
  ASSUME IInv, Accept
  PROVE  IInv'
<1> USE DEF IInv
<1> DEFINE c == Head(backlog)
           fd == IF peer[c] = "aborted" THEN INVALID_SOCKET ELSE c
           ready == {s \in read_fds : Ready(s)}
<1>1. /\ at = InSelect /\ backlog # << >> /\ backlog' = Tail(backlog)
      /\ read_fds' = FD_SET(fd, ready)
      /\ all_cli_sockets' = Append(all_cli_sockets, fd)
      /\ missed' = missed \cup (((read_fds \cup {fd}) \ read_fds') \cap Clients)
      /\ UNCHANGED <<at, peer, sent, inbox, back>>
  BY DEF Accept
<1>2. /\ Len(backlog) \in Nat \ {0} /\ c \in Clients /\ c = backlog[1]
      /\ backlog' \in Seq(Clients) /\ Len(backlog') = Len(backlog) - 1
      /\ \A k \in 1 .. Len(backlog') : backlog'[k] = backlog[k + 1]
  BY <1>1, EmptySeq, HeadTailProperties DEF Shape
<1>3. ready \in SUBSET read_fds
  OBVIOUS
<1>4. /\ read_fds' \subseteq read_fds \cup {fd}
      /\ IsFiniteSet(read_fds') /\ Cardinality(read_fds') <= FD_SETSIZE
  BY <1>1, <1>3, FewerFds, FdSet
<1>5. INVALID_SOCKET \notin Clients /\ serv_sock \notin Clients /\ fd \in Sockets
  BY <1>2, SelectServerAssumption DEF Sockets
<1>6. c \notin Open \cup missed
  BY <1>2 DEF Strangers
<1> HIDE DEF c, fd, ready
<1>7. /\ all_cli_sockets' \in Seq(Sockets) /\ Len(all_cli_sockets') = Len(all_cli_sockets) + 1
      /\ \A k \in 1 .. Len(all_cli_sockets) : all_cli_sockets'[k] = all_cli_sockets[k]
      /\ all_cli_sockets'[Len(all_cli_sockets) + 1] = fd
      /\ DOMAIN all_cli_sockets' = 1 .. Len(all_cli_sockets')
  BY <1>1, <1>5, OpenDef, AppendProperties, LenProperties
<1>8. Open' = Open \cup ({fd} \ {INVALID_SOCKET})
  <2>1. Range(all_cli_sockets') = Range(all_cli_sockets) \cup {fd}
    BY <1>7, OpenDef DEF Range
  <2> QED BY <2>1 DEF Open
<1>9. fd = INVALID_SOCKET \/ fd = c
  BY DEF fd
<1>10. TypeOK'
  <2>1. Range(backlog') \subseteq Clients
    BY <1>2, RangeOfSeq
  <2>2. missed' \subseteq Clients /\ read_fds' \subseteq Open' \cup {serv_sock, INVALID_SOCKET}
    BY <1>1, <1>4, <1>8 DEF TypeOK
  <2> QED BY <1>1, <1>4, <1>7, <2>1, <2>2 DEF TypeOK, Sockets, back
<1>11. Once(all_cli_sockets')
  <2>1. /\ Len(all_cli_sockets) \in Nat
        /\ \A k \in 1 .. Len(all_cli_sockets) : all_cli_sockets[k] = c => c = INVALID_SOCKET
    BY <1>6, OpenDef
  <2>2. ASSUME NEW j \in 1 .. Len(all_cli_sockets'), NEW k \in 1 .. Len(all_cli_sockets'),
               all_cli_sockets'[j] = all_cli_sockets'[k], all_cli_sockets'[j] # INVALID_SOCKET
        PROVE  j = k
    <3>1. CASE j \in 1 .. Len(all_cli_sockets) /\ k \in 1 .. Len(all_cli_sockets)
      <4>1. all_cli_sockets[j] = all_cli_sockets[k] /\ all_cli_sockets[j] # INVALID_SOCKET
        BY <1>7, <2>2, <3>1
      <4> QED BY <3>1, <4>1 DEF Shape, Once
    <3>2. CASE j = Len(all_cli_sockets) + 1 \/ k = Len(all_cli_sockets) + 1
      BY <1>7, <1>9, <2>1, <2>2, <3>2
    <3> QED BY <1>7, <2>1, <3>1, <3>2
  <2> QED BY <2>2 DEF Once
<1>12. Shape'
  <2>1. Once(backlog')
    <3>1. ASSUME NEW j \in 1 .. Len(backlog'), NEW k \in 1 .. Len(backlog'),
                 backlog'[j] = backlog'[k], backlog'[j] # INVALID_SOCKET
          PROVE  j = k
      <4>1. j + 1 \in 1 .. Len(backlog) /\ k + 1 \in 1 .. Len(backlog)
        BY <1>2
      <4>2. backlog[j + 1] = backlog[k + 1] /\ backlog[j + 1] # INVALID_SOCKET
        BY <1>2, <3>1
      <4>3. j + 1 = k + 1
        BY <4>1, <4>2 DEF Shape, Once
      <4> QED BY <4>3
    <3> QED BY <3>1 DEF Once
  <2> QED BY <1>1, <1>2, <1>4, <1>11, <2>1 DEF Shape
<1>13. missed' \subseteq missed \cup Open \cup {c}
  BY <1>1, <1>5, <1>9 DEF TypeOK
<1>14. Strangers'
  <2>1. \A k \in 1 .. Len(backlog') : backlog'[k] # c
    <3> SUFFICES ASSUME NEW k \in 1 .. Len(backlog'), backlog'[k] = c PROVE FALSE
      OBVIOUS
    <3>1. 1 \in 1 .. Len(backlog) /\ k + 1 \in 1 .. Len(backlog) /\ k + 1 # 1
      BY <1>2
    <3>2. backlog[k + 1] = backlog[1] /\ backlog[1] # INVALID_SOCKET
      BY <1>2, <1>5
    <3> QED BY <3>1, <3>2 DEF Shape, Once
  <2>2. peer[c] # "none"
    BY <1>2 DEF Strangers
  <2> QED BY <1>1, <1>2, <1>8, <1>9, <1>13, <2>1, <2>2 DEF Strangers
<1>15. DroppedOnlyBySelect'
  BY <1>1, <1>4, <1>5, <1>6, <1>8, <1>9 DEF DroppedOnlyBySelect
<1> QED BY <1>10, <1>12, <1>14, <1>15

(* What the loop serves is a client.                                        *)
LEMMA CurrentIsClient ==
  ASSUME IInv, AtSocket
  PROVE  Current \in Clients
<1>1. at \in 1 .. Len(all_cli_sockets) /\ Current \in read_fds /\ at # InSelect
  BY OpenDef DEF AtSocket, IInv
<1>2. all_cli_sockets[at] \in Sockets
  BY <1>1, OpenDef, ElementOfSeq DEF IInv
<1> QED BY <1>1, <1>2 DEF Current, Sockets, Shape, IInv

(* The loop moves on, or sends back what it has read.                       *)
LEMMA LoopSteps ==
  ASSUME IInv, SkipSocket \/ HandleData \/ SendEcho \/ SendFails \/ LoopEnds
  PROVE  IInv'
<1> USE DEF IInv
<1>1. /\ UNCHANGED <<read_fds, all_cli_sockets, backlog, peer, sent, missed>> /\ Open' = Open
      /\ at # InSelect /\ at' \in Nat
  <2>1. at \in Nat /\ at + 1 \in Nat /\ 0 \in Nat
    BY DEF TypeOK
  <2>2. CASE SkipSocket
    BY <2>1, <2>2 DEF SkipSocket, Open, net
  <2>3. CASE HandleData
    BY <2>1, <2>3 DEF HandleData, AtSocket, Open
  <2>4. CASE SendEcho \/ SendFails
    BY <2>1, <2>4 DEF SendEcho, SendFails, Sending, AtSocket, Open, net
  <2>5. CASE LoopEnds
    BY <2>1, <2>5 DEF LoopEnds, InSelect, Open, net
  <2> QED BY <2>2, <2>3, <2>4, <2>5
<1>2. /\ inbox' \in [Clients -> Seq(Nat \ {0})] /\ echoed' \in [Clients -> Seq(Nat)]
      /\ unsent' \in [Clients -> Seq(Nat)] /\ unread' \in [Clients -> 0 .. SendRoom]
      /\ cut' \subseteq Clients
  <2>1. CASE SkipSocket \/ LoopEnds
    BY <2>1 DEF SkipSocket, LoopEnds, net, back, TypeOK
  <2>2. CASE HandleData
    <3> DEFINE c == Current
               n == Min({RecvMax, Len(inbox[c])})
               data == SubSeq(inbox[c], 1, n)
    <3>1. c \in Clients
      BY <2>2, CurrentIsClient DEF HandleData
    <3>2. inbox[c] \in Seq(Nat \ {0}) /\ Len(inbox[c]) \in Nat
      BY <3>1, LenProperties DEF TypeOK
    <3>3. n \in 0 .. Len(inbox[c])
      <4>1. {RecvMax, Len(inbox[c])} \in SUBSET Nat
        BY <3>2, SelectServerAssumption
      <4>2. {RecvMax, Len(inbox[c])} # {} /\ Len(inbox[c]) \in {RecvMax, Len(inbox[c])}
        OBVIOUS
      <4>3. n \in {RecvMax, Len(inbox[c])} /\ n <= Len(inbox[c])
        BY <4>1, <4>2, MinInSet
      <4>4. n \in Nat
        BY <4>1, <4>3
      <4> HIDE DEF n
      <4> QED BY <3>2, <4>3, <4>4
    <3> HIDE DEF n
    <3>4. data \in Seq(Nat \ {0}) /\ SubSeq(inbox[c], n + 1, Len(inbox[c])) \in Seq(Nat \ {0})
      BY <3>2, <3>3, Pieces
    <3>5. Echo(data) \in Seq(Nat)
      BY <3>4, EchoType
    <3>6. /\ inbox' = [inbox EXCEPT ![c] = SubSeq(inbox[c], n + 1, Len(inbox[c]))]
          /\ unsent' = [unsent EXCEPT ![c] = Echo(data)]
          /\ cut' \in {cut, cut \cup {c}} /\ UNCHANGED <<unread, echoed>>
      BY <2>2 DEF HandleData, n
    <3> HIDE DEF c, data
    <3> QED BY <3>1, <3>4, <3>5, <3>6 DEF TypeOK
  <2>3. CASE SendEcho
    <3> DEFINE c == Current
    <3>1. c \in Clients /\ UNCHANGED <<inbox, cut>>
      BY <2>3, CurrentIsClient DEF SendEcho, Sending, net
    <3>2. unsent[c] # << >> /\ unsent[c] \in Seq(Nat) /\ echoed[c] \in Seq(Nat)
      BY <2>3, <3>1 DEF SendEcho, Sending, TypeOK
    <3>3. Head(unsent[c]) \in Nat /\ Tail(unsent[c]) \in Seq(Nat)
      BY <3>2, HeadTailProperties
    <3>4. Append(echoed[c], Head(unsent[c])) \in Seq(Nat)
      BY <3>2, <3>3, AppendProperties
    <3>5. unread[c] + 1 \in 0 .. SendRoom
      <4>1. unread[c] \in 0 .. SendRoom /\ unread[c] < SendRoom /\ SendRoom \in Nat
        BY <2>3, <3>1, SelectServerAssumption DEF SendEcho, TypeOK
      <4> QED BY <4>1
    <3>6. /\ echoed' = [echoed EXCEPT ![c] = Append(echoed[c], Head(unsent[c]))]
          /\ unread' = [unread EXCEPT ![c] = unread[c] + 1]
          /\ unsent' = [unsent EXCEPT ![c] = Tail(unsent[c])]
      BY <2>3 DEF SendEcho
    <3> HIDE DEF c
    <3> QED BY <3>1, <3>3, <3>4, <3>5, <3>6 DEF TypeOK
  <2>4. CASE SendFails
    <3>1. << >> \in Seq(Nat)
      BY EmptySeq
    <3> QED BY <2>4, <3>1 DEF SendFails, net, TypeOK
  <2> QED BY <2>1, <2>2, <2>3, <2>4
<1>3. TypeOK'
  BY <1>1, <1>2 DEF TypeOK
<1>4. Shape' /\ Strangers'
  BY <1>1 DEF Shape, Strangers
<1>5. DroppedOnlyBySelect'
  BY <1>1 DEF DroppedOnlyBySelect
<1> QED BY <1>3, <1>4, <1>5

(* The erased client had this entry alone.                                  *)
LEMMA RecvFailsStep ==
  ASSUME IInv, RecvFails
  PROVE  IInv'
<1> USE DEF IInv
<1> DEFINE s == all_cli_sockets
           t == all_cli_sockets'
<1>1. /\ at \in 1 .. Len(s) /\ Current \in read_fds /\ Current = s[at] /\ at # InSelect
      /\ read_fds' = read_fds \ {Current} /\ t = RemoveAt(s, at) /\ at' = at + 1
      /\ UNCHANGED <<backlog, peer, sent, inbox, back, missed>>
  BY OpenDef DEF RecvFails, AtSocket, Current, net
<1>2. /\ s \in Seq(Sockets) /\ Len(s) \in Nat
      /\ t \in Seq(Sockets) /\ Len(t) = Len(s) - 1
      /\ DOMAIN s = 1 .. Len(s) /\ DOMAIN t = 1 .. Len(t)
      /\ \A k \in 1 .. Len(s) - 1 : t[k] = IF k < at THEN s[k] ELSE s[k + 1]
  BY <1>1, OpenDef, RemoveEntry, LenProperties
<1>3. s[at] # INVALID_SOCKET
  BY <1>1 DEF Shape
<1> HIDE DEF s, t
<1>4. \A j, k \in 1 .. Len(s) : s[j] = s[k] /\ s[j] # INVALID_SOCKET => j = k
  BY DEF Shape, Once, s
<1>5. \A j, k \in 1 .. Len(t) : t[j] = t[k] /\ t[j] # INVALID_SOCKET => j = k
  <2> DEFINE Old(k) == IF k < at THEN k ELSE k + 1
  <2>1. at \in Nat /\ Len(s) \in Nat /\ Len(t) = Len(s) - 1
    BY <1>1, <1>2
  <2>2. ASSUME NEW k \in 1 .. Len(t) PROVE Old(k) \in 1 .. Len(s) /\ t[k] = s[Old(k)]
    BY <1>2, <2>1
  <2>3. ASSUME NEW j \in 1 .. Len(t), NEW k \in 1 .. Len(t), Old(j) = Old(k) PROVE j = k
    BY <2>1, <2>3
  <2> HIDE DEF Old
  <2> QED BY <1>4, <2>2, <2>3
<1>6. Open' = Open \ {s[at]}
  <2>1. \A c : c # INVALID_SOCKET =>
          ((\E k \in 1 .. Len(t) : t[k] = c) <=> c # s[at] /\ \E k \in 1 .. Len(s) : s[k] = c)
    <3> SUFFICES ASSUME NEW c, c # INVALID_SOCKET
                 PROVE (\E k \in 1 .. Len(t) : t[k] = c) <=>
                         c # s[at] /\ \E k \in 1 .. Len(s) : s[k] = c
      OBVIOUS
    <3>1. ASSUME NEW k \in 1 .. Len(t), t[k] = c
          PROVE  c # s[at] /\ \E j \in 1 .. Len(s) : s[j] = c
      <4>1. CASE k < at
        BY <1>1, <1>2, <1>3, <1>4, <3>1, <4>1
      <4>2. CASE k >= at
        <5>1. k + 1 \in 1 .. Len(s) /\ s[k + 1] = c /\ k + 1 # at
          BY <1>1, <1>2, <3>1, <4>2
        <5> QED BY <1>1, <1>3, <1>4, <5>1
      <4> QED BY <1>1, <4>1, <4>2
    <3>2. ASSUME NEW k \in 1 .. Len(s), s[k] = c, c # s[at]
          PROVE  \E j \in 1 .. Len(t) : t[j] = c
      <4>1. CASE k < at
        BY <1>1, <1>2, <3>2, <4>1
      <4>2. CASE k > at
        <5>1. k - 1 \in 1 .. Len(t) /\ t[k - 1] = c
          BY <1>1, <1>2, <3>2, <4>2
        <5> QED BY <5>1
      <4> QED BY <1>1, <3>2, <4>1, <4>2
    <3> QED BY <3>1, <3>2
  <2>2. Open = {s[k] : k \in 1 .. Len(s)} \ {INVALID_SOCKET}
    BY <1>2 DEF Open, Range, s
  <2>3. Open' = {t[k] : k \in 1 .. Len(t)} \ {INVALID_SOCKET}
    BY <1>2 DEF Open, Range, t
  <2> QED BY <2>1, <2>2, <2>3
<1>7. IsFiniteSet(read_fds') /\ Cardinality(read_fds') <= FD_SETSIZE
  BY <1>1, FewerFds
<1>8. TypeOK'
  BY <1>1, <1>2, <1>6, <1>7 DEF TypeOK, Sockets, t, back
<1>9. Shape'
  BY <1>1, <1>5, <1>7 DEF Shape, Once, t
<1>10. Strangers' /\ DroppedOnlyBySelect'
  BY <1>1, <1>6 DEF Strangers, DroppedOnlyBySelect
<1> QED BY <1>8, <1>9, <1>10

-----------------------------------------------------------------------------
(* The inductive invariant of the server.                                   *)
THEOREM SelectInvariance == Spec => []IInv
<1>1. IInv /\ [Next]_vars => IInv'
  <2> SUFFICES ASSUME IInv, [Next]_vars PROVE IInv'
    OBVIOUS
  <2>1. CASE UNCHANGED vars
    BY <2>1 DEF vars, net, back, IInv, TypeOK, Shape, Strangers, DroppedOnlyBySelect, Open, Once
  <2>2. CASE DoLoopIO
    BY <2>2, SelectSteps, AcceptStep, LoopSteps, RecvFailsStep DEF DoLoopIO
  <2>3. CASE \E c \in Clients : Connect(c) \/ Send(c) \/ Read(c) \/ Leave(c)
    BY <2>3, ClientSteps
  <2> QED BY <2>1, <2>2, <2>3 DEF Next
<1> QED BY InitIInv, <1>1, PTL DEF Spec

(* Every variable keeps its type; the set never outgrows FD_SETSIZE.        *)
THEOREM SelectTypeCorrect == Spec => []TypeOK
<1>1. IInv => TypeOK
  BY DEF IInv
<1> QED BY SelectInvariance, <1>1, PTL

(* The loop loses no client, whatever it erases while it iterates: those    *)
(* that are connected and not watched were dropped by a select.             *)
THEOREM SelectDropsOnly == Spec => []DroppedOnlyBySelect
<1>1. IInv => DroppedOnlyBySelect
  BY DEF IInv
<1> QED BY SelectInvariance, <1>1, PTL

-----------------------------------------------------------------------------
(* What is echoed.  The pieces a client has in its inbox follow those that  *)
(* were read; what was sent back, and what send has still to pass on, came  *)
(* from the latter.                                                         *)
Taken(c) == sent[c] - Len(inbox[c])
Answered(c) == echoed[c] \o unsent[c]

InboxOrder(c) ==
  /\ Len(inbox[c]) <= sent[c]
  /\ \A k \in 1 .. Len(inbox[c]) : inbox[c][k] = Taken(c) + k

Increasing(c) ==
  \A j, k \in 1 .. Len(Answered(c)) :
    j < k /\ Answered(c)[j] # Garbage /\ Answered(c)[k] # Garbage => Answered(c)[j] < Answered(c)[k]

OnlyTaken(c) == \A k \in 1 .. Len(Answered(c)) : Answered(c)[k] <= Taken(c)

Whole(c) ==
  c \notin cut /\ peer[c] # "aborted" =>
    Len(Answered(c)) = Taken(c) /\ \A k \in 1 .. Len(Answered(c)) : Answered(c)[k] = k

BehindFull(c) ==
  \A k \in 1 .. Len(Answered(c)) : Answered(c)[k] = Garbage =>
    k > RecvMax /\ \A j \in k - RecvMax .. k - 1 : Answered(c)[j] # Garbage

EchoInv ==
  \A c \in Clients :
    InboxOrder(c) /\ Increasing(c) /\ OnlyTaken(c) /\ Whole(c) /\ BehindFull(c)

(* An echo is the data it answers, or its beginning, or all of a full       *)
(* buffer and one byte of garbage.                                          *)
LEMMA EchoEffect ==
  ASSUME NEW data \in Seq(Nat \ {0}), Len(data) <= RecvMax,
         NEW base \in Nat, \A k \in 1 .. Len(data) : data[k] = base + k
  PROVE  /\ Echo(data) \in Seq(Nat) /\ Len(Echo(data)) \in Nat
         /\ \A k \in 1 .. Len(Echo(data)) :
              \/ k <= Len(data) /\ Echo(data)[k] = base + k
              \/ k = RecvMax + 1 /\ Len(data) = RecvMax /\ Echo(data)[k] = Garbage
<1> DEFINE zero == {k \in DOMAIN data : data[k] \in HasZero}
<1>1. /\ Len(data) \in Nat /\ DOMAIN data = 1 .. Len(data) /\ data \in Seq(Nat) /\ RecvMax \in Nat
      /\ \A k \in 1 .. Len(data) : data[k] \in Nat
  BY LenProperties, SeqMonotonic, SelectServerAssumption, ElementOfSeq
<1>2. Echo(data) \in Seq(Nat) /\ Len(Echo(data)) \in Nat
  BY EchoType, LenProperties
<1>3. CASE zero # {}
  <2>1. zero \in SUBSET Nat
    BY <1>1
  <2> HIDE DEF zero
  <2>2. Min(zero) \in zero
    BY <1>3, <2>1, MinInSet
  <2>3. Min(zero) \in 1 .. Len(data)
    BY <1>1, <2>2 DEF zero
  <2> DEFINE m == Min(zero) - 1
  <2>4. m \in Nat /\ m <= Len(data)
    BY <1>1, <2>3
  <2>5. Echo(data) = SubSeq(data, 1, m)
    BY <1>3 DEF Echo, zero
  <2> HIDE DEF m
  <2>6. \A k \in 1 .. m : data[k] \in Nat
    BY <1>1, <2>4
  <2>7. /\ Len(SubSeq(data, 1, m)) = IF 1 <= m THEN m - 1 + 1 ELSE 0
        /\ \A k \in 1 .. m - 1 + 1 : SubSeq(data, 1, m)[k] = data[1 + k - 1]
    BY <2>4, <2>6, SubSeqProperties
  <2>8. Len(Echo(data)) = m /\ \A k \in 1 .. m : Echo(data)[k] = data[k]
    BY <2>4, <2>5, <2>7
  <2>9. ASSUME NEW k \in 1 .. Len(Echo(data)) PROVE k <= Len(data) /\ Echo(data)[k] = base + k
    <3>1. k \in 1 .. m /\ k \in 1 .. Len(data)
      BY <1>1, <2>4, <2>8
    <3>2. data[k] = base + k
      BY <3>1
    <3> QED BY <1>1, <2>8, <3>1, <3>2
  <2> QED BY <1>2, <2>9
<1>4. CASE zero = {} /\ Len(data) = RecvMax
  <2>1. Echo(data) = Append(data, Garbage) /\ Garbage \in Nat
    BY <1>4 DEF Echo, Garbage
  <2>2. /\ Len(Echo(data)) = Len(data) + 1
        /\ \A k \in 1 .. Len(data) : Echo(data)[k] = data[k]
        /\ Echo(data)[Len(data) + 1] = Garbage
    BY <1>1, <2>1, AppendProperties
  <2> QED BY <1>1, <1>2, <1>4, <2>2
<1>5. CASE zero = {} /\ Len(data) # RecvMax
  <2>1. Echo(data) = data
    BY <1>5 DEF Echo
  <2>2. ASSUME NEW k \in 1 .. Len(data) PROVE k <= Len(data) /\ data[k] = base + k
    BY <1>1
  <2> QED BY <1>2, <2>1, <2>2
<1> QED BY <1>3, <1>4, <1>5

Streams(c) == InboxOrder(c) /\ Increasing(c) /\ OnlyTaken(c) /\ Whole(c) /\ BehindFull(c)

LEMMA StreamTypes ==
  ASSUME IInv, NEW c \in Clients
  PROVE  /\ sent[c] \in Nat /\ RecvMax \in Nat /\ RecvMax >= 1
         /\ inbox[c] \in Seq(Nat \ {0}) /\ Len(inbox[c]) \in Nat
         /\ DOMAIN inbox[c] = 1 .. Len(inbox[c])
         /\ Taken(c) \in Int
BY LenProperties, SelectServerAssumption DEF IInv, TypeOK, Shape, Taken

LEMMA AnsweredTypes ==
  ASSUME IInv, NEW c \in Clients
  PROVE  /\ echoed[c] \in Seq(Nat) /\ unsent[c] \in Seq(Nat)
         /\ Len(echoed[c]) \in Nat /\ DOMAIN echoed[c] = 1 .. Len(echoed[c])
         /\ Answered(c) \in Seq(Nat) /\ Len(Answered(c)) \in Nat
         /\ Len(echoed[c]) <= Len(Answered(c))
         /\ \A k \in 1 .. Len(Answered(c)) : Answered(c)[k] \in Nat
         /\ \A k \in 1 .. Len(echoed[c]) : Answered(c)[k] = echoed[c][k]
<1>1. echoed[c] \in Seq(Nat) /\ unsent[c] \in Seq(Nat)
  BY DEF IInv, TypeOK
<1>2. /\ Len(echoed[c]) \in Nat /\ Len(unsent[c]) \in Nat
      /\ DOMAIN echoed[c] = 1 .. Len(echoed[c])
  BY <1>1, LenProperties
<1>3. /\ Answered(c) \in Seq(Nat) /\ Len(Answered(c)) = Len(echoed[c]) + Len(unsent[c])
      /\ \A k \in 1 .. Len(echoed[c]) + Len(unsent[c]) :
           Answered(c)[k] = IF k <= Len(echoed[c]) THEN echoed[c][k] ELSE unsent[c][k - Len(echoed[c])]
  BY <1>1, ConcatProperties DEF Answered
<1>4. \A k \in 1 .. Len(Answered(c)) : Answered(c)[k] \in Nat
  BY <1>3, ElementOfSeq
<1> DEFINE m == Len(echoed[c])
           n == Len(unsent[c])
<1>5. m \in Nat /\ n \in Nat /\ Len(Answered(c)) = m + n
  BY <1>2, <1>3
<1>6. \A k \in 1 .. m + n : k <= m => Answered(c)[k] = echoed[c][k]
  BY <1>3
<1> HIDE DEF m, n
<1>7. m + n \in Nat /\ m <= m + n /\ \A k \in 1 .. m : k \in 1 .. m + n /\ k <= m
  BY <1>5
<1>8. /\ Len(Answered(c)) \in Nat /\ m <= Len(Answered(c))
      /\ \A k \in 1 .. m : Answered(c)[k] = echoed[c][k]
  BY <1>5, <1>6, <1>7
<1> QED BY <1>1, <1>2, <1>3, <1>4, <1>8 DEF m

(* A step that leaves the bytes of a client alone, or hands one on.         *)
LEMMA StreamKept ==
  ASSUME NEW c, Streams(c), sent'[c] = sent[c], inbox'[c] = inbox[c],
         Answered(c)' = Answered(c),
         c \in cut' <=> c \in cut, peer'[c] # "aborted" => peer[c] # "aborted"
  PROVE  Streams(c)'
<1>1. Taken(c)' = Taken(c)
  BY DEF Taken
<1>2. InboxOrder(c)' /\ Increasing(c)' /\ OnlyTaken(c)'
  BY <1>1 DEF Streams, InboxOrder, Increasing, OnlyTaken
<1>3. Whole(c)' /\ BehindFull(c)'
  BY <1>1 DEF Streams, Whole, BehindFull
<1> QED BY <1>2, <1>3 DEF Streams

(* send passes one piece on.                                                *)
LEMMA StreamEcho ==
  ASSUME IInv, NEW c \in Clients, Streams(c), SendEcho, c = Current
  PROVE  Streams(c)'
<1> DEFINE e == echoed[c]
           u == unsent[c]
<1>1. e \in Seq(Nat) /\ u \in Seq(Nat) /\ u # << >>
  BY AnsweredTypes DEF SendEcho, Sending
<1>2. /\ echoed'[c] = Append(e, Head(u)) /\ unsent'[c] = Tail(u)
      /\ UNCHANGED <<sent, inbox, cut, peer>>
  BY DEF SendEcho, net, IInv, TypeOK
<1> HIDE DEF e, u
<1>3. Append(e, Head(u)) \o Tail(u) = e \o u
  <2>1. /\ Head(u) \in Nat /\ Tail(u) \in Seq(Nat) /\ Len(u) \in Nat \ {0}
        /\ Len(Tail(u)) = Len(u) - 1 /\ Head(u) = u[1]
        /\ \A k \in 1 .. Len(u) - 1 : Tail(u)[k] = u[k + 1]
    BY <1>1, HeadTailProperties, LenProperties
  <2>2. /\ Append(e, Head(u)) \in Seq(Nat) /\ Len(Append(e, Head(u))) = Len(e) + 1 /\ Len(e) \in Nat
        /\ \A k \in 1 .. Len(e) : Append(e, Head(u))[k] = e[k]
        /\ Append(e, Head(u))[Len(e) + 1] = u[1]
    BY <1>1, <2>1, AppendProperties, LenProperties
  <2> DEFINE a == Append(e, Head(u))
             w == Tail(u)
  <2>3. a \in Seq(Nat) /\ w \in Seq(Nat)
    BY <2>1, <2>2
  <2> HIDE DEF a, w
  <2>4. /\ a \o w \in Seq(Nat) /\ Len(a \o w) = Len(a) + Len(w)
        /\ \A k \in 1 .. Len(a) + Len(w) : (a \o w)[k] = IF k <= Len(a) THEN a[k] ELSE w[k - Len(a)]
    BY <2>3, ConcatProperties
  <2>5. /\ e \o u \in Seq(Nat) /\ Len(e \o u) = Len(e) + Len(u)
        /\ \A k \in 1 .. Len(e) + Len(u) : (e \o u)[k] = IF k <= Len(e) THEN e[k] ELSE u[k - Len(e)]
    BY <1>1, ConcatProperties
  <2>6. Len(a) = Len(e) + 1 /\ Len(w) = Len(u) - 1
    BY <2>1, <2>2 DEF a, w
  <2>7. Len(a \o w) = Len(e \o u)
    BY <2>1, <2>2, <2>4, <2>5, <2>6
  <2>8. ASSUME NEW k \in 1 .. Len(e) + Len(u) PROVE (a \o w)[k] = (e \o u)[k]
    <3>1. CASE k <= Len(e)
      <4>1. k \in 1 .. Len(e) /\ k <= Len(a) /\ k \in 1 .. Len(a) + Len(w)
        BY <2>1, <2>2, <2>6, <3>1
      <4>2. a[k] = e[k]
        BY <2>2, <4>1 DEF a
      <4> QED BY <2>4, <2>5, <3>1, <4>1, <4>2
    <3>2. CASE k = Len(e) + 1
      <4>1. k <= Len(a) /\ k \in 1 .. Len(a) + Len(w) /\ ~(k <= Len(e)) /\ k - Len(e) = 1
        BY <2>1, <2>2, <2>6, <3>2
      <4>2. a[k] = u[1]
        BY <2>2, <3>2 DEF a
      <4> QED BY <2>4, <2>5, <4>1, <4>2
    <3>3. CASE k > Len(e) + 1
      <4>1. /\ ~(k <= Len(a)) /\ k \in 1 .. Len(a) + Len(w) /\ ~(k <= Len(e))
            /\ k - Len(a) \in 1 .. Len(u) - 1 /\ k - Len(a) + 1 = k - Len(e)
        <5> DEFINE x == Len(e)
                   y == Len(u)
        <5>1. /\ x \in Nat /\ y \in Nat \ {0} /\ k \in 1 .. x + y /\ k > x + 1
              /\ Len(a) = x + 1 /\ Len(w) = y - 1
          BY <2>1, <2>2, <2>6, <3>3
        <5> HIDE DEF x, y
        <5>2. /\ ~(k <= x + 1) /\ k \in 1 .. (x + 1) + (y - 1) /\ ~(k <= x)
              /\ k - (x + 1) \in 1 .. y - 1 /\ k - (x + 1) + 1 = k - x
          BY <5>1
        <5> QED BY <5>1, <5>2 DEF x, y
      <4>2. w[k - Len(a)] = u[k - Len(a) + 1]
        BY <2>1, <4>1 DEF w
      <4>3. (a \o w)[k] = w[k - Len(a)] /\ (e \o u)[k] = u[k - Len(e)]
        <5>1. \A i \in 1 .. Len(a) + Len(w) : ~(i <= Len(a)) => (a \o w)[i] = w[i - Len(a)]
          BY <2>4
        <5>2. \A i \in 1 .. Len(e) + Len(u) : ~(i <= Len(e)) => (e \o u)[i] = u[i - Len(e)]
          BY <2>5
        <5> QED BY <4>1, <5>1, <5>2, Zenon
      <4> QED BY <4>1, <4>2, <4>3, Zenon
    <3>4. k <= Len(e) \/ k = Len(e) + 1 \/ k > Len(e) + 1
      <4>1. Len(e) \in Nat /\ Len(u) \in Nat
        BY <2>1, <2>2
      <4>2. k \in Int
        BY <4>1
      <4> QED BY <4>1, <4>2
    <3> QED BY <3>1, <3>2, <3>3, <3>4
  <2>9. a \o w = e \o u
    <3>1. Len(e \o u) = Len(e) + Len(u)
      BY <2>5
    <3> QED BY <2>4, <2>5, <2>7, <2>8, <3>1, SeqEqual
  <2> QED BY <2>9 DEF a, w
<1>4. Answered(c)' = Answered(c)
  BY <1>2, <1>3 DEF Answered, e, u
<1> QED BY <1>2, <1>4, StreamKept

(* send fails: what it had not passed on is lost, with the connection.      *)
LEMMA StreamFails ==
  ASSUME IInv, NEW c \in Clients, Streams(c), SendFails, c = Current
  PROVE  Streams(c)'
<1> DEFINE n == Len(echoed[c])
<1>1. /\ peer'[c] = "aborted" /\ UNCHANGED <<sent, inbox, echoed>>
      /\ unsent'[c] = << >>
  BY DEF SendFails, Sending, net, IInv, TypeOK
<1>2. Answered(c)' = echoed[c]
  <2>1. echoed[c] \in Seq(Nat)
    BY AnsweredTypes
  <2> QED BY <1>1, <2>1, ConcatEmptySeq DEF Answered
<1>3. /\ n \in Nat /\ n <= Len(Answered(c)) /\ Len(Answered(c)) \in Nat
      /\ \A k \in 1 .. n : Answered(c)[k] = echoed[c][k]
  BY AnsweredTypes
<1>4. \A k \in 1 .. n : k \in 1 .. Len(Answered(c)) /\ Answered(c)'[k] = Answered(c)[k]
  BY <1>2, <1>3
<1>5. Len(Answered(c)') = n /\ Taken(c)' = Taken(c)
  BY <1>1, <1>2 DEF Taken
<1> HIDE DEF n
<1>6. InboxOrder(c)' /\ Whole(c)'
  BY <1>1, <1>5 DEF Streams, InboxOrder, Whole
<1>7. Increasing(c)' /\ OnlyTaken(c)'
  BY <1>4, <1>5 DEF Streams, Increasing, OnlyTaken
<1>8. BehindFull(c)'
  <2> SUFFICES ASSUME NEW k \in 1 .. n, Answered(c)'[k] = Garbage
               PROVE  k > RecvMax /\ \A j \in k - RecvMax .. k - 1 : Answered(c)'[j] # Garbage
    BY <1>5 DEF BehindFull
  <2>1. k > RecvMax /\ \A j \in k - RecvMax .. k - 1 : Answered(c)[j] # Garbage
    BY <1>4 DEF Streams, BehindFull
  <2>2. \A j \in k - RecvMax .. k - 1 : j \in 1 .. n
    BY <1>3, <2>1, SelectServerAssumption
  <2> QED BY <1>4, <2>1, <2>2
<1> QED BY <1>6, <1>7, <1>8 DEF Streams

LEMMA StreamSend ==
  ASSUME IInv, NEW c \in Clients, Streams(c), Send(c)
  PROVE  Streams(c)'
<1>1. /\ sent[c] \in Nat /\ inbox[c] \in Seq(Nat \ {0}) /\ Len(inbox[c]) \in Nat
      /\ sent[c] + 1 \in Nat \ {0}
  BY StreamTypes
<1>2. CASE sent[c] < MaxPieces[c] /\ sent' = [sent EXCEPT ![c] = @ + 1]
            /\ inbox' = [inbox EXCEPT ![c] = Append(@, sent[c] + 1)] /\ UNCHANGED <<echoed, cut>>
  <2>1. /\ sent'[c] = sent[c] + 1 /\ inbox'[c] = Append(inbox[c], sent[c] + 1)
        /\ UNCHANGED <<echoed, unsent, cut, peer>>
    BY <1>2 DEF Send, IInv, TypeOK, Shape
  <2>2. /\ Len(inbox'[c]) = Len(inbox[c]) + 1
        /\ \A k \in 1 .. Len(inbox[c]) : inbox'[c][k] = inbox[c][k]
        /\ inbox'[c][Len(inbox[c]) + 1] = sent[c] + 1
    <3> DEFINE q == inbox[c]
               e == sent[c] + 1
    <3>1. q \in Seq(Nat \ {0}) /\ e \in Nat \ {0}
      BY <1>1
    <3>2. inbox'[c] = Append(q, e)
      BY <2>1
    <3> HIDE DEF q, e
    <3>3. /\ Len(Append(q, e)) = Len(q) + 1 /\ \A k \in 1 .. Len(q) : Append(q, e)[k] = q[k]
          /\ Append(q, e)[Len(q) + 1] = e
      BY <3>1, AppendProperties
    <3>4. /\ Len(inbox'[c]) = Len(q) + 1 /\ \A k \in 1 .. Len(q) : inbox'[c][k] = q[k]
          /\ inbox'[c][Len(q) + 1] = e
      BY <3>2, <3>3
    <3> QED BY <3>4 DEF q, e
  <2>3. Taken(c)' = Taken(c)
    <3> DEFINE x == Len(inbox[c])
               y == sent[c]
    <3>1. x \in Nat /\ y \in Nat /\ Taken(c) = y - x /\ Taken(c)' = (y + 1) - (x + 1)
      BY <1>1, <2>1, <2>2 DEF Taken
    <3> HIDE DEF x, y
    <3> QED BY <3>1
  <2>4. InboxOrder(c)'
    <3>1. ASSUME NEW k \in 1 .. Len(inbox[c]) + 1 PROVE inbox'[c][k] = Taken(c) + k
      <4>1. CASE k \in 1 .. Len(inbox[c])
        BY <2>2, <4>1 DEF Streams, InboxOrder
      <4>2. CASE k = Len(inbox[c]) + 1
        BY <1>1, <2>2, <4>2 DEF Taken
      <4> QED BY <1>1, <4>1, <4>2
    <3>2. Len(inbox[c]) <= sent[c]
      BY DEF Streams, InboxOrder
    <3>3. Len(inbox'[c]) <= sent'[c]
      BY <1>1, <2>1, <2>2, <3>2
    <3> QED BY <2>2, <2>3, <3>1, <3>3 DEF InboxOrder
  <2>5. Answered(c)' = Answered(c)
    BY <2>1 DEF Answered
  <2>6. Increasing(c)' /\ OnlyTaken(c)' /\ Whole(c)' /\ BehindFull(c)'
    BY <2>1, <2>3, <2>5 DEF Streams, Increasing, OnlyTaken, Whole, BehindFull
  <2> QED BY <2>4, <2>6 DEF Streams
<1>3. CASE /\ unsent[c] = << >> /\ sent' = [sent EXCEPT ![c] = 1]
           /\ inbox' = [inbox EXCEPT ![c] = <<1>>] /\ echoed' = [echoed EXCEPT ![c] = << >>]
  <2>1. /\ sent'[c] = 1 /\ inbox'[c] = <<1>> /\ echoed'[c] = << >> /\ unsent'[c] = << >>
    BY <1>3 DEF Send, IInv, TypeOK, Shape
  <2>2. Answered(c)' = << >> /\ Len(Answered(c)') = 0 /\ Taken(c)' = 0
    <3>1. << >> \o << >> = << >>
      BY EmptySeq, ConcatEmptySeq
    <3>2. Len(inbox'[c]) = 1
      BY <2>1
    <3> QED BY <2>1, <3>1, <3>2, EmptySeq DEF Answered, Taken
  <2>3. InboxOrder(c)'
    <3>1. Len(inbox'[c]) = 1 /\ inbox'[c][1] = 1
      BY <2>1
    <3> QED BY <2>1, <2>2, <3>1 DEF InboxOrder
  <2>4. Increasing(c)' /\ OnlyTaken(c)' /\ Whole(c)' /\ BehindFull(c)'
    BY <2>2 DEF Increasing, OnlyTaken, Whole, BehindFull
  <2> QED BY <2>3, <2>4 DEF Streams
<1> QED BY <1>2, <1>3 DEF Send

LEMMA StreamLeave ==
  ASSUME IInv, NEW c \in Clients, Streams(c), Leave(c)
  PROVE  Streams(c)'
<1>1. /\ sent[c] \in Nat /\ Len(inbox[c]) \in Nat /\ UNCHANGED <<sent, echoed, unsent, cut>>
      /\ Answered(c)' = Answered(c)
  BY StreamTypes DEF Leave, Answered
<1>2. CASE peer' = [peer EXCEPT ![c] = "closed"] /\ peer[c] = "open" /\ UNCHANGED inbox
  BY <1>1, <1>2, StreamKept
<1>3. CASE peer' = [peer EXCEPT ![c] = "aborted"] /\ inbox' = [inbox EXCEPT ![c] = << >>]
  <2>1. peer'[c] = "aborted" /\ inbox'[c] = << >> /\ Len(inbox'[c]) = 0
    BY <1>3, EmptySeq DEF IInv, TypeOK
  <2>2. Taken(c)' = sent[c] /\ Taken(c) <= sent[c]
    BY <1>1, <2>1 DEF Taken
  <2>3. InboxOrder(c)' /\ Whole(c)'
    BY <1>1, <2>1 DEF InboxOrder, Whole
  <2>4. OnlyTaken(c)'
    <3>1. ASSUME NEW k \in 1 .. Len(Answered(c)) PROVE Answered(c)[k] <= sent[c]
      <4>1. Answered(c)[k] \in Nat /\ Taken(c) \in Int
        BY StreamTypes, AnsweredTypes
      <4>2. Answered(c)[k] <= Taken(c)
        BY DEF Streams, OnlyTaken
      <4> QED BY <1>1, <2>2, <4>1, <4>2
    <3> QED BY <1>1, <2>2, <3>1 DEF OnlyTaken
  <2>5. Increasing(c)' /\ BehindFull(c)'
    BY <1>1 DEF Streams, Increasing, BehindFull
  <2> QED BY <2>3, <2>4, <2>5 DEF Streams
<1> QED BY <1>2, <1>3 DEF Leave

(* The loop reads the oldest pieces of a client and answers them.           *)
LEMMA StreamHandle ==
  ASSUME IInv, NEW c \in Clients, Streams(c), HandleData, c = Current
  PROVE  Streams(c)'
<1> DEFINE n == Min({RecvMax, Len(inbox[c])})
           data == SubSeq(inbox[c], 1, n)
           rest == SubSeq(inbox[c], n + 1, Len(inbox[c]))
           e == Echo(data)
           m == Len(Answered(c))
           base == Taken(c)
<1>1. /\ sent[c] \in Nat /\ RecvMax \in Nat /\ RecvMax >= 1
      /\ inbox[c] \in Seq(Nat \ {0}) /\ Len(inbox[c]) \in Nat
      /\ Answered(c) \in Seq(Nat) /\ m \in Nat
      /\ \A k \in 1 .. m : Answered(c)[k] \in Nat
  BY StreamTypes, AnsweredTypes
<1>2. base \in Nat /\ base + Len(inbox[c]) = sent[c]
  BY <1>1 DEF Streams, InboxOrder, Taken
<1>3. n \in Nat /\ n <= Len(inbox[c]) /\ n <= RecvMax
  <2>1. {RecvMax, Len(inbox[c])} \in SUBSET Nat /\ {RecvMax, Len(inbox[c])} # {}
    BY <1>1
  <2>2. n \in {RecvMax, Len(inbox[c])} /\ \A x \in {RecvMax, Len(inbox[c])} : n <= x
    BY <2>1, MinInSet
  <2> HIDE DEF n
  <2> QED BY <1>1, <2>2
<1>4. /\ sent' = sent /\ peer' = peer
      /\ inbox'[c] = rest /\ Answered(c)' = Answered(c) \o e
      /\ cut' = IF e = data THEN cut ELSE cut \cup {c}
  <2>1. /\ sent' = sent /\ peer' = peer
        /\ inbox'[c] = rest /\ echoed'[c] = echoed[c] /\ unsent'[c] = e /\ unsent[c] = << >>
        /\ cut' = IF e = data THEN cut ELSE cut \cup {c}
    BY DEF HandleData, IInv, TypeOK
  <2>2. Answered(c) = echoed[c] /\ Answered(c)' = echoed[c] \o e
    <3>1. echoed[c] \in Seq(Nat)
      BY AnsweredTypes
    <3> HIDE DEF e
    <3> QED BY <2>1, <3>1, ConcatEmptySeq DEF Answered
  <2> QED BY <2>1, <2>2
<1> HIDE DEF n
<1>5. /\ data \in Seq(Nat \ {0}) /\ Len(data) = n
      /\ \A k \in 1 .. n : data[k] = base + k
  <2>1. \A k \in 1 .. Len(inbox[c]) : inbox[c][k] \in Nat \ {0}
    BY <1>1, ElementOfSeq
  <2>2. \A k \in 1 .. n : inbox[c][k] \in Nat \ {0}
    BY <1>1, <1>3, <2>1
  <2>3. /\ data \in Seq(Nat \ {0}) /\ Len(data) = IF 1 <= n THEN n - 1 + 1 ELSE 0
        /\ \A k \in 1 .. n - 1 + 1 : data[k] = inbox[c][1 + k - 1]
    BY <1>3, <2>2, SubSeqProperties
  <2> HIDE DEF data
  <2>4. Len(data) = n
    BY <1>3, <2>3
  <2>5. ASSUME NEW k \in 1 .. n PROVE data[k] = base + k
    <3>1. data[k] = inbox[c][k] /\ k \in 1 .. Len(inbox[c])
      BY <1>1, <1>3, <2>3
    <3> QED BY <3>1 DEF Streams, InboxOrder
  <2> QED BY <2>3, <2>4, <2>5
<1>6. /\ rest \in Seq(Nat \ {0}) /\ Len(rest) = Len(inbox[c]) - n
      /\ \A k \in 1 .. Len(inbox[c]) - n : rest[k] = base + n + k
  <2>1. \A k \in n + 1 .. Len(inbox[c]) : inbox[c][k] \in Nat \ {0}
    <3>1. \A k \in n + 1 .. Len(inbox[c]) : k \in 1 .. Len(inbox[c])
      BY <1>1, <1>3
    <3> QED BY <1>1, <3>1, ElementOfSeq
  <2>2. /\ rest \in Seq(Nat \ {0})
        /\ Len(rest) = IF n + 1 <= Len(inbox[c]) THEN Len(inbox[c]) - (n + 1) + 1 ELSE 0
        /\ \A k \in 1 .. Len(inbox[c]) - (n + 1) + 1 : rest[k] = inbox[c][n + 1 + k - 1]
    BY <1>1, <1>3, <2>1, SubSeqProperties
  <2> HIDE DEF rest
  <2>3. Len(rest) = Len(inbox[c]) - n
    BY <1>1, <1>3, <2>2
  <2>4. ASSUME NEW k \in 1 .. Len(inbox[c]) - n PROVE rest[k] = base + n + k
    <3>1. rest[k] = inbox[c][n + k] /\ n + k \in 1 .. Len(inbox[c])
      <4> DEFINE x == Len(inbox[c])
      <4>1. x \in Nat /\ n \in Nat /\ n <= x /\ k \in 1 .. x - n
        BY <1>1, <1>3
      <4>2. \A i \in 1 .. x - (n + 1) + 1 : rest[i] = inbox[c][n + 1 + i - 1]
        BY <2>2
      <4> HIDE DEF x
      <4>3. k \in 1 .. x - (n + 1) + 1 /\ n + k \in 1 .. x /\ n + 1 + k - 1 = n + k
        BY <4>1
      <4>4. rest[k] = inbox[c][n + k]
        BY <4>2, <4>3
      <4> QED BY <4>3, <4>4 DEF x
    <3>2. inbox[c][n + k] = base + (n + k)
      BY <3>1 DEF Streams, InboxOrder
    <3> QED BY <1>2, <1>3, <3>1, <3>2
  <2> QED BY <2>2, <2>3, <2>4
<1> HIDE DEF data, rest
<1>7. /\ e \in Seq(Nat) /\ Len(e) \in Nat
      /\ \A k \in 1 .. Len(e) :
           \/ k <= n /\ e[k] = base + k
           \/ k = RecvMax + 1 /\ n = RecvMax /\ e[k] = Garbage
  BY <1>2, <1>3, <1>5, EchoEffect
<1> HIDE DEF e
<1>8. /\ Len(Answered(c)') = m + Len(e)
      /\ \A k \in 1 .. m : Answered(c)'[k] = Answered(c)[k]
      /\ \A k \in m + 1 .. m + Len(e) : Answered(c)'[k] = e[k - m]
  <2>1. /\ Len(Answered(c) \o e) = m + Len(e)
        /\ \A k \in 1 .. m + Len(e) : (Answered(c) \o e)[k] = IF k <= m THEN Answered(c)[k] ELSE e[k - m]
    BY <1>1, <1>7, ConcatProperties
  <2> QED BY <1>1, <1>4, <1>7, <2>1
<1>9. Taken(c)' = base + n
  <2>1. Taken(c)' = sent[c] - (Len(inbox[c]) - n)
    BY <1>4, <1>6 DEF Taken
  <2> QED BY <1>1, <1>2, <1>3, <2>1
<1>10. InboxOrder(c)'
  <2>1. Len(inbox[c]) - n <= sent[c]
    BY <1>1, <1>2, <1>3
  <2> QED BY <1>4, <1>6, <1>9, <2>1 DEF InboxOrder
<1> HIDE DEF m, base
(* What the new entries are.                                                *)
<1>11. ASSUME NEW k \in 1 .. m + Len(e), k > m
       PROVE  \/ Answered(c)'[k] = base + (k - m) /\ k - m <= n
              \/ /\ Answered(c)'[k] = Garbage /\ k = m + RecvMax + 1 /\ n = RecvMax
  <2>1. k \in m + 1 .. m + Len(e) /\ k - m \in 1 .. Len(e)
    BY <1>1, <1>7, <1>11
  <2>2. Answered(c)'[k] = e[k - m]
    BY <1>8, <2>1
  <2>3. k - m = RecvMax + 1 => k = m + RecvMax + 1
    <3>1. k \in Nat /\ m \in Nat /\ RecvMax \in Nat
      BY <1>1, <1>7
    <3> QED BY <3>1
  <2> QED BY <1>7, <2>1, <2>2, <2>3
<1>12. ASSUME NEW k \in 1 .. m PROVE Answered(c)[k] <= base /\ Answered(c)[k] \in Nat
  BY <1>1, <1>12 DEF Streams, OnlyTaken, m, base
<1>13. OnlyTaken(c)'
  <2>1. ASSUME NEW k \in 1 .. m + Len(e) PROVE Answered(c)'[k] <= base + n
    <3>1. CASE k <= m
      <4>1. k \in 1 .. m
        BY <1>1, <1>7, <3>1
      <4> QED BY <1>2, <1>3, <1>8, <1>12, <4>1
    <3>2. CASE k > m
      <4>1. k \in Nat /\ m \in Nat /\ base \in Nat /\ n \in Nat
        BY <1>1, <1>2, <1>3, <1>7
      <4>2. \/ Answered(c)'[k] = base + (k - m) /\ k - m <= n
            \/ Answered(c)'[k] = 0
        BY <1>11, <3>2 DEF Garbage
      <4> QED BY <4>1, <4>2
    <3> QED BY <1>1, <1>7, <3>1, <3>2
  <2> QED BY <1>8, <1>9, <2>1 DEF OnlyTaken
<1>14. Increasing(c)'
  <2>1. ASSUME NEW j \in 1 .. m + Len(e), NEW k \in 1 .. m + Len(e), j < k,
               Answered(c)'[j] # Garbage, Answered(c)'[k] # Garbage
        PROVE  Answered(c)'[j] < Answered(c)'[k]
    <3>1. CASE k <= m
      <4>1. j \in 1 .. m /\ k \in 1 .. m
        BY <1>1, <1>7, <2>1, <3>1
      <4>2. Answered(c)'[j] = Answered(c)[j] /\ Answered(c)'[k] = Answered(c)[k]
        BY <1>8, <4>1
      <4> QED BY <2>1, <4>1, <4>2 DEF Streams, Increasing, m
    <3>2. CASE k > m /\ j <= m
      <4>1. j \in 1 .. m
        BY <1>1, <1>7, <3>2
      <4>2. Answered(c)'[j] <= base /\ Answered(c)'[j] \in Nat
        BY <1>8, <1>12, <4>1
      <4>3. Answered(c)'[k] = base + (k - m)
        BY <1>11, <2>1, <3>2
      <4> QED BY <1>1, <1>2, <1>7, <3>2, <4>2, <4>3
    <3>3. CASE k > m /\ j > m
      <4>1. Answered(c)'[k] = base + (k - m) /\ Answered(c)'[j] = base + (j - m)
        BY <1>11, <2>1, <3>3
      <4> QED BY <1>1, <1>2, <1>7, <2>1, <4>1
    <3> QED BY <1>1, <1>7, <2>1, <3>1, <3>2, <3>3
  <2> QED BY <1>8, <2>1 DEF Increasing
<1>15. BehindFull(c)'
  <2>1. ASSUME NEW k \in 1 .. m + Len(e), Answered(c)'[k] = Garbage
        PROVE  k > RecvMax /\ \A j \in k - RecvMax .. k - 1 : Answered(c)'[j] # Garbage
    <3>1. CASE k <= m
      <4>1. k \in 1 .. m
        BY <1>1, <1>7, <3>1
      <4>2. k > RecvMax /\ \A j \in k - RecvMax .. k - 1 : Answered(c)[j] # Garbage
        BY <1>8, <2>1, <4>1 DEF Streams, BehindFull, m
      <4>3. \A j \in k - RecvMax .. k - 1 : j \in 1 .. m
        BY <1>1, <4>1, <4>2
      <4> QED BY <1>8, <4>2, <4>3
    <3>2. CASE k > m
      <4>1. base + (k - m) # Garbage
        BY <1>1, <1>2, <1>7, <3>2 DEF Garbage
      <4>2. k = m + RecvMax + 1 /\ n = RecvMax
        BY <1>11, <2>1, <3>2, <4>1
      <4>3. ASSUME NEW j \in k - RecvMax .. k - 1 PROVE Answered(c)'[j] # Garbage
        <5>1. j \in 1 .. m + Len(e) /\ j > m /\ j # m + RecvMax + 1
          BY <1>1, <1>7, <4>2
        <5>2. Answered(c)'[j] = base + (j - m)
          BY <1>11, <5>1
        <5> QED BY <1>1, <1>2, <5>1, <5>2 DEF Garbage
      <4> QED BY <1>1, <4>2, <4>3
    <3> QED BY <1>1, <1>7, <3>1, <3>2
  <2> QED BY <1>8, <2>1 DEF BehindFull
<1>16. Whole(c)'
  <2>1. SUFFICES ASSUME c \notin cut', peer'[c] # "aborted"
                 PROVE  /\ m + Len(e) = base + n
                        /\ \A k \in 1 .. m + Len(e) : Answered(c)'[k] = k
    BY <1>8, <1>9 DEF Whole
  <2>2. e = data /\ c \notin cut /\ peer[c] # "aborted"
    BY <1>4, <2>1
  <2>3. m = base /\ \A k \in 1 .. m : Answered(c)[k] = k
    BY <2>2 DEF Streams, Whole, m, base
  <2>4. Len(e) = n /\ \A k \in 1 .. n : e[k] = base + k
    BY <1>5, <2>2
  <2>5. ASSUME NEW k \in 1 .. m + Len(e) PROVE Answered(c)'[k] = k
    <3>1. CASE k <= m
      <4>1. k \in 1 .. m
        BY <1>1, <3>1
      <4> QED BY <1>8, <2>3, <4>1
    <3>2. CASE k > m
      <4>1. k \in m + 1 .. m + Len(e) /\ k - m \in 1 .. n
        BY <1>1, <1>7, <2>4, <3>2
      <4> QED BY <1>1, <1>8, <2>3, <2>4, <4>1
    <3> QED BY <1>1, <1>7, <3>1, <3>2
  <2> QED BY <2>3, <2>4, <2>5
<1> QED BY <1>10, <1>13, <1>14, <1>15, <1>16 DEF Streams

(* The bytes of every client are as EchoInv says, in every state.           *)
THEOREM SelectStreams == Spec => []EchoInv
<1>1. Init => EchoInv
  <2> SUFFICES ASSUME Init, NEW c \in Clients PROVE Streams(c)
    BY DEF EchoInv, Streams
  <2>1. sent[c] = 0 /\ inbox[c] = << >> /\ Len(inbox[c]) = 0 /\ Len(Answered(c)) = 0
    <3>1. << >> \o << >> = << >>
      BY EmptySeq, ConcatEmptySeq
    <3> QED BY <3>1, EmptySeq DEF Init, Answered
  <2>2. Taken(c) = 0
    <3>1. sent[c] = 0 /\ Len(inbox[c]) = 0
      BY <2>1
    <3> QED BY <3>1 DEF Taken
  <2>3. InboxOrder(c)
    BY <2>1, <2>2 DEF InboxOrder
  <2>4. Increasing(c) /\ OnlyTaken(c) /\ BehindFull(c)
    BY <2>1 DEF Increasing, OnlyTaken, BehindFull
  <2>5. Whole(c)
    BY <2>1, <2>2 DEF Whole
  <2> QED BY <2>3, <2>4, <2>5 DEF Streams
<1>2. EchoInv /\ IInv /\ [Next]_vars => EchoInv'
  <2> SUFFICES ASSUME IInv, EchoInv, [Next]_vars, NEW c \in Clients PROVE Streams(c)'
    BY DEF EchoInv, Streams
  <2>1. Streams(c)
    BY DEF EchoInv, Streams
  <2>2. CASE UNCHANGED vars
    <3>1. UNCHANGED <<sent, inbox, echoed, unsent, cut, peer>>
      BY <2>2 DEF vars, net, back
    <3>2. Answered(c)' = Answered(c)
      BY <3>1 DEF Answered
    <3> QED BY <2>1, <3>1, <3>2, StreamKept
  <2>3. CASE SelectFails \/ SelectTimesOut \/ Accept \/ SelectReturns \/ SkipSocket \/ RecvFails
              \/ LoopEnds
    <3>1. UNCHANGED <<sent, inbox, echoed, unsent, cut, peer>>
      BY <2>3 DEF SelectFails, SelectTimesOut, Accept, SelectReturns, SkipSocket, RecvFails,
         LoopEnds, net, back
    <3>2. Answered(c)' = Answered(c)
      BY <3>1 DEF Answered
    <3> QED BY <2>1, <3>1, <3>2, StreamKept
  <2>4. CASE HandleData
    <3>1. CASE c = Current
      BY <2>1, <2>4, <3>1, StreamHandle
    <3>2. CASE c # Current
      <4>1. /\ sent' = sent /\ peer' = peer /\ inbox'[c] = inbox[c] /\ echoed'[c] = echoed[c]
            /\ unsent'[c] = unsent[c] /\ (c \in cut' <=> c \in cut)
            /\ Answered(c)' = Answered(c)
        BY <2>4, <3>2 DEF HandleData, IInv, TypeOK, Answered
      <4> QED BY <2>1, <4>1, StreamKept
    <3> QED BY <3>1, <3>2
  <2>5. CASE SendEcho \/ SendFails
    <3>1. CASE c = Current
      BY <2>1, <2>5, <3>1, StreamEcho, StreamFails
    <3>2. CASE c # Current
      <4>1. /\ UNCHANGED <<sent, inbox, cut, peer>> /\ echoed'[c] = echoed[c]
            /\ unsent'[c] = unsent[c] /\ Answered(c)' = Answered(c)
        BY <2>5, <3>2 DEF SendEcho, SendFails, net, IInv, TypeOK, Answered
      <4> QED BY <2>1, <4>1, StreamKept
    <3> QED BY <3>1, <3>2
  <2>6. ASSUME NEW d \in Clients, Connect(d) \/ Send(d) \/ Read(d) \/ Leave(d) PROVE Streams(c)'
    <3>1. CASE Connect(d)
      <4>1. /\ UNCHANGED <<sent, inbox, echoed, unsent, cut>> /\ Answered(c)' = Answered(c)
            /\ (peer'[c] # "aborted" => peer[c] # "aborted")
        BY <3>1 DEF Connect, IInv, TypeOK, back, Answered
      <4> QED BY <2>1, <4>1, StreamKept
    <3>2. CASE Send(d)
      <4>1. CASE d = c
        BY <2>1, <3>2, <4>1, StreamSend
      <4>2. CASE d # c
        <5>1. /\ sent'[c] = sent[c] /\ inbox'[c] = inbox[c] /\ echoed'[c] = echoed[c]
              /\ UNCHANGED <<unsent, peer>> /\ (c \in cut' <=> c \in cut)
              /\ Answered(c)' = Answered(c)
          BY <3>2, <4>2 DEF Send, IInv, TypeOK, Shape, Answered
        <5> QED BY <2>1, <5>1, StreamKept
      <4> QED BY <4>1, <4>2
    <3>3. CASE Leave(d)
      <4>1. CASE d = c
        BY <2>1, <3>3, <4>1, StreamLeave
      <4>2. CASE d # c
        <5>1. /\ UNCHANGED <<sent, echoed, unsent, cut>> /\ inbox'[c] = inbox[c] /\ peer'[c] = peer[c]
              /\ Answered(c)' = Answered(c)
          BY <3>3, <4>2 DEF Leave, IInv, TypeOK, Answered
        <5> QED BY <2>1, <5>1, StreamKept
      <4> QED BY <4>1, <4>2
    <3>4. CASE Read(d)
      <4>1. UNCHANGED <<sent, inbox, echoed, unsent, cut, peer>> /\ Answered(c)' = Answered(c)
        BY <3>4 DEF Read, net, Answered
      <4> QED BY <2>1, <4>1, StreamKept
    <3> QED BY <2>6, <3>1, <3>2, <3>3, <3>4
  <2> QED BY <2>2, <2>3, <2>4, <2>5, <2>6 DEF Next, DoLoopIO
<1> QED BY <1>1, <1>2, SelectInvariance, PTL DEF Spec

(* One row of numbers that goes on where another ends.                      *)
LEMMA Joined ==
  ASSUME NEW a \in Seq(Nat), NEW b \in Seq(Nat), \A k \in 1 .. Len(a) : a[k] = k,
         \A k \in 1 .. Len(b) : b[k] = Len(a) + k
  PROVE  a \o b = [k \in 1 .. Len(a) + Len(b) |-> k]
<1> DEFINE s == a \o b
           m == Len(a)
           n == Len(b)
<1>1. m \in Nat /\ n \in Nat
  BY LenProperties
<1>2. /\ s \in Seq(Nat) /\ Len(s) = m + n
      /\ \A k \in 1 .. m + n : s[k] = IF k <= m THEN a[k] ELSE b[k - m]
  BY ConcatProperties
<1>3. \A k \in 1 .. n : b[k] = m + k
  OBVIOUS
<1>4. \A k \in 1 .. m : a[k] = k
  OBVIOUS
<1> HIDE DEF m, n, s
<1>5. ASSUME NEW k \in 1 .. m + n PROVE s[k] = k
  <2>1. CASE k <= m
    <3>1. k \in 1 .. m
      BY <1>1, <2>1
    <3> QED BY <1>2, <1>4, <2>1, <3>1
  <2>2. CASE ~(k <= m)
    <3>1. k - m \in 1 .. n /\ m + (k - m) = k
      BY <1>1, <2>2
    <3>2. s[k] = b[k - m]
      BY <1>2, <2>2
    <3> QED BY <1>3, <3>1, <3>2
  <2> QED BY <2>1, <2>2
<1>6. DOMAIN s = 1 .. m + n /\ s = [k \in DOMAIN s |-> s[k]]
  BY <1>2, LenProperties
<1>7. s = [k \in 1 .. m + n |-> k]
  BY <1>5, <1>6
<1> QED BY <1>7 DEF s, m, n

(* What DoLoopIO sends back to a client is that client's own bytes in their *)
(* order, whole as long as no text held a 0 byte or filled recv_buf.        *)
THEOREM SelectEchoes == Spec => []EchoIsOwnStream
<1>1. IInv /\ EchoInv => EchoIsOwnStream
  <2> SUFFICES ASSUME IInv, EchoInv, NEW c \in Clients
               PROVE  /\ \A j, k \in DOMAIN echoed[c] :
                           j < k /\ Garbage \notin {echoed[c][j], echoed[c][k]} =>
                             echoed[c][j] < echoed[c][k]
                      /\ \A k \in DOMAIN echoed[c] : echoed[c][k] <= sent[c] - Len(inbox[c])
                      /\ c \notin cut /\ peer[c] # "aborted" =>
                           echoed[c] \o unsent[c] \o inbox[c] = [k \in 1 .. sent[c] |-> k]
                      /\ \A k \in DOMAIN echoed[c] : echoed[c][k] = Garbage =>
                           k > RecvMax /\ \A j \in k - RecvMax .. k - 1 : echoed[c][j] # Garbage
    BY DEF EchoIsOwnStream
  <2>1. /\ sent[c] \in Nat /\ inbox[c] \in Seq(Nat \ {0}) /\ Len(inbox[c]) \in Nat
        /\ Answered(c) \in Seq(Nat) /\ Len(Answered(c)) \in Nat
        /\ Len(echoed[c]) \in Nat /\ Len(echoed[c]) <= Len(Answered(c))
        /\ DOMAIN echoed[c] = 1 .. Len(echoed[c])
    BY StreamTypes, AnsweredTypes
  <2>2. InboxOrder(c) /\ Increasing(c) /\ OnlyTaken(c) /\ Whole(c) /\ BehindFull(c)
    BY DEF EchoInv
  <2>3. ASSUME c \notin cut, peer[c] # "aborted"
        PROVE  Answered(c) \o inbox[c] = [k \in 1 .. sent[c] |-> k]
    <3>1. Len(Answered(c)) = Taken(c) /\ \A k \in 1 .. Len(Answered(c)) : Answered(c)[k] = k
      BY <2>2, <2>3 DEF Whole
    <3>2. \A k \in 1 .. Len(inbox[c]) : inbox[c][k] = Len(Answered(c)) + k
      BY <2>2, <3>1 DEF InboxOrder
    <3>3. Len(Answered(c)) + Len(inbox[c]) = sent[c]
      BY <2>1, <3>1 DEF Taken
    <3>4. Answered(c) \in Seq(Nat) /\ inbox[c] \in Seq(Nat)
      BY <2>1, SeqMonotonic
    <3>5. Answered(c) \o inbox[c] = [k \in 1 .. Len(Answered(c)) + Len(inbox[c]) |-> k]
      <4>1. \A k \in 1 .. Len(Answered(c)) : Answered(c)[k] = k
        BY <3>1
      <4> QED BY <3>2, <3>4, <4>1, Joined
    <3> QED BY <3>3, <3>5, Zenon
  <2>4. \A k \in DOMAIN echoed[c] : k \in 1 .. Len(Answered(c)) /\ Answered(c)[k] = echoed[c][k]
    <3>1. \A k \in 1 .. Len(echoed[c]) : Answered(c)[k] = echoed[c][k]
      BY AnsweredTypes
    <3> DEFINE x == Len(echoed[c])
               y == Len(Answered(c))
    <3>2. x \in Nat /\ y \in Nat /\ x <= y /\ DOMAIN echoed[c] = 1 .. x
      BY <2>1
    <3> HIDE DEF x, y
    <3>3. \A k \in 1 .. x : k \in 1 .. y
      BY <3>2
    <3> QED BY <3>1, <3>2, <3>3 DEF x, y
  <2>5. /\ \A j, k \in DOMAIN echoed[c] :
             j < k /\ Garbage \notin {echoed[c][j], echoed[c][k]} => echoed[c][j] < echoed[c][k]
        /\ \A k \in DOMAIN echoed[c] : echoed[c][k] <= sent[c] - Len(inbox[c])
    BY <2>2, <2>4 DEF Increasing, OnlyTaken, Taken
  <2>6. ASSUME NEW k \in DOMAIN echoed[c], echoed[c][k] = Garbage
        PROVE  k > RecvMax /\ \A j \in k - RecvMax .. k - 1 : echoed[c][j] # Garbage
    <3>1. k > RecvMax /\ \A j \in k - RecvMax .. k - 1 : Answered(c)[j] # Garbage
      BY <2>2, <2>4, <2>6 DEF BehindFull
    <3>2. \A j \in k - RecvMax .. k - 1 : j \in DOMAIN echoed[c]
      <4> DEFINE x == Len(echoed[c])
      <4>1. x \in Nat /\ k \in 1 .. x /\ k > RecvMax /\ RecvMax \in Nat
        BY <2>1, <3>1, SelectServerAssumption
      <4> HIDE DEF x
      <4>2. \A j \in k - RecvMax .. k - 1 : j \in 1 .. x
        BY <4>1
      <4> QED BY <2>1, <4>2 DEF x
    <3> QED BY <2>4, <3>1, <3>2
  <2> QED BY <2>3, <2>5, <2>6 DEF Answered
<1> QED BY <1>1, SelectInvariance, SelectStreams, PTL

=============================================================================
