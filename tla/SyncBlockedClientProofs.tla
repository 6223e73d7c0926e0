----------------------- MODULE SyncBlockedClientProofs -----------------------
(***************************************************************************)
(* Proofs about SyncBlockedClient for any number of sockets, requests and  *)
(* attempts, requests and answers of any length.  That SendAndRecv returns *)
(* its own answer while no call before it has left one unread and no       *)
(* request was read in two needs three facts about the link's streams: an  *)
(* answer ends in its last piece, so what is left after a whole answer is  *)
(* nothing or another answer; what is still to come counts at most one     *)
(* answer per call that gave up and per read that ended inside a request,  *)
(* which needs that requests lie in the stream in the order of the calls;  *)
(* and where there was neither before the send, all of it belongs to the   *)
(* current call.                                                           *)
(***************************************************************************)
EXTENDS SyncBlockedClient, SequenceTheorems, FiniteSetTheorems, TLAPS

(* Where the calls of the owner find the client.                            *)
Control ==
  /\ pc = "connect" => ~m_IsConnected
  /\ pc = "recv" => m_Socket \in made
  /\ pc \in {"connect", "send", "recv"} => calling.req # 0
  /\ pc \notin {"idle", "gone"} => ~answer.ok
  /\ m_Socket # 0 /\ pc # "gone" => m_Socket \in open

(* The current call waits for its answer on link l.                         *)
Waiting(l) == pc = "recv" /\ l = m_Socket

(* An answer on its way is never cut off at its end.                        *)
EndsWhole(l) == response[l] # << >> => response[l][Len(response[l])].last

(* Requests lie in the stream in the order of the calls.                    *)
Sorted(s) == \A i, j \in 1 .. Len(s) : i <= j => s[i].req <= s[j].req

AnswerKind(kind) == IF kind \in {Lookup[j] : j \in DOMAIN Lookup} THEN kind ELSE "other"

(* What link l carries is the current call's request and answers, and when  *)
(* the request went out whole and nothing of it was read by itself, its     *)
(* pieces are all there or the answer is to all of them.                    *)
IsOfCall(l) ==
  /\ \A k \in 1 .. Len(request[l]) :
       request[l][k].req = calling.req /\ request[l][k].kind = calling.kind
  /\ \A k \in 1 .. Len(response[l]) :
       /\ response[l][k].req = calling.req
       /\ response[l][k].kind \in {AnswerKind(calling.kind), "other"}
  /\ sent.parts = Parts /\ Lag(l) = 0 =>
       /\ request[l] = << >> \/
            \A p \in 1 .. Parts : \E k \in 1 .. Len(request[l]) : request[l][k].part = p
       /\ \A k \in 1 .. Len(response[l]) : response[l][k].kind = AnswerKind(calling.kind)

LinkOK(l) ==
  /\ EndsWhole(l) /\ Sorted(request[l])
  /\ Backlog(l) <= Lag(l) + IF Waiting(l) THEN 1 ELSE 0
  /\ Waiting(l) /\ sent.lag = 0 => IsOfCall(l)

(* What SendAndRecv returned stands until the next call.                    *)
OwnAnswer ==
  answer.ok /\ sent.lag = 0 =>
    \A k \in DOMAIN answer.data :
      /\ answer.data[k].req = calling.req
      /\ answer.data[k].kind \in {AnswerKind(calling.kind), "other"}
      /\ answer.whole => answer.data[k].kind = AnswerKind(calling.kind)

(* A connected m_Socket is the only descriptor that no CreateConnect that   *)
(* failed, or was called on top of it, has been counted for.                *)
Kept == m_IsConnected /\ m_Socket # 0 /\ pc \notin {"create", "gone"}
LeaksCounted == Cardinality(open) <= refused + again + IF Kept THEN 1 ELSE 0

IInv ==
  TypeOK /\ Control /\ (\A l \in Links : LinkOK(l)) /\ OwnAnswer /\ LeaksCounted

(* The whole answers in a stream.                                           *)
Ends(s) == {k \in DOMAIN s : s[k].last}

(* The requests that have pieces in a stream.                               *)
Reqs(s) == {s[k].req : k \in DOMAIN s}

-----------------------------------------------------------------------------
(* The first n entries of a stream and what is behind them.                 *)
LEMMA Cut ==
  ASSUME NEW S, NEW s \in Seq(S), NEW n \in 0 .. Len(s)
  PROVE  /\ SubSeq(s, 1, n) \in Seq(S) /\ Len(SubSeq(s, 1, n)) = n
         /\ \A k \in 1 .. n : SubSeq(s, 1, n)[k] = s[k]
         /\ SubSeq(s, n + 1, Len(s)) \in Seq(S) /\ Len(SubSeq(s, n + 1, Len(s))) = Len(s) - n
         /\ \A k \in 1 .. Len(s) - n : SubSeq(s, n + 1, Len(s))[k] = s[n + k]
<1> DEFINE a == SubSeq(s, 1, n)
           b == SubSeq(s, n + 1, Len(s))
<1>1. Len(s) \in Nat /\ \A k \in 1 .. Len(s) : s[k] \in S
  BY LenProperties, ElementOfSeq
<1>2. a \in Seq(S) /\ Len(a) = n /\ \A k \in 1 .. n : a[k] = s[k]
  <2>1. \A k \in 1 .. n : s[k] \in S
    BY <1>1
  <2>2. /\ a \in Seq(S) /\ Len(a) = IF 1 <= n THEN n - 1 + 1 ELSE 0
        /\ \A k \in 1 .. n - 1 + 1 : a[k] = s[1 + k - 1]
    BY <1>1, <2>1, SubSeqProperties
  <2> HIDE DEF a
  <2> QED BY <1>1, <2>2
<1>3. b \in Seq(S) /\ Len(b) = Len(s) - n /\ \A k \in 1 .. Len(s) - n : b[k] = s[n + k]
  <2>1. \A k \in n + 1 .. Len(s) : s[k] \in S
    BY <1>1
  <2>2. /\ b \in Seq(S) /\ Len(b) = IF n + 1 <= Len(s) THEN Len(s) - (n + 1) + 1 ELSE 0
        /\ \A k \in 1 .. Len(s) - (n + 1) + 1 : b[k] = s[n + 1 + k - 1]
    BY <1>1, <2>1, SubSeqProperties
  <2> HIDE DEF b
  <2> QED BY <1>1, <2>2
<1> QED BY <1>2, <1>3

LEMMA EndsFinite ==
  ASSUME NEW S, NEW s \in Seq(S)
  PROVE  /\ IsFiniteSet(Ends(s)) /\ Cardinality(Ends(s)) \in Nat
         /\ Ends(s) = {k \in 1 .. Len(s) : s[k].last}
<1>1. Len(s) \in Nat /\ DOMAIN s = 1 .. Len(s)
  BY LenProperties
<1>2. IsFiniteSet(1 .. Len(s)) /\ Ends(s) \subseteq 1 .. Len(s)
  BY <1>1, FS_Interval DEF Ends
<1> QED BY <1>1, <1>2, FS_Subset, FS_CardinalityType DEF Ends

(* Reading n pieces takes at least the answer that ends at the n-th.        *)
LEMMA EndsOfRest ==
  ASSUME NEW S, NEW s \in Seq(S), NEW n \in 1 .. Len(s)
  PROVE  LET rest == SubSeq(s, n + 1, Len(s))
         IN Cardinality(Ends(rest)) <=
              IF s[n].last THEN Cardinality(Ends(s)) - 1 ELSE Cardinality(Ends(s))
<1> DEFINE rest == SubSeq(s, n + 1, Len(s))
           f == [k \in Ends(rest) |-> n + k]
           target == IF s[n].last THEN Ends(s) \ {n} ELSE Ends(s)
<1>1. /\ Len(s) \in Nat /\ rest \in Seq(S) /\ Len(rest) = Len(s) - n
      /\ \A k \in 1 .. Len(s) - n : rest[k] = s[n + k]
  <2>1. Len(s) \in Nat /\ n \in 0 .. Len(s)
    BY LenProperties
  <2> QED BY <2>1, Cut
<1> HIDE DEF rest
<1>2. /\ Ends(rest) = {k \in 1 .. Len(rest) : rest[k].last}
      /\ Ends(s) = {k \in 1 .. Len(s) : s[k].last}
      /\ IsFiniteSet(Ends(s)) /\ Cardinality(Ends(s)) \in Nat
  BY <1>1, EndsFinite
<1>3. f \in Injection(Ends(rest), target)
  <2>1. ASSUME NEW k \in Ends(rest) PROVE n + k \in target
    <3>1. k \in 1 .. Len(s) - n /\ s[n + k].last
      BY <1>1, <1>2
    <3>2. n + k \in 1 .. Len(s) /\ n + k # n
      BY <1>1, <3>1
    <3> QED BY <1>2, <3>1, <3>2
  <2>2. \A j, k \in Ends(rest) : n + j = n + k => j = k
    BY <1>1, <1>2
  <2> QED BY <2>1, <2>2 DEF Injection, IsInjective
<1>4. IsFiniteSet(target) /\ Cardinality(target) =
        IF s[n].last THEN Cardinality(Ends(s)) - 1 ELSE Cardinality(Ends(s))
  BY <1>2, FS_RemoveElement
<1>5. Cardinality(Ends(rest)) <= Cardinality(target)
  BY <1>3, <1>4, FS_Injection
<1> QED BY <1>4, <1>5 DEF rest

-----------------------------------------------------------------------------
(* Streams of request pieces.                                               *)
Requests == [req : Nat, kind : Kinds, part : 1 .. Parts]
UpTo(m) == [req : 1 .. m, kind : Kinds, part : 1 .. Parts]

LEMMA ReqsFinite ==
  ASSUME NEW m \in Nat, NEW s \in Seq(UpTo(m))
  PROVE  /\ IsFiniteSet(Reqs(s)) /\ Cardinality(Reqs(s)) \in Nat
         /\ Reqs(s) = {s[k].req : k \in 1 .. Len(s)} /\ Reqs(s) \subseteq 1 .. m
         /\ Cardinality(Reqs(s)) = 0 => s = << >>
<1>1. Len(s) \in Nat /\ DOMAIN s = 1 .. Len(s) /\ \A k \in 1 .. Len(s) : s[k].req \in 1 .. m
  <2>1. Len(s) \in Nat /\ DOMAIN s = 1 .. Len(s)
    BY LenProperties
  <2>2. \A k \in 1 .. Len(s) : s[k] \in UpTo(m)
    BY ElementOfSeq
  <2> QED BY <2>1, <2>2 DEF UpTo
<1>2. Reqs(s) = {s[k].req : k \in 1 .. Len(s)} /\ Reqs(s) \subseteq 1 .. m
  BY <1>1 DEF Reqs
<1>3. IsFiniteSet(Reqs(s)) /\ Cardinality(Reqs(s)) \in Nat
  <2>1. IsFiniteSet(1 .. m)
    BY FS_Interval
  <2> QED BY <1>2, <2>1, FS_Subset, FS_CardinalityType
<1>4. ASSUME Cardinality(Reqs(s)) = 0 PROVE s = << >>
  <2>1. Reqs(s) = {}
    BY <1>3, <1>4, FS_EmptySet
  <2>2. \A k \in 1 .. Len(s) : FALSE
    BY <1>2, <2>1
  <2>3. Len(s) = 0
    BY <1>1, <2>2
  <2> QED BY <2>3, EmptySeq
<1> QED BY <1>2, <1>3, <1>4

(* A read that does not end inside a request takes the last one it has      *)
(* bytes of whole.                                                          *)
LEMMA ReqsOfRest ==
  ASSUME NEW m \in Nat, NEW s \in Seq(UpTo(m)), Sorted(s), NEW n \in 1 .. Len(s)
  PROVE  LET rest == SubSeq(s, n + 1, Len(s))
         IN /\ Cardinality(Reqs(rest)) <=
                 IF CutAt(s, n) THEN Cardinality(Reqs(s)) ELSE Cardinality(Reqs(s)) - 1
            /\ Sorted(rest)
<1> DEFINE rest == SubSeq(s, n + 1, Len(s))
           left == IF CutAt(s, n) THEN Reqs(s) ELSE Reqs(s) \ {s[n].req}
<1>1. /\ Len(s) \in Nat /\ n \in Nat /\ rest \in Seq(UpTo(m)) /\ Len(rest) = Len(s) - n
      /\ \A k \in 1 .. Len(s) - n : rest[k] = s[n + k]
  <2>1. Len(s) \in Nat /\ n \in 0 .. Len(s)
    BY LenProperties
  <2> QED BY <2>1, Cut
<1> HIDE DEF rest
<1>2. /\ Reqs(rest) = {rest[k].req : k \in 1 .. Len(rest)} /\ IsFiniteSet(Reqs(s))
      /\ Reqs(s) = {s[k].req : k \in 1 .. Len(s)} /\ Cardinality(Reqs(s)) \in Nat
      /\ Reqs(s) \subseteq 1 .. m
  BY <1>1, ReqsFinite
<1>3. \A k \in 1 .. Len(rest) : n + k \in 1 .. Len(s) /\ rest[k] = s[n + k]
  BY <1>1
<1>4. Reqs(rest) \subseteq left
  <2> SUFFICES ASSUME NEW k \in 1 .. Len(rest) PROVE rest[k].req \in left
    BY <1>2
  <2>1. rest[k].req = s[n + k].req /\ s[n + k].req \in Reqs(s)
    BY <1>2, <1>3
  <2>2. CASE CutAt(s, n)
    BY <2>1, <2>2
  <2>3. CASE ~CutAt(s, n)
    <3>1. /\ n + 1 \in 1 .. Len(s) /\ n + k \in 1 .. Len(s) /\ n <= n + 1 /\ n + 1 <= n + k
          /\ n < Len(s)
      BY <1>1
    <3>2. s[n + 1].req # s[n].req
      BY <2>3, <3>1 DEF CutAt
    <3>3. s[n].req <= s[n + 1].req /\ s[n + 1].req <= s[n + k].req
      BY <3>1 DEF Sorted
    <3>4. s[n].req \in Nat /\ s[n + 1].req \in Nat /\ s[n + k].req \in Nat
      <4>1. \A i \in 1 .. Len(s) : s[i].req \in 1 .. m
        BY <1>2
      <4>2. \A i \in 1 .. Len(s) : s[i].req \in Nat
        BY <4>1
      <4> QED BY <3>1, <4>2
    <3> QED BY <2>1, <2>3, <3>2, <3>3, <3>4
  <2> QED BY <2>2, <2>3
<1>5. IsFiniteSet(left) /\ Cardinality(left) =
        IF CutAt(s, n) THEN Cardinality(Reqs(s)) ELSE Cardinality(Reqs(s)) - 1
  <2>1. s[n].req \in Reqs(s)
    BY <1>2
  <2> QED BY <1>2, <2>1, FS_RemoveElement
<1>6. Cardinality(Reqs(rest)) <= Cardinality(left)
  BY <1>4, <1>5, FS_Subset
<1>7. Sorted(rest)
  <2> SUFFICES ASSUME NEW i \in 1 .. Len(rest), NEW j \in 1 .. Len(rest), i <= j
               PROVE  rest[i].req <= rest[j].req
    BY DEF Sorted
  <2>1. n + i <= n + j
    BY <1>1
  <2> QED BY <1>3, <2>1 DEF Sorted
<1> QED BY <1>5, <1>6, <1>7 DEF rest

-----------------------------------------------------------------------------
(* What OnMessage answers.                                                   *)

LEMMA LookupShape == DOMAIN Lookup = 1 .. 4
BY DEF Lookup

(* The first type found is one that was asked for, or none; when everything *)
(* is of one kind and all pieces of a request are there, it is that kind.   *)
LEMMA DispatchKind ==
  ASSUME NEW batch \in Seq(Requests), batch # << >>
  PROVE  /\ Dispatch(batch) \in Kinds
         /\ \A kind : (\A k \in 1 .. Len(batch) : batch[k].kind = kind) =>
                        Dispatch(batch) \in {AnswerKind(kind), "other"}
         /\ \A kind \in Kinds : \A req :
              /\ \A k \in 1 .. Len(batch) : batch[k].kind = kind /\ batch[k].req = req
              /\ \A p \in 1 .. Parts : \E k \in 1 .. Len(batch) : batch[k].part = p
              => Dispatch(batch) = AnswerKind(kind)
<1> DEFINE found == {j \in DOMAIN Lookup : Shows(batch, Lookup[j])}
           first == CHOOSE j \in found : \A k \in found : j <= k
<1>1. /\ Len(batch) \in Nat /\ Len(batch) >= 1 /\ DOMAIN batch = 1 .. Len(batch)
      /\ \A k \in 1 .. Len(batch) : batch[k].kind \in Kinds
  <2>1. Len(batch) \in Nat \ {0} /\ DOMAIN batch = 1 .. Len(batch)
    BY EmptySeq, LenProperties
  <2>2. \A k \in 1 .. Len(batch) : batch[k] \in Requests
    BY ElementOfSeq
  <2> QED BY <2>1, <2>2 DEF Requests
<1>2. CASE found = {}
  <2>1. Dispatch(batch) = "other"
    BY <1>2 DEF Dispatch
  <2>2. ASSUME NEW kind \in Kinds, NEW req,
               \A k \in 1 .. Len(batch) : batch[k].kind = kind /\ batch[k].req = req,
               \A p \in 1 .. Parts : \E k \in 1 .. Len(batch) : batch[k].part = p
        PROVE  AnswerKind(kind) = "other"
    <3>1. Mark[kind] \subseteq 1 .. Parts
      BY SyncAssumption
    <3>2. 1 \in DOMAIN batch /\ batch[1].kind = kind
      BY <1>1, <2>2
    <3>3. Shows(batch, kind)
      <4>1. {j \in DOMAIN batch : batch[j].req = batch[1].req} = 1 .. Len(batch)
        BY <1>1, <2>2
      <4>2. 1 .. Parts \subseteq {batch[i].part : i \in 1 .. Len(batch)}
        BY <2>2
      <4> QED BY <3>1, <3>2, <4>1, <4>2 DEF Shows
    <3> QED BY <1>2, <3>3 DEF AnswerKind
  <2> QED BY <2>1, <2>2, SyncAssumption
<1>3. CASE found # {}
  <2>1. first \in found
    <3>1. found \subseteq 1 .. 4
      BY LookupShape
    <3> HIDE DEF found
    <3>2. \E j \in found : \A k \in found : j <= k
      <4>1. CASE 1 \in found
        BY <3>1, <4>1
      <4>2. CASE 1 \notin found /\ 2 \in found
        BY <3>1, <4>2
      <4>3. CASE 1 \notin found /\ 2 \notin found /\ 3 \in found
        BY <3>1, <4>3
      <4>4. CASE 1 \notin found /\ 2 \notin found /\ 3 \notin found
        <5>1. \A k \in found : k = 4
          BY <3>1, <4>4
        <5> QED BY <1>3, <5>1
      <4> QED BY <4>1, <4>2, <4>3, <4>4
    <3> QED BY <3>2
  <2>2. Dispatch(batch) = Lookup[first]
    BY <1>3 DEF Dispatch
  <2> HIDE DEF first
  <2>3. PICK k \in 1 .. Len(batch) : batch[k].kind = Lookup[first]
    BY <1>1, <2>1 DEF Shows
  <2>4. first \in DOMAIN Lookup
    BY <2>1
  <2>5. \A kind : kind = Lookup[first] => AnswerKind(kind) = kind
    BY <2>4 DEF AnswerKind
  <2> QED BY <1>1, <2>2, <2>3, <2>5
<1> QED BY <1>2, <1>3

(* An answer names the last request it was sent for, and ends once.         *)
LEMMA AnswerShape ==
  ASSUME NEW batch \in Seq(Requests), batch # << >>
  PROVE  /\ Len(Answer(batch)) \in Nat /\ Len(Answer(batch)) >= 1
         /\ DOMAIN Answer(batch) = 1 .. Len(Answer(batch))
         /\ \A p \in 1 .. Len(Answer(batch)) :
              Answer(batch)[p] = [req |-> batch[Len(batch)].req, kind |-> Dispatch(batch),
                                  last |-> p = Len(Answer(batch))]
<1> DEFINE n == Pieces[Dispatch(batch)]
           piece(p) == [req |-> batch[Len(batch)].req, kind |-> Dispatch(batch), last |-> p = n]
<1>1. Dispatch(batch) \in Kinds
  BY DispatchKind
<1>2. n \in Nat /\ n >= 1
  BY <1>1, SyncAssumption
<1>3. Answer(batch) = [p \in 1 .. n |-> piece(p)]
  BY DEF Answer, Respond
<1> HIDE DEF n, piece
<1>4. Len(Answer(batch)) = n /\ DOMAIN Answer(batch) = 1 .. n
  BY <1>2, <1>3
<1>5. \A p \in 1 .. n : Answer(batch)[p] = piece(p)
  BY <1>3
<1> QED BY <1>2, <1>4, <1>5 DEF piece

(* A type that holds its pieces holds the answer.                           *)
LEMMA AnswerSeq ==
  ASSUME NEW batch \in Seq(Requests), batch # << >>, NEW S,
         \A p \in 1 .. Len(Answer(batch)) : Answer(batch)[p] \in S
  PROVE  Answer(batch) \in Seq(S)
<1> DEFINE n == Pieces[Dispatch(batch)]
           a == Answer(batch)
<1>1. a = [p \in 1 .. n |-> a[p]] /\ n \in Nat /\ Len(a) = n
  <2>1. Dispatch(batch) \in Kinds
    BY DispatchKind
  <2>2. n \in Nat
    BY <2>1, SyncAssumption
  <2> QED BY <2>2 DEF Answer, Respond
<1> HIDE DEF a, n
<1>2. \A p \in 1 .. n : a[p] \in S
  BY <1>1 DEF a
<1>3. a \in Seq(S)
  BY <1>1, <1>2
<1> QED BY <1>3 DEF a

(* Another answer behind a stream is one more to be read.                   *)
LEMMA EndsOfMore ==
  ASSUME NEW batch \in Seq(Requests), batch # << >>, NEW S, NEW s \in Seq(S),
         Answer(batch) \in Seq(S)
  PROVE  LET more == s \o Answer(batch)
         IN /\ Cardinality(Ends(more)) = Cardinality(Ends(s)) + 1
            /\ more # << >> /\ more[Len(more)].last
<1> DEFINE a == Answer(batch)
           more == s \o a
<1>1. Len(s) \in Nat /\ Len(a) \in Nat /\ Len(a) >= 1
  BY AnswerShape, LenProperties
<1>2. \A p \in 1 .. Len(a) : a[p].last <=> p = Len(a)
  <2> SUFFICES ASSUME NEW p \in 1 .. Len(a) PROVE a[p].last <=> p = Len(a)
    OBVIOUS
  <2>1. a[p] = [req |-> batch[Len(batch)].req, kind |-> Dispatch(batch), last |-> p = Len(a)]
    BY AnswerShape
  <2> HIDE DEF a
  <2>2. p \in Int /\ Len(a) \in Int
    BY <1>1
  <2>3. a[p].last = (p = Len(a))
    BY <2>1, <2>2
  <2> QED BY <2>3, Zenon
<1> HIDE DEF a
<1>3. /\ more \in Seq(S) /\ Len(more) = Len(s) + Len(a)
      /\ \A k \in 1 .. Len(s) + Len(a) :
           more[k] = IF k <= Len(s) THEN s[k] ELSE a[k - Len(s)]
  BY ConcatProperties DEF a
<1> HIDE DEF more
<1>4. /\ Ends(more) = {k \in 1 .. Len(more) : more[k].last}
      /\ Ends(s) = {k \in 1 .. Len(s) : s[k].last} /\ IsFiniteSet(Ends(s))
  BY <1>3, EndsFinite
<1>5. \A k \in Len(s) + 1 .. Len(s) + Len(a) : more[k].last <=> k = Len(s) + Len(a)
  <2> SUFFICES ASSUME NEW k \in Len(s) + 1 .. Len(s) + Len(a)
               PROVE  more[k].last <=> k = Len(s) + Len(a)
    OBVIOUS
  <2>1. k - Len(s) \in 1 .. Len(a) /\ k \in 1 .. Len(s) + Len(a) /\ ~(k <= Len(s))
    BY <1>1
  <2>2. more[k] = a[k - Len(s)]
    BY <1>3, <2>1
  <2>3. a[k - Len(s)].last <=> k - Len(s) = Len(a)
    BY <1>2, <2>1
  <2> QED BY <1>1, <2>2, <2>3
<1>6. Ends(more) = Ends(s) \cup {Len(s) + Len(a)} /\ Len(s) + Len(a) \notin Ends(s)
  BY <1>1, <1>3, <1>4, <1>5
<1>7. Cardinality(Ends(more)) = Cardinality(Ends(s)) + 1
  BY <1>4, <1>6, FS_AddElement
<1>8. more # << >> /\ more[Len(more)].last
  <2>1. Len(more) \in Len(s) + 1 .. Len(s) + Len(a)
    BY <1>1, <1>3
  <2> QED BY <1>1, <1>3, <1>5, <2>1, EmptySeq
<1> QED BY <1>7, <1>8 DEF more, a

-----------------------------------------------------------------------------
LEMMA Streams ==
  ASSUME TypeOK, NEW l \in Links
  PROVE  /\ calling.req \in Nat /\ request[l] \in Seq(UpTo(calling.req)) /\ Len(request[l]) \in Nat
         /\ response[l] \in Seq(Piece) /\ Len(response[l]) \in Nat
         /\ DOMAIN response[l] = 1 .. Len(response[l])
         /\ Cardinality(Ends(response[l])) \in Nat /\ Cardinality(Reqs(request[l])) \in Nat
         /\ Lag(l) \in Nat /\ lost[l] \in Nat /\ cuts[l] \in Nat
         /\ Backlog(l) = Cardinality(Reqs(request[l])) + Cardinality(Ends(response[l]))
<1>1. /\ request[l] \in Seq(UpTo(calling.req)) /\ response[l] \in Seq(Piece)
      /\ lost[l] \in Nat /\ cuts[l] \in Nat /\ calling.req \in Nat
  <2>1. calling.req \in Nat
    BY SyncAssumption DEF TypeOK
  <2>2. Request = UpTo(calling.req)
    BY DEF Request, UpTo
  <2>3. /\ request[l] \in Seq(Request) /\ response[l] \in Seq(Piece)
        /\ lost[l] \in Nat /\ cuts[l] \in Nat
    BY DEF TypeOK
  <2> QED BY <2>1, <2>2, <2>3
<1>2. /\ Len(request[l]) \in Nat /\ Len(response[l]) \in Nat
      /\ DOMAIN response[l] = 1 .. Len(response[l])
  BY <1>1, LenProperties
<1>3. Cardinality(Ends(response[l])) \in Nat /\ Cardinality(Reqs(request[l])) \in Nat
  BY <1>1, EndsFinite, ReqsFinite
<1>4. Lag(l) \in Nat
  BY <1>1 DEF Lag
<1> QED BY <1>1, <1>2, <1>3, <1>4 DEF Backlog, Ends, Reqs

LEMMA MadeLinks ==
  ASSUME TypeOK
  PROVE  made \subseteq Links /\ (m_Socket # 0 => m_Socket \in Links) /\ 0 \notin Links
BY SyncAssumption DEF TypeOK

LEMMA RecvSocket ==
  ASSUME IInv, pc = "recv"
  PROVE  m_Socket \in Links /\ m_Socket # 0
BY MadeLinks DEF IInv, Control

(* What OnMessage does to a link: it takes n pieces and sends one answer.   *)
Answers(l, n, batch) ==
  /\ batch # << >> /\ Len(batch) = n /\ \A k \in 1 .. n : batch[k] = request[l][k]
  /\ request'[l] = SubSeq(request[l], n + 1, Len(request[l]))
  /\ request'[l] \in Seq(Request) /\ Len(request'[l]) = Len(request[l]) - n
  /\ \A k \in 1 .. Len(request[l]) - n : request'[l][k] = request[l][n + k]
  /\ Answer(batch) \in Seq(Piece) /\ response'[l] \in Seq(Piece)
  /\ response'[l] = response[l] \o Answer(batch)
  /\ request' = [request EXCEPT ![l] = request'[l]]
  /\ response' = [response EXCEPT ![l] = response'[l]]
  /\ cuts' = IF CutAt(request[l], n) THEN [cuts EXCEPT ![l] = @ + 1] ELSE cuts

LEMMA ServiceAnswers ==
  ASSUME TypeOK, NEW l \in Links, OnMessage(l)
  PROVE  \E n \in 1 .. Len(request[l]), batch \in Seq(Requests) : Answers(l, n, batch)
<1> DEFINE batchOf(n) == SubSeq(request[l], 1, n)
<1>1. PICK n \in 1 .. Len(request[l]) :
        /\ response' = [response EXCEPT ![l] = response[l] \o Answer(batchOf(n))]
        /\ request' = [request EXCEPT ![l] = SubSeq(request[l], n + 1, Len(request[l]))]
        /\ cuts' = IF CutAt(request[l], n) THEN [cuts EXCEPT ![l] = @ + 1] ELSE cuts
  BY DEF OnMessage
<1> DEFINE batch == batchOf(n)
<1>0. request[l] \in Seq(Request) /\ Len(request[l]) \in Nat
  BY Streams DEF TypeOK
<1>2. /\ batch \in Seq(Request) /\ Len(batch) = n /\ n >= 1
      /\ \A k \in 1 .. n : batch[k] = request[l][k]
      /\ SubSeq(request[l], n + 1, Len(request[l])) \in Seq(Request)
      /\ Len(SubSeq(request[l], n + 1, Len(request[l]))) = Len(request[l]) - n
      /\ \A k \in 1 .. Len(request[l]) - n :
           SubSeq(request[l], n + 1, Len(request[l]))[k] = request[l][n + k]
  <2>1. n \in 0 .. Len(request[l]) /\ n >= 1
    BY <1>0
  <2> QED BY <1>0, <2>1, Cut
<1> HIDE DEF batch
<1>3. batch \in Seq(Requests) /\ batch # << >>
  <2>1. Request \subseteq Requests
    BY DEF Request, Requests, TypeOK
  <2> QED BY <1>2, <2>1, SeqMonotonic, EmptySeq
<1>4. Answer(batch) \in Seq(Piece)
  <2>1. ASSUME NEW p \in 1 .. Len(Answer(batch)) PROVE Answer(batch)[p] \in Piece
    <3>1. batch[Len(batch)] \in Request
      BY <1>2, ElementOfSeq
    <3>2. batch[Len(batch)].req \in 1 .. calling.req /\ Dispatch(batch) \in Kinds
      BY <1>3, <3>1, DispatchKind DEF Request
    <3>3. (p = Len(Answer(batch))) \in BOOLEAN
      OBVIOUS
    <3>4. Answer(batch)[p] = [req |-> batch[Len(batch)].req, kind |-> Dispatch(batch),
                              last |-> p = Len(Answer(batch))]
      BY <1>3, AnswerShape
    <3> QED BY <3>2, <3>3, <3>4 DEF Piece
  <2> QED BY <1>3, <2>1, AnswerSeq
<1>5. response[l] \o Answer(batch) \in Seq(Piece)
  BY <1>4, Streams, ConcatProperties
<1>6. /\ request'[l] = SubSeq(request[l], n + 1, Len(request[l]))
      /\ response'[l] = response[l] \o Answer(batch)
  BY <1>1 DEF TypeOK, batch
<1>7. /\ request' = [request EXCEPT ![l] = request'[l]]
      /\ response' = [response EXCEPT ![l] = response'[l]]
  BY <1>1, <1>6
<1>8. /\ request'[l] \in Seq(Request) /\ Len(request'[l]) = Len(request[l]) - n
      /\ \A k \in 1 .. Len(request[l]) - n : request'[l][k] = request[l][n + k]
  BY <1>2, <1>6
<1>9. Answers(l, n, batch)
  BY <1>1, <1>2, <1>3, <1>4, <1>5, <1>6, <1>7, <1>8 DEF Answers
<1> QED BY <1>3, <1>9

(* The pieces that a send of n passes on.                                   *)
LEMMA FirstPiecesSeq ==
  ASSUME TypeOK, calling.req # 0, NEW n \in 1 .. Parts
  PROVE  /\ FirstPieces(n) \in Seq(Request) /\ Len(FirstPieces(n)) = n
         /\ \A k \in 1 .. n : FirstPieces(n)[k] =
                                [req |-> calling.req, kind |-> calling.kind, part |-> k]
<1>1. calling.req \in 1 .. calling.req /\ calling.kind \in Kinds
  BY SyncAssumption DEF TypeOK
<1>2. n \in Nat /\ Parts \in Nat
  BY SyncAssumption
<1>3. \A k \in 1 .. n : [req |-> calling.req, kind |-> calling.kind, part |-> k] \in Request
  BY <1>1, <1>2 DEF Request
<1> QED BY <1>2, <1>3 DEF FirstPieces

-----------------------------------------------------------------------------
(* Type correctness: the client's own variables, then the streams.          *)
ClientTypes ==
  /\ m_Socket \in 0 .. created /\ created \in 0 .. MaxSockets
  /\ m_IsConnected \in BOOLEAN /\ open \subseteq 1 .. created
  /\ made \subseteq 1 .. created /\ up \subseteq open \cap made
  /\ pc \in {"idle", "create", "connect", "send", "recv", "gone"}
  /\ tries \in 0 .. tryTimes - 1
  /\ calling \in [req : 0 .. MaxRequests, kind : Kinds]
  /\ refused \in Nat /\ again \in Nat

StreamTypes == request \in [Links -> Seq(Request)] /\ response \in [Links -> Seq(Piece)]

CountTypes ==
  sent \in [parts : 0 .. Parts, lag : Nat] /\ cuts \in [Links -> Nat] /\ lost \in [Links -> Nat]

LEMMA TypeParts == TypeOK <=> ClientTypes /\ StreamTypes /\ CountTypes
BY DEF TypeOK, ClientTypes, StreamTypes, CountTypes

LEMMA ClientTypesStep ==
  ASSUME ClientTypes, Next
  PROVE  ClientTypes'
<1> USE DEF ClientTypes
<1>0. CASE CallCreateConnect
  BY <1>0 DEF CallCreateConnect, serverVars, socketVars
<1>1. CASE CallSendAndRecv
  <2>1. PICK kind \in Kinds : calling' = [req |-> calling.req + 1, kind |-> kind]
    BY <1>1 DEF CallSendAndRecv
  <2>2. calling.req + 1 \in 0 .. MaxRequests
    BY <1>1, SyncAssumption DEF CallSendAndRecv
  <2>3. calling' \in [req : 0 .. MaxRequests, kind : Kinds]
    BY <2>1, <2>2
  <2>4. pc' \in {"send", "connect"}
    BY <1>1 DEF CallSendAndRecv
  <2> QED BY <1>1, <2>3, <2>4 DEF CallSendAndRecv, serverVars, socketVars
<1>2. CASE SocketFails
  BY <1>2 DEF SocketFails, serverVars, historyVars
<1>3. CASE ConnectFails \/ ConnectSucceeds
  <2>1. created' = created + 1 /\ created' \in 0 .. MaxSockets /\ m_Socket' = created'
    BY <1>3, SyncAssumption DEF ConnectFails, ConnectSucceeds
  <2>2. /\ open' \subseteq 1 .. created' /\ made' \subseteq 1 .. created'
        /\ up' \subseteq open' \cap made'
    <3>1. 1 .. created \subseteq 1 .. created' /\ created' \in 1 .. created'
      BY <2>1
    <3>2. open' = open \cup {created'}
      BY <1>3 DEF ConnectFails, ConnectSucceeds
    <3>3. CASE ConnectFails
      BY <3>1, <3>2, <3>3 DEF ConnectFails, serverVars
    <3>4. CASE ConnectSucceeds
      <4>1. made' = made \cup {created'} /\ up' = up \cup {created'}
        BY <3>4 DEF ConnectSucceeds
      <4> QED BY <3>1, <3>2, <4>1
    <3> QED BY <1>3, <3>3, <3>4
  <2>3. m_Socket' \in 0 .. created'
    BY <2>1
  <2>4. refused' \in Nat /\ again' \in Nat /\ m_IsConnected' \in BOOLEAN /\ pc' \in {"idle", "send"}
    <3>1. CASE ConnectFails
      BY <3>1 DEF ConnectFails
    <3>2. CASE ConnectSucceeds
      BY <3>2 DEF ConnectSucceeds, historyVars
    <3> QED BY <1>3, <3>1, <3>2
  <2> QED BY <1>3, <2>1, <2>2, <2>3, <2>4 DEF ConnectFails, ConnectSucceeds
<1>4. CASE SendSucceeds
  BY <1>4 DEF SendSucceeds, Transmit, socketVars
<1>5. CASE RecvSucceeds \/ SendFails \/ RecvFails
  <2>1. 0 \in 0 .. tryTimes - 1
    BY SyncAssumption
  <2> QED BY <1>5, <2>1 DEF RecvSucceeds, SendFails, RecvFails, ReturnError, serverVars, socketVars
<1>6. CASE RecvTimesOut
  <2>1. tries' \in 0 .. tryTimes - 1
    BY <1>6, SyncAssumption DEF RecvTimesOut, TimesOut, ReturnError
  <2>2. pc' \in {"recv", "idle"}
    BY <1>6 DEF RecvTimesOut, TimesOut, NothingToRead, ReturnError
  <2> QED BY <1>6, <2>1, <2>2 DEF RecvTimesOut, TimesOut, serverVars, socketVars
<1>7. CASE CloseConnection \/ Destroy
  <2>1. 0 \in 0 .. created /\ up' \subseteq open' \cap made /\ open' \subseteq open
    <3>1. open' = open \ {m_Socket} /\ up' = up \ {m_Socket}
      BY <1>7 DEF CloseConnection, Destroy, CloseSocket
    <3>2. 0 \in 0 .. created
      BY SyncAssumption
    <3> QED BY <3>1, <3>2
  <2> QED BY <1>7, <2>1 DEF CloseConnection, Destroy
<1>8. CASE ConnectsLate
  BY <1>8 DEF ConnectsLate, historyVars
<1>9. CASE Server
  <2>1. up' \subseteq up
    BY <1>9 DEF Server, OnMessage, PeerCloses
  <2> QED BY <1>9, <2>1 DEF Server, clientVars, socketVars, historyVars
<1> QED BY <1>0, <1>1, <1>2, <1>3, <1>4, <1>5, <1>6, <1>7, <1>8, <1>9 DEF Next, InCall

LEMMA CountTypesStep ==
  ASSUME TypeOK, Control, Next
  PROVE  CountTypes'
<1>1. /\ CountTypes /\ made \subseteq Links /\ (m_Socket # 0 => m_Socket \in Links)
      /\ Unsent \in [parts : 0 .. Parts, lag : Nat]
  BY TypeParts, MadeLinks, SyncAssumption DEF Unsent
<1>2. \A left \in {0, 1} : m_Socket # 0 => [lost EXCEPT ![m_Socket] = @ + left] \in [Links -> Nat]
  BY <1>1 DEF CountTypes
<1>3. CASE SendFails \/ RecvFails \/ RecvTimesOut
  BY <1>1, <1>2, <1>3 DEF SendFails, RecvFails, RecvTimesOut, TimesOut, ReturnError, Forget,
     CountTypes, serverVars
<1>4. CASE RecvSucceeds
  <2>1. m_Socket # 0
    BY <1>1, <1>4, MadeLinks DEF RecvSucceeds, Control
  <2>2. lost' = lost \/ lost' = [lost EXCEPT ![m_Socket] = @ + 1]
    BY <1>4 DEF RecvSucceeds
  <2>3. sent' = sent /\ cuts' = cuts
    BY <1>4 DEF RecvSucceeds
  <2> QED BY <1>1, <1>2, <2>1, <2>2, <2>3 DEF CountTypes
<1>5. CASE SendSucceeds
  <2>1. PICK n \in 1 .. Parts : Transmit(n)
    BY <1>5 DEF SendSucceeds
  <2>2. m_Socket \in Links /\ cuts' = cuts /\ lost' = lost
    BY <1>1, <1>5 DEF SendSucceeds
  <2>3. Lag(m_Socket) \in Nat /\ n \in 0 .. Parts
    BY <2>2, Streams, SyncAssumption
  <2> QED BY <1>1, <2>1, <2>2, <2>3 DEF Transmit, CountTypes
<1>6. CASE Server
  <2>1. PICK l \in Links : OnMessage(l) \/ PeerCloses(l)
    BY <1>6 DEF Server
  <2>2. cuts' = cuts \/ cuts' = [cuts EXCEPT ![l] = @ + 1]
    BY <2>1 DEF OnMessage, PeerCloses
  <2>3. sent' = sent /\ lost' = lost
    BY <1>6 DEF Server, clientVars, historyVars
  <2> QED BY <1>1, <2>2, <2>3 DEF CountTypes
<1>7. CASE \/ CallCreateConnect \/ CallSendAndRecv \/ SocketFails \/ ConnectFails
           \/ ConnectSucceeds \/ CloseConnection \/ Destroy \/ ConnectsLate
  <2>1. (sent' = sent \/ sent' = Unsent) /\ lost' = lost /\ cuts' = cuts
    BY <1>7 DEF CallCreateConnect, CallSendAndRecv, SocketFails, ConnectFails, ConnectSucceeds,
       CloseConnection, Destroy, ConnectsLate, Forget, historyVars, serverVars
  <2> QED BY <1>1, <2>1 DEF CountTypes
<1> QED BY <1>3, <1>4, <1>5, <1>6, <1>7 DEF Next, InCall

LEMMA StreamTypesStep ==
  ASSUME IInv, Next
  PROVE  StreamTypes'
<1>1. StreamTypes
  BY TypeParts DEF IInv
<1>2. CASE UNCHANGED <<request, response, calling>>
  BY <1>1, <1>2 DEF StreamTypes, Request, Piece
<1>3. CASE CallSendAndRecv
  <2>1. calling'.req = calling.req + 1 /\ calling.req \in Nat
    BY <1>3 DEF CallSendAndRecv, IInv, TypeOK
  <2>2. Request \subseteq Request' /\ Piece \subseteq Piece'
    BY <2>1 DEF Request, Piece
  <2>3. /\ \A l \in Links : request[l] \in Seq(Request) /\ response[l] \in Seq(Piece)
        /\ DOMAIN request = Links /\ DOMAIN response = Links
    BY <1>1 DEF StreamTypes
  <2>4. \A l \in Links : request[l] \in Seq(Request') /\ response[l] \in Seq(Piece')
    BY <2>2, <2>3, SeqMonotonic
  <2>5. request \in [Links -> Seq(Request')] /\ response \in [Links -> Seq(Piece')]
    BY <1>1, <2>4 DEF StreamTypes
  <2> HIDE DEF Request, Piece
  <2> QED BY <1>3, <2>5 DEF CallSendAndRecv, StreamTypes, serverVars
<1>4. CASE SendSucceeds
  <2>1. m_Socket \in Links /\ calling.req # 0
    BY <1>4, MadeLinks DEF SendSucceeds, IInv, Control
  <2>2. PICK n \in 1 .. Parts : Transmit(n)
    BY <1>4 DEF SendSucceeds
  <2>3. request[m_Socket] \in Seq(Request) /\ FirstPieces(n) \in Seq(Request)
    BY <1>1, <2>1, FirstPiecesSeq DEF IInv, StreamTypes
  <2>4. request[m_Socket] \o FirstPieces(n) \in Seq(Request)
    BY <2>3, ConcatProperties
  <2>5. request' \in [Links -> Seq(Request)] /\ response' = response /\ calling' = calling
    BY <1>1, <1>4, <2>1, <2>2, <2>4 DEF SendSucceeds, Transmit, StreamTypes
  <2> QED BY <1>1, <2>5 DEF StreamTypes, Request, Piece
<1>5. CASE RecvSucceeds
  <2>1. m_Socket \in Links
    BY <1>5, RecvSocket DEF RecvSucceeds
  <2>2. response[m_Socket] \in Seq(Piece) /\ Len(response[m_Socket]) \in Nat
    BY <2>1, Streams DEF IInv
  <2>3. PICK n \in 1 .. PerPkgLimit :
          /\ n <= Len(response[m_Socket])
          /\ response' = [response EXCEPT ![m_Socket] =
                            SubSeq(response[m_Socket], n + 1, Len(response[m_Socket]))]
    BY <1>5 DEF RecvSucceeds
  <2>4. n \in 0 .. Len(response[m_Socket])
    BY <2>2, <2>3, SyncAssumption
  <2>5. SubSeq(response[m_Socket], n + 1, Len(response[m_Socket])) \in Seq(Piece)
    BY <2>2, <2>4, Cut
  <2>6. response' \in [Links -> Seq(Piece)]
    BY <1>1, <2>1, <2>3, <2>5 DEF StreamTypes
  <2> QED BY <1>1, <1>5, <2>6 DEF RecvSucceeds, StreamTypes, Request, Piece
<1>6. ASSUME NEW l \in Links, OnMessage(l), calling' = calling PROVE StreamTypes'
  <2>1. request'[l] \in Seq(Request) /\ response'[l] \in Seq(Piece)
    BY <1>6, ServiceAnswers DEF Answers, IInv
  <2>2. /\ request' = [request EXCEPT ![l] = request'[l]]
        /\ response' = [response EXCEPT ![l] = response'[l]]
    BY <1>6, ServiceAnswers DEF Answers, IInv
  <2>3. request' \in [Links -> Seq(Request)] /\ response' \in [Links -> Seq(Piece)]
    BY <1>1, <2>1, <2>2 DEF StreamTypes
  <2> QED BY <1>6, <2>3 DEF StreamTypes, Request, Piece
<1>7. ASSUME NEW l \in Links, PeerCloses(l), calling' = calling PROVE StreamTypes'
  <2>1. request' \in [Links -> Seq(Request)] /\ response' = response
    BY <1>1, <1>7, EmptySeq DEF PeerCloses, StreamTypes
  <2> QED BY <1>1, <1>7, <2>1 DEF StreamTypes, Request, Piece
<1>8. CASE RecvFails
  <2>1. response' \in [Links -> Seq(Piece)] /\ request' = request /\ calling' = calling
    BY <1>1, <1>8, EmptySeq DEF RecvFails, StreamTypes
  <2> QED BY <1>1, <2>1 DEF StreamTypes, Request, Piece
<1>9. CASE CloseConnection \/ Destroy
  <2>1. CloseSocket /\ calling' = calling
    BY <1>9 DEF CloseConnection, Destroy
  <2>2. request' \in [Links -> Seq(Request)] /\ response' \in [Links -> Seq(Piece)]
    BY <1>1, <2>1, EmptySeq DEF CloseSocket, StreamTypes
  <2> QED BY <2>1, <2>2 DEF StreamTypes, Request, Piece
<1> QED
  BY <1>2, <1>3, <1>4, <1>5, <1>6, <1>7, <1>8, <1>9 DEF Next, InCall, Server,
     CallCreateConnect, SocketFails, ConnectFails, ConnectSucceeds, ConnectsLate, SendFails,
     RecvTimesOut, TimesOut, clientVars, serverVars

LEMMA TypeStep ==
  ASSUME IInv, Next
  PROVE  TypeOK'
<1>1. ClientTypes'
  BY TypeParts, ClientTypesStep DEF IInv
<1>2. StreamTypes' /\ CountTypes'
  BY StreamTypesStep, CountTypesStep DEF IInv
<1> QED BY <1>1, <1>2 DEF TypeOK, ClientTypes, StreamTypes, CountTypes

LEMMA ControlStep ==
  ASSUME IInv, Next
  PROVE  Control'
<1> USE DEF Control
<1>1. Control /\ ClientTypes
  BY TypeParts DEF IInv
<1>2. CASE CallCreateConnect \/ CallSendAndRecv
  BY <1>1, <1>2 DEF CallCreateConnect, CallSendAndRecv, Forget, NoAnswer, socketVars, ClientTypes
<1>3. CASE SendFails \/ RecvFails \/ RecvTimesOut
  BY <1>1, <1>3 DEF SendFails, RecvFails, RecvTimesOut, TimesOut, NothingToRead, ReturnError,
     Forget, NoAnswer, socketVars
<1>4. CASE SocketFails \/ ConnectFails \/ ConnectSucceeds
  BY <1>1, <1>4, SyncAssumption DEF SocketFails, ConnectFails, ConnectSucceeds, ClientTypes
<1>5. CASE SendSucceeds \/ RecvSucceeds
  BY <1>1, <1>5 DEF SendSucceeds, Transmit, RecvSucceeds, socketVars
<1>6. CASE CloseConnection \/ Destroy \/ Server \/ ConnectsLate
  BY <1>1, <1>6 DEF CloseConnection, Destroy, CloseSocket, Forget, NoAnswer, Server, ConnectsLate,
     clientVars, socketVars
<1> QED BY <1>2, <1>3, <1>4, <1>5, <1>6 DEF Next, InCall

-----------------------------------------------------------------------------
(* The streams of a link.                                                   *)
LEMMA QuietLink ==
  ASSUME NEW l \in Links, LinkOK(l), request'[l] = request[l], response'[l] = response[l],
         lost'[l] = lost[l], cuts'[l] = cuts[l], ~Waiting(l), ~Waiting(l)'
  PROVE  LinkOK(l)'
BY DEF LinkOK, EndsWhole, Sorted, Backlog, Lag, Waiting

(* A link that nothing is owed on is empty.                                 *)
LEMMA EmptyLink ==
  ASSUME IInv, NEW l \in Links, ~Waiting(l), Lag(l) = 0
  PROVE  request[l] = << >> /\ response[l] = << >>
<1>1. LinkOK(l) /\ TypeOK
  BY DEF IInv
<1>2. /\ Cardinality(Reqs(request[l])) \in Nat /\ Cardinality(Ends(response[l])) \in Nat
      /\ Cardinality(Reqs(request[l])) + Cardinality(Ends(response[l])) <= 0
  BY <1>1, Streams DEF LinkOK
<1>3. Cardinality(Reqs(request[l])) = 0 /\ Cardinality(Ends(response[l])) = 0
  BY <1>2
<1>4. request[l] = << >>
  BY <1>1, <1>3, Streams, ReqsFinite
<1>5. response[l] = << >>
  <2>1. /\ response[l] \in Seq(Piece) /\ Len(response[l]) \in Nat
        /\ Ends(response[l]) = {k \in 1 .. Len(response[l]) : response[l][k].last}
    BY <1>1, Streams, EndsFinite
  <2>2. Ends(response[l]) = {}
    BY <1>3, <2>1, EndsFinite, FS_EmptySet
  <2>3. ASSUME response[l] # << >> PROVE FALSE
    <3>1. Len(response[l]) \in 1 .. Len(response[l])
      BY <2>1, <2>3, EmptySeq
    <3>2. response[l][Len(response[l])].last
      BY <1>1, <2>3 DEF LinkOK, EndsWhole
    <3> QED BY <2>1, <2>2, <3>1, <3>2
  <2> QED BY <2>3
<1> QED BY <1>4, <1>5

(* What is sent lies behind what was sent before.                           *)
LEMMA SendStream ==
  ASSUME IInv, calling.req # 0, NEW l \in Links, NEW n \in 1 .. Parts
  PROVE  LET more == request[l] \o FirstPieces(n)
         IN /\ Cardinality(Reqs(more)) <= Cardinality(Reqs(request[l])) + 1
            /\ Cardinality(Reqs(more)) \in Nat /\ Sorted(more)
<1> DEFINE s == request[l]
           b == FirstPieces(n)
           more == s \o b
           m == calling.req
<1>1. /\ m \in Nat /\ s \in Seq(UpTo(m)) /\ Len(s) \in Nat /\ n \in Nat /\ TypeOK
      /\ b \in Seq(UpTo(m)) /\ Len(b) = n /\ \A k \in 1 .. n : b[k].req = m /\ Sorted(s)
  <2>1. Request = UpTo(m)
    BY DEF Request, UpTo
  <2>2. n \in Nat
    BY SyncAssumption
  <2>3. m \in Nat /\ s \in Seq(UpTo(m)) /\ Len(s) \in Nat /\ Sorted(s) /\ TypeOK
    <3>1. TypeOK /\ LinkOK(l)
      BY DEF IInv
    <3>2. calling.req \in Nat /\ request[l] \in Seq(UpTo(calling.req)) /\ Len(request[l]) \in Nat
      BY <3>1, Streams, Zenon
    <3> QED BY <3>1, <3>2 DEF LinkOK
  <2>4. b \in Seq(Request) /\ Len(b) = n /\ \A k \in 1 .. n : b[k].req = m
    <3>1. /\ FirstPieces(n) \in Seq(Request) /\ Len(FirstPieces(n)) = n
          /\ \A k \in 1 .. n : FirstPieces(n)[k] =
                                 [req |-> calling.req, kind |-> calling.kind, part |-> k]
      BY <2>3, FirstPiecesSeq, Zenon
    <3> QED BY <3>1
  <2> HIDE DEF s, b, m
  <2> QED BY <2>1, <2>2, <2>3, <2>4
<1> HIDE DEF s, b, m
<1>2. /\ more \in Seq(UpTo(m)) /\ Len(more) = Len(s) + n
      /\ \A k \in 1 .. Len(s) + n : more[k] = IF k <= Len(s) THEN s[k] ELSE b[k - Len(s)]
  BY <1>1, ConcatProperties
<1> HIDE DEF more
<1>3. /\ Reqs(more) = {more[k].req : k \in 1 .. Len(more)} /\ IsFiniteSet(Reqs(s))
      /\ Reqs(s) = {s[k].req : k \in 1 .. Len(s)} /\ Cardinality(Reqs(s)) \in Nat
      /\ IsFiniteSet(Reqs(more)) /\ Cardinality(Reqs(more)) \in Nat
      /\ Reqs(s) \subseteq 1 .. m
  BY <1>1, <1>2, ReqsFinite
<1>4. \A k \in 1 .. Len(more) :
        \/ k \in 1 .. Len(s) /\ more[k] = s[k]
        \/ k > Len(s) /\ more[k].req = m
  <2> SUFFICES ASSUME NEW k \in 1 .. Len(more), k > Len(s) PROVE more[k].req = m
    BY <1>1, <1>2
  <2>1. k - Len(s) \in 1 .. n /\ k \in 1 .. Len(s) + n /\ ~(k <= Len(s))
    BY <1>1, <1>2
  <2> QED BY <1>1, <1>2, <2>1
<1>5. Cardinality(Reqs(more)) <= Cardinality(Reqs(s)) + 1
  <2>1. Reqs(more) \subseteq Reqs(s) \cup {m}
    BY <1>3, <1>4
  <2>2. /\ IsFiniteSet(Reqs(s) \cup {m})
        /\ Cardinality(Reqs(s) \cup {m}) <= Cardinality(Reqs(s)) + 1
        /\ Cardinality(Reqs(s) \cup {m}) \in Nat
    <3>1. /\ IsFiniteSet(Reqs(s) \cup {m})
          /\ Cardinality(Reqs(s) \cup {m}) =
               IF m \in Reqs(s) THEN Cardinality(Reqs(s)) ELSE Cardinality(Reqs(s)) + 1
      BY <1>3, FS_AddElement, Zenon
    <3> DEFINE c == Cardinality(Reqs(s))
               d == Cardinality(Reqs(s) \cup {m})
    <3>2. (d = c \/ d = c + 1) /\ c \in Nat
      BY <1>3, <3>1
    <3> HIDE DEF c, d
    <3>3. d <= c + 1 /\ d \in Nat
      BY <3>2
    <3> QED BY <3>1, <3>3 DEF c, d
  <2>3. Cardinality(Reqs(more)) <= Cardinality(Reqs(s) \cup {m})
    BY <2>1, <2>2, FS_Subset
  <2> QED BY <1>3, <2>2, <2>3
<1>6. Sorted(more)
  <2> SUFFICES ASSUME NEW i \in 1 .. Len(more), NEW j \in 1 .. Len(more), i <= j
               PROVE  more[i].req <= more[j].req
    BY DEF Sorted
  <2>1. \A k \in 1 .. Len(s) : s[k].req \in Nat /\ s[k].req <= m
    <3>1. \A k \in 1 .. Len(s) : s[k].req \in 1 .. m
      BY <1>3
    <3> QED BY <1>1, <3>1
  <2>2. CASE j \in 1 .. Len(s)
    <3>1. i \in 1 .. Len(s) /\ more[i] = s[i] /\ more[j] = s[j]
      BY <1>1, <1>2, <1>4, <2>2
    <3> QED BY <1>1, <2>2, <3>1 DEF Sorted
  <2>3. CASE more[j].req = m
    <3>1. more[i].req <= m
      BY <1>1, <1>4, <2>1
    <3> QED BY <2>3, <3>1
  <2> QED BY <1>4, <2>2, <2>3
<1> QED BY <1>3, <1>5, <1>6 DEF s, b, more

LEMMA SendLink ==
  ASSUME IInv, SendSucceeds, NEW l \in Links
  PROVE  LinkOK(l)'
<1>1. LinkOK(l) /\ m_Socket \in Links /\ calling.req # 0 /\ TypeOK
  BY MadeLinks DEF SendSucceeds, IInv, Control
<1>2. PICK n \in 1 .. Parts : Transmit(n)
  BY DEF SendSucceeds
<1>3. UNCHANGED <<response, lost, cuts, calling, m_Socket>> /\ pc = "send" /\ pc' = "recv"
  BY <1>2 DEF SendSucceeds, Transmit, socketVars
<1>4. CASE l # m_Socket
  <2>1. request'[l] = request[l]
    BY <1>1, <1>2, <1>4 DEF Transmit, TypeOK
  <2> QED BY <1>1, <1>3, <1>4, <2>1, QuietLink DEF Waiting
<1>5. CASE l = m_Socket
  <2> DEFINE more == request[l] \o FirstPieces(n)
             r == request'[l]
  <2>1. /\ ~Waiting(l) /\ Waiting(l)' /\ r \in {request[l], more}
        /\ sent' = [parts |-> n, lag |-> Lag(l)] /\ Lag(l)' = Lag(l)
    BY <1>1, <1>2, <1>3, <1>5 DEF Transmit, Waiting, TypeOK, Lag
  <2>2. /\ Cardinality(Reqs(request[l])) \in Nat /\ Cardinality(Ends(response[l])) \in Nat
        /\ Lag(l) \in Nat
        /\ Cardinality(Reqs(request[l])) + Cardinality(Ends(response[l])) <= Lag(l)
    <3>1. Backlog(l) <= Lag(l) + 0
      BY <1>1, <2>1 DEF LinkOK
    <3>2. /\ Cardinality(Reqs(request[l])) \in Nat /\ Cardinality(Ends(response[l])) \in Nat
          /\ Lag(l) \in Nat
          /\ Backlog(l) = Cardinality(Reqs(request[l])) + Cardinality(Ends(response[l]))
      BY <1>1, Streams, Zenon
    <3> QED BY <3>1, <3>2
  <2>3. /\ Cardinality(Reqs(r)) <= Cardinality(Reqs(request[l])) + 1
        /\ Cardinality(Reqs(r)) \in Nat /\ Sorted(r)
    <3>1. /\ Cardinality(Reqs(more)) <= Cardinality(Reqs(request[l])) + 1
          /\ Cardinality(Reqs(more)) \in Nat /\ Sorted(more)
      BY <1>1, SendStream, Zenon
    <3> HIDE DEF more
    <3>2. /\ Cardinality(Reqs(request[l])) <= Cardinality(Reqs(request[l])) + 1
          /\ Cardinality(Reqs(request[l])) \in Nat /\ Sorted(request[l])
      BY <1>1, <2>2 DEF LinkOK
    <3> QED BY <2>1, <3>1, <3>2, Zenon
  <2> HIDE DEF r, more
  <2>4. Backlog(l)' <= Lag(l)' + 1
    <3>1. Backlog(l)' = Cardinality(Reqs(r)) + Cardinality(Ends(response[l]))
      BY <1>3 DEF Backlog, Reqs, Ends, r
    <3> QED BY <2>1, <2>2, <2>3, <3>1
  <2>5. EndsWhole(l)' /\ Sorted(request'[l])
    BY <1>1, <1>3, <2>3 DEF LinkOK, EndsWhole, r
  <2>6. ASSUME sent'.lag = 0 PROVE IsOfCall(l)'
    <3>1. request[l] = << >> /\ response[l] = << >>
      BY <2>1, <2>6, EmptyLink
    <3>2. /\ FirstPieces(n) \in Seq(Request) /\ Len(FirstPieces(n)) = n
          /\ \A k \in 1 .. n : FirstPieces(n)[k] =
                                 [req |-> calling.req, kind |-> calling.kind, part |-> k]
      BY <1>1, FirstPiecesSeq
    <3>3. more = FirstPieces(n)
      BY <3>1, <3>2, ConcatEmptySeq DEF more
    <3>4. response'[l] = << >> /\ Len(response'[l]) = 0
      BY <1>3, <3>1, EmptySeq
    <3>5. CASE r = << >>
      <4>1. Len(r) = 0
        BY <3>5, EmptySeq
      <4> QED BY <3>4, <3>5, <4>1 DEF IsOfCall, r
    <3>6. CASE r = FirstPieces(n)
      <4>1. /\ Len(r) = n
            /\ \A k \in 1 .. n :
                 r[k].req = calling.req /\ r[k].kind = calling.kind /\ r[k].part = k
        BY <3>2, <3>6
      <4>2. sent'.parts = n
        BY <2>1
      <4>3. n = Parts => \A p \in 1 .. Parts : \E k \in 1 .. Len(r) : r[k].part = p
        BY <4>1
      <4> QED BY <1>3, <3>4, <4>1, <4>2, <4>3 DEF IsOfCall, r
    <3> QED BY <2>1, <3>1, <3>3, <3>5, <3>6
  <2> QED BY <2>1, <2>4, <2>5, <2>6 DEF LinkOK
<1> QED BY <1>4, <1>5

(* A call that gives up counts an answer that is still to come.             *)
LEMMA GiveUpLink ==
  ASSUME IInv, pc = "recv", ReturnError(1), UNCHANGED <<request, cuts, m_Socket>>,
         \A k \in Links : (response'[k] = response[k]) \/ (response'[k] = << >> /\ k = m_Socket),
         NEW l \in Links
  PROVE  LinkOK(l)'
<1>1. LinkOK(l) /\ m_Socket \in Links /\ m_Socket # 0
  BY RecvSocket DEF IInv
<1>2. CASE l # m_Socket
  BY <1>1, <1>2, QuietLink DEF ReturnError, Waiting, IInv, TypeOK
<1>3. CASE l = m_Socket
  <2>1. lost'[l] = lost[l] + 1 /\ Waiting(l) /\ ~Waiting(l)'
    BY <1>1, <1>3 DEF ReturnError, Waiting, IInv, TypeOK
  <2>2. /\ Cardinality(Reqs(request[l])) \in Nat /\ Cardinality(Ends(response[l])) \in Nat
        /\ lost[l] \in Nat /\ cuts[l] \in Nat
        /\ Cardinality(Reqs(request[l])) + Cardinality(Ends(response[l])) <= Lag(l) + 1
    BY <1>1, <2>1, Streams DEF IInv, LinkOK
  <2>3. Lag(l)' = Lag(l) + 1 /\ Lag(l) \in Nat
    BY <2>1, <2>2 DEF Lag
  <2>4. Cardinality(Ends(response'[l])) = Cardinality(Ends(response[l]))
          \/ Cardinality(Ends(response'[l])) = 0
    <3>1. Cardinality(Ends(<< >>)) = 0
      BY FS_EmptySet DEF Ends
    <3> QED BY <3>1
  <2>5. Backlog(l)' = Cardinality(Reqs(request[l])) + Cardinality(Ends(response'[l]))
    BY DEF Backlog, Reqs, Ends
  <2>6. Backlog(l)' <= Lag(l)' + 0
    BY <2>2, <2>3, <2>4, <2>5
  <2>7. EndsWhole(l)' /\ Sorted(request'[l])
    BY <1>1 DEF LinkOK, EndsWhole
  <2> QED BY <2>1, <2>6, <2>7 DEF LinkOK
<1> QED BY <1>2, <1>3

LEMMA RecvLink ==
  ASSUME IInv, RecvSucceeds, NEW l \in Links
  PROVE  LinkOK(l)'
<1>1. LinkOK(l) /\ m_Socket \in Links
  BY RecvSocket DEF RecvSucceeds, IInv
<1>2. CASE l # m_Socket
  BY <1>1, <1>2, QuietLink DEF RecvSucceeds, Waiting, IInv, TypeOK
<1>3. CASE l = m_Socket
  <2> DEFINE s == response[l]
             rest(n) == SubSeq(s, n + 1, Len(s))
             asked == Cardinality(Reqs(request[l]))
  <2>1. /\ s \in Seq(Piece) /\ Len(s) \in Nat /\ lost[l] \in Nat /\ cuts[l] \in Nat
        /\ asked \in Nat /\ DOMAIN s = 1 .. Len(s) /\ Cardinality(Ends(s)) \in Nat
        /\ Backlog(l) = asked + Cardinality(Ends(s))
    BY Streams DEF IInv
  <2>2. PICK n \in 1 .. PerPkgLimit :
          /\ n <= Len(s)
          /\ lost' = IF SubSeq(s, 1, n)[n].req = calling.req /\ SubSeq(s, 1, n)[n].last
                     THEN lost ELSE [lost EXCEPT ![l] = @ + 1]
          /\ response' = [response EXCEPT ![l] = rest(n)]
    BY <1>3 DEF RecvSucceeds
  <2>3. n \in 1 .. Len(s) /\ n \in 0 .. Len(s)
    BY <2>1, <2>2, SyncAssumption
  <2>4. /\ SubSeq(s, 1, n)[n] = s[n] /\ rest(n) \in Seq(Piece) /\ Len(rest(n)) = Len(s) - n
        /\ \A k \in 1 .. Len(s) - n : rest(n)[k] = s[n + k]
    BY <2>1, <2>3, Cut
  <2>5. response'[l] = rest(n) /\ request' = request /\ cuts' = cuts
    BY <1>3, <2>2 DEF RecvSucceeds, IInv, TypeOK
  <2>6. /\ Cardinality(Ends(rest(n))) <= IF s[n].last THEN Cardinality(Ends(s)) - 1
                                         ELSE Cardinality(Ends(s))
        /\ Cardinality(Ends(rest(n))) \in Nat
    BY <2>1, <2>3, <2>4, EndsOfRest, EndsFinite
  <2>7. Waiting(l) /\ ~Waiting(l)' /\ asked + Cardinality(Ends(s)) <= lost[l] + cuts[l] + 1
    BY <1>1, <1>3, <2>1 DEF RecvSucceeds, Waiting, LinkOK, Lag
  <2>8. Backlog(l)' = asked + Cardinality(Ends(rest(n)))
    BY <2>5 DEF Backlog, Ends, Reqs
  <2>9. EndsWhole(l)'
    <3>1. CASE rest(n) = << >>
      BY <2>5, <3>1 DEF EndsWhole
    <3>2. CASE rest(n) # << >>
      <4>1. Len(s) - n \in 1 .. Len(s) - n
        <5>1. Len(rest(n)) \in Nat \ {0}
          BY <2>4, <3>2, EmptySeq
        <5> QED BY <2>4, <5>1
      <4>2. rest(n)[Len(rest(n))] = s[Len(s)] /\ s # << >>
        <5> HIDE DEF s, rest
        <5>1. n + (Len(s) - n) = Len(s) /\ Len(s) # 0
          BY <2>1, <2>3
        <5>2. rest(n)[Len(s) - n] = s[n + (Len(s) - n)]
          BY <2>4, <4>1
        <5> QED BY <2>4, <5>1, <5>2, EmptySeq
      <4>3. s[Len(s)].last
        BY <1>1, <4>2 DEF LinkOK, EndsWhole
      <4> QED BY <2>5, <4>2, <4>3 DEF EndsWhole
    <3> QED BY <3>1, <3>2
  <2> HIDE DEF rest, s, asked
  <2>10. Backlog(l)' <= lost'[l] + cuts'[l]
    <3> DEFINE x == Cardinality(Ends(s))
               y == Cardinality(Ends(rest(n)))
               c == cuts[l]
               d == lost[l]
    <3>1. /\ asked \in Nat /\ x \in Nat /\ y \in Nat /\ c \in Nat /\ d \in Nat
          /\ asked + x <= d + c + 1 /\ Backlog(l)' = asked + y /\ cuts'[l] = c
      BY <2>1, <2>5, <2>6, <2>7, <2>8
    <3>2. CASE s[n].req = calling.req /\ s[n].last
      <4>1. lost'[l] = d /\ y <= x - 1
        BY <2>2, <2>4, <2>6, <3>2
      <4> HIDE DEF x, y, c, d
      <4> QED BY <3>1, <4>1
    <3>3. CASE ~(s[n].req = calling.req /\ s[n].last)
      <4>1. lost'[l] = d + 1
        BY <2>2, <2>4, <3>3 DEF IInv, TypeOK
      <4>2. y <= x
        BY <2>1, <2>6
      <4> HIDE DEF x, y, c, d
      <4> QED BY <3>1, <4>1, <4>2
    <3> QED BY <3>2, <3>3
  <2>11. Sorted(request'[l]) /\ Lag(l)' + 0 = lost'[l] + cuts'[l]
    <3>1. lost'[l] \in Nat /\ cuts'[l] \in Nat
      <4>1. lost \in [Links -> Nat]
        BY DEF IInv, TypeOK
      <4>2. lost' \in [Links -> Nat]
        BY <2>1, <2>2, <4>1
      <4> QED BY <2>1, <2>5, <4>2
    <3> QED BY <1>1, <2>5, <3>1 DEF LinkOK, Lag
  <2> QED BY <2>7, <2>9, <2>10, <2>11 DEF LinkOK
<1> QED BY <1>2, <1>3

(* When the link carries nothing but the current call's pieces, so does the *)
(* answer to a part of them; an answer to all the pieces is of its kind.    *)
LEMMA AnswerOfCall ==
  ASSUME IInv, NEW l \in Links, IsOfCall(l), NEW n \in 1 .. Len(request[l]),
         NEW batch \in Seq(Requests), Answers(l, n, batch),
         NEW p \in 1 .. Len(Answer(batch))
  PROVE  /\ Answer(batch)[p].req = calling.req
         /\ Answer(batch)[p].kind \in {AnswerKind(calling.kind), "other"}
         /\ sent.parts = Parts /\ Lag(l) = 0 /\ ~CutAt(request[l], n) =>
              Answer(batch)[p].kind = AnswerKind(calling.kind)
<1>1. /\ batch # << >> /\ Len(batch) = n /\ Len(batch) \in 1 .. Len(batch)
      /\ Len(request[l]) \in Nat /\ calling.kind \in Kinds
      /\ \A k \in 1 .. n : batch[k] = request[l][k]
  <2>1. Len(request[l]) \in Nat /\ calling.kind \in Kinds
    <3>1. TypeOK
      BY DEF IInv
    <3>2. Len(request[l]) \in Nat
      BY <3>1, Streams, Zenon
    <3> QED BY <3>1, <3>2 DEF TypeOK
  <2>2. batch # << >> /\ Len(batch) = n /\ \A k \in 1 .. n : batch[k] = request[l][k]
    BY DEF Answers
  <2>3. Len(batch) \in 1 .. Len(batch)
    <3> DEFINE m == Len(request[l])
    <3>1. m \in Nat /\ n \in 1 .. m
      BY <2>1
    <3> HIDE DEF m
    <3>2. n \in 1 .. n
      BY <3>1
    <3> QED BY <2>2, <3>2
  <2> QED BY <2>1, <2>2, <2>3
<1>2. \A k \in 1 .. Len(batch) : batch[k].kind = calling.kind /\ batch[k].req = calling.req
  <2> SUFFICES ASSUME NEW k \in 1 .. n
               PROVE  batch[k].kind = calling.kind /\ batch[k].req = calling.req
    BY <1>1
  <2>1. k \in 1 .. Len(request[l])
    BY <1>1
  <2> QED BY <1>1, <2>1 DEF IsOfCall
<1>3. Answer(batch)[p] = [req |-> batch[Len(batch)].req, kind |-> Dispatch(batch),
                          last |-> p = Len(Answer(batch))]
  BY <1>1, AnswerShape
<1>4. Dispatch(batch) \in {AnswerKind(calling.kind), "other"}
  BY <1>1, <1>2, DispatchKind
<1>5. ASSUME sent.parts = Parts, Lag(l) = 0, ~CutAt(request[l], n)
      PROVE  Dispatch(batch) = AnswerKind(calling.kind)
  <2>1. n = Len(request[l])
    <3>1. ASSUME n < Len(request[l]) PROVE FALSE
      <4>1. n + 1 \in 1 .. Len(request[l])
        <5> DEFINE m == Len(request[l])
        <5>1. m \in Nat /\ n \in 1 .. m /\ n < m
          BY <1>1, <3>1
        <5> HIDE DEF m
        <5> QED BY <5>1 DEF m
      <4>2. request[l][n + 1].req = calling.req /\ request[l][n].req = calling.req
        BY <4>1 DEF IsOfCall
      <4> QED BY <1>5, <3>1, <4>2 DEF CutAt
    <3> QED BY <1>1, <3>1
  <2>2. request[l] # << >>
    BY <1>1, <2>1, EmptySeq
  <2>3. \A q \in 1 .. Parts : \E k \in 1 .. Len(request[l]) : request[l][k].part = q
    BY <1>5, <2>2 DEF IsOfCall
  <2>4. \A q \in 1 .. Parts : \E k \in 1 .. Len(batch) : batch[k].part = q
    BY <1>1, <2>1, <2>3
  <2>5. batch \in Seq(Requests) /\ batch # << >>
    BY <1>1
  <2>6. calling.kind \in Kinds
    <3>1. batch[Len(batch)] \in Requests
      BY <1>1, <2>5, ElementOfSeq
    <3> QED BY <1>1, <1>2, <3>1 DEF Requests
  <2>7. \A req :
          /\ \A k \in 1 .. Len(batch) : batch[k].kind = calling.kind /\ batch[k].req = req
          /\ \A q \in 1 .. Parts : \E k \in 1 .. Len(batch) : batch[k].part = q
          => Dispatch(batch) = AnswerKind(calling.kind)
    BY <2>5, <2>6, DispatchKind, Zenon
  <2> QED BY <1>2, <2>4, <2>7, Zenon
<1>6. /\ Answer(batch)[p].req = batch[Len(batch)].req
      /\ Answer(batch)[p].kind = Dispatch(batch)
  BY <1>3
<1>7. batch[Len(batch)].req = calling.req
  BY <1>1, <1>2
<1> QED BY <1>4, <1>5, <1>6, <1>7

(* OnMessage answers once for all of the requests it has bytes of.          *)
LEMMA AnswerLink ==
  ASSUME IInv, NEW l \in Links, OnMessage(l), UNCHANGED clientVars
  PROVE  LinkOK(l)'
<1>0. TypeOK /\ LinkOK(l)
  BY DEF IInv
<1>1. PICK n \in 1 .. Len(request[l]), batch \in Seq(Requests) : Answers(l, n, batch)
  BY <1>0, ServiceAnswers
<1> DEFINE s == response[l]
           a == Answer(batch)
           asked == Cardinality(Reqs(request[l]))
           ends == Cardinality(Ends(s))
           w == IF Waiting(l) THEN 1 ELSE 0
<1>2. /\ s \in Seq(Piece) /\ Len(s) \in Nat /\ lost[l] \in Nat /\ cuts[l] \in Nat
      /\ Len(request[l]) \in Nat /\ ends \in Nat /\ asked \in Nat
      /\ Backlog(l) = asked + ends
      /\ calling.req \in Nat /\ request[l] \in Seq(UpTo(calling.req))
  BY <1>0, Streams
<1>3. /\ Cardinality(Ends(s \o a)) = ends + 1
      /\ s \o a # << >> /\ (s \o a)[Len(s \o a)].last
  BY <1>1, <1>2, EndsOfMore DEF Answers
<1>4. /\ response'[l] = s \o a /\ Len(request'[l]) = Len(request[l]) - n
      /\ request'[l] = SubSeq(request[l], n + 1, Len(request[l]))
      /\ cuts'[l] = IF CutAt(request[l], n) THEN cuts[l] + 1 ELSE cuts[l]
  BY <1>0, <1>1 DEF Answers, TypeOK
<1>5. /\ Waiting(l)' = Waiting(l) /\ lost' = lost /\ calling' = calling /\ sent' = sent
  BY DEF Waiting, clientVars, socketVars, historyVars
<1>6. /\ Cardinality(Reqs(request'[l])) <= IF CutAt(request[l], n) THEN asked ELSE asked - 1
      /\ Cardinality(Reqs(request'[l])) \in Nat
      /\ Sorted(request'[l])
  <2>1. Sorted(request[l])
    BY <1>0 DEF LinkOK
  <2>2. /\ Cardinality(Reqs(SubSeq(request[l], n + 1, Len(request[l])))) <=
             IF CutAt(request[l], n) THEN asked ELSE asked - 1
        /\ Sorted(SubSeq(request[l], n + 1, Len(request[l])))
    BY <1>2, <2>1, ReqsOfRest, Zenon
  <2>3. request'[l] \in Seq(Request) /\ Request = UpTo(calling.req)
    BY <1>1 DEF Answers, Request, UpTo
  <2>4. Cardinality(Reqs(request'[l])) \in Nat
    BY <1>2, <2>3, ReqsFinite
  <2> QED BY <1>4, <2>2, <2>4
<1>7. Backlog(l)' <= Lag(l)' + IF Waiting(l)' THEN 1 ELSE 0
  <2>1. /\ Backlog(l)' = Cardinality(Reqs(request'[l])) + (ends + 1)
        /\ Lag(l)' = lost[l] + cuts'[l] /\ w \in Nat
        /\ asked + ends <= lost[l] + cuts[l] + w
    <3>1. Backlog(l)' = Cardinality(Reqs(request'[l])) + Cardinality(Ends(response'[l]))
      BY DEF Backlog, Ends, Reqs
    <3>2. Backlog(l) <= Lag(l) + w
      BY <1>0 DEF LinkOK
    <3> QED BY <1>2, <1>3, <1>4, <1>5, <3>1, <3>2 DEF Lag
  <2> HIDE DEF asked, ends, s, w
  <2>2. Backlog(l)' <= Lag(l)' + w
    <3> DEFINE x == Cardinality(Reqs(request'[l]))
               c == cuts[l]
               y == lost[l]
    <3>1. /\ x \in Nat /\ c \in Nat /\ y \in Nat /\ asked \in Nat /\ ends \in Nat /\ w \in Nat
          /\ asked + ends <= y + c + w /\ Backlog(l)' = x + (ends + 1)
      BY <1>2, <1>6, <2>1
    <3>2. CASE CutAt(request[l], n)
      <4>1. Lag(l)' = y + (c + 1) /\ x <= asked
        BY <1>4, <1>6, <2>1, <3>2
      <4> HIDE DEF x, c, y
      <4> QED BY <3>1, <4>1
    <3>3. CASE ~CutAt(request[l], n)
      <4>1. Lag(l)' = y + c /\ x <= asked - 1
        BY <1>4, <1>6, <2>1, <3>3
      <4> HIDE DEF x, c, y
      <4> QED BY <3>1, <4>1
    <3> QED BY <3>2, <3>3
  <2> QED BY <1>5, <2>2 DEF w
<1>8. EndsWhole(l)'
  BY <1>3, <1>4 DEF EndsWhole
<1>9. ASSUME Waiting(l), sent.lag = 0
      PROVE  IsOfCall(l)'
  <2>1. IsOfCall(l)
    BY <1>0, <1>9 DEF LinkOK
  <2>2. \A k \in 1 .. Len(request'[l]) :
          request'[l][k].req = calling.req /\ request'[l][k].kind = calling.kind
    <3> SUFFICES ASSUME NEW k \in 1 .. Len(request'[l])
                 PROVE  request'[l][k].req = calling.req /\ request'[l][k].kind = calling.kind
      OBVIOUS
    <3>1. k \in 1 .. Len(request[l]) - n /\ n + k \in 1 .. Len(request[l])
      <4> DEFINE m == Len(request[l])
      <4>1. m \in Nat /\ n \in 1 .. m /\ k \in 1 .. m - n
        BY <1>2, <1>4
      <4> HIDE DEF m
      <4>2. n + k \in 1 .. m
        BY <4>1
      <4> QED BY <4>1, <4>2 DEF m
    <3>2. request'[l][k] = request[l][n + k]
      BY <1>1, <3>1 DEF Answers
    <3> QED BY <2>1, <3>1, <3>2 DEF IsOfCall
  <2>3. a \in Seq(Piece) /\ Len(a) \in Nat
    BY <1>1, LenProperties DEF Answers
  <2>4. /\ Len(s \o a) = Len(s) + Len(a)
        /\ \A k \in 1 .. Len(s) + Len(a) : (s \o a)[k] = IF k <= Len(s) THEN s[k] ELSE a[k - Len(s)]
    BY <1>2, <2>3, ConcatProperties
  <2> DEFINE Whole == sent.parts = Parts /\ Lag(l) = 0 /\ ~CutAt(request[l], n)
  <2>5. \A q \in 1 .. Len(a) :
          /\ a[q].req = calling.req /\ a[q].kind \in {AnswerKind(calling.kind), "other"}
          /\ Whole => a[q].kind = AnswerKind(calling.kind)
    BY <1>1, <2>1, AnswerOfCall
  <2>6. \A k \in 1 .. Len(s) :
          /\ s[k].req = calling.req /\ s[k].kind \in {AnswerKind(calling.kind), "other"}
          /\ Whole => s[k].kind = AnswerKind(calling.kind)
    BY <2>1 DEF IsOfCall
  <2>7. sent'.parts = Parts /\ Lag(l)' = 0 => Whole
    <3> SUFFICES ASSUME sent'.parts = Parts, Lag(l)' = 0 PROVE Whole
      OBVIOUS
    <3>1. lost[l] + cuts'[l] = 0
      BY <1>5 DEF Lag
    <3>2. CASE CutAt(request[l], n)
      BY <1>2, <1>4, <3>1, <3>2
    <3>3. CASE ~CutAt(request[l], n)
      BY <1>2, <1>4, <1>5, <3>1, <3>3 DEF Lag
    <3> QED BY <3>2, <3>3
  <2> HIDE DEF s, a, Whole
  <2>8. \A k \in 1 .. Len(s \o a) :
          /\ (s \o a)[k].req = calling.req
          /\ (s \o a)[k].kind \in {AnswerKind(calling.kind), "other"}
          /\ Whole => (s \o a)[k].kind = AnswerKind(calling.kind)
    <3> SUFFICES ASSUME NEW k \in 1 .. Len(s) + Len(a)
                 PROVE  /\ (s \o a)[k].req = calling.req
                        /\ (s \o a)[k].kind \in {AnswerKind(calling.kind), "other"}
                        /\ Whole => (s \o a)[k].kind = AnswerKind(calling.kind)
      BY <2>4
    <3>1. CASE k <= Len(s)
      <4>1. k \in 1 .. Len(s) /\ (s \o a)[k] = s[k]
        BY <1>2, <2>4, <3>1
      <4> QED BY <2>6, <4>1
    <3>2. CASE ~(k <= Len(s))
      <4>1. k - Len(s) \in 1 .. Len(a) /\ (s \o a)[k] = a[k - Len(s)]
        BY <1>2, <2>3, <2>4, <3>2
      <4> QED BY <2>5, <4>1
    <3> QED BY <3>1, <3>2
  <2>9. Whole => request'[l] = << >>
    <3> SUFFICES ASSUME Whole PROVE request'[l] = << >>
      OBVIOUS
    <3>1. ASSUME n < Len(request[l]) PROVE FALSE
      <4>1. n + 1 \in 1 .. Len(request[l])
        BY <1>2, <3>1
      <4>2. request[l][n + 1].req = calling.req /\ request[l][n].req = calling.req
        BY <2>1, <4>1 DEF IsOfCall
      <4> QED BY <3>1, <4>2 DEF CutAt, Whole
    <3>2. Len(request'[l]) = 0
      BY <1>2, <1>4, <3>1
    <3> QED BY <1>1, <3>2, EmptySeq DEF Answers
  <2>10. response'[l] = s \o a
    BY <1>4 DEF s, a
  <2> QED BY <1>5, <2>2, <2>7, <2>8, <2>9, <2>10 DEF IsOfCall
<1> QED BY <1>5, <1>6, <1>7, <1>8, <1>9 DEF LinkOK

(* A link whose streams are emptied, or that the peer drops.                *)
LEMMA DropLink ==
  ASSUME IInv, NEW l \in Links, request'[l] = << >>, response'[l] \in {<< >>, response[l]},
         UNCHANGED <<cuts, lost, calling, sent>>, Waiting(l)' = Waiting(l)
  PROVE  LinkOK(l)'
<1>0. TypeOK /\ LinkOK(l)
  BY DEF IInv
<1> DEFINE asked == Cardinality(Reqs(request[l]))
           ends == Cardinality(Ends(response[l]))
           w == IF Waiting(l) THEN 1 ELSE 0
<1>1. asked \in Nat /\ ends \in Nat /\ Lag(l) \in Nat /\ Backlog(l) = asked + ends
  BY <1>0, Streams
<1>2. Backlog(l)' <= Lag(l)' + IF Waiting(l)' THEN 1 ELSE 0
  <2>1. /\ Cardinality(Reqs(request'[l])) = 0
        /\ Cardinality(Ends(response'[l])) \in {0, ends}
    <3>1. Reqs(<< >>) = {} /\ Ends(<< >>) = {}
      BY DEF Reqs, Ends
    <3> QED BY <3>1, FS_EmptySet
  <2>2. Backlog(l)' = Cardinality(Reqs(request'[l])) + Cardinality(Ends(response'[l]))
    BY DEF Backlog, Reqs, Ends
  <2>3. asked + ends <= Lag(l) + w /\ w \in Nat /\ Lag(l)' = Lag(l)
    BY <1>0, <1>1 DEF LinkOK, Lag
  <2> HIDE DEF asked, ends, w
  <2>4. Backlog(l)' <= Lag(l)' + w
    BY <1>1, <2>1, <2>2, <2>3
  <2> QED BY <2>4 DEF w
<1>3. EndsWhole(l)' /\ Sorted(request'[l])
  BY <1>0, EmptySeq DEF LinkOK, EndsWhole, Sorted
<1>4. ASSUME Waiting(l), sent.lag = 0 PROVE IsOfCall(l)'
  <2>1. IsOfCall(l)
    BY <1>0, <1>4 DEF LinkOK
  <2>2. Len(request'[l]) = 0
    BY EmptySeq
  <2>3. response'[l] = response[l] \/ Len(response'[l]) = 0
    BY EmptySeq
  <2> QED BY <2>1, <2>2, <2>3 DEF IsOfCall, Lag
<1> QED BY <1>2, <1>3, <1>4 DEF LinkOK

LEMMA LinkStep ==
  ASSUME IInv, Next, NEW l \in Links
  PROVE  LinkOK(l)'
<1>1. LinkOK(l) /\ TypeOK
  BY DEF IInv
<1>2. CASE \/ CallCreateConnect \/ CallSendAndRecv \/ SocketFails \/ ConnectFails
           \/ ConnectSucceeds
  <2>1. /\ request'[l] = request[l] /\ response'[l] = response[l] /\ lost'[l] = lost[l]
        /\ cuts'[l] = cuts[l] /\ ~Waiting(l) /\ ~Waiting(l)'
    BY <1>2 DEF CallCreateConnect, CallSendAndRecv, SocketFails, ConnectFails, ConnectSucceeds,
       Waiting, serverVars, historyVars
  <2> QED BY <1>1, <2>1, QuietLink
<1>3. CASE SendFails
  <2>1. lost' = lost
    <3>1. lost \in [Links -> Nat] /\ (m_Socket # 0 => m_Socket \in Links)
      BY <1>1, MadeLinks DEF TypeOK
    <3> QED BY <1>3, <3>1 DEF SendFails, ReturnError
  <2>2. ~Waiting(l) /\ ~Waiting(l)' /\ request' = request /\ response' = response /\ cuts' = cuts
    BY <1>3 DEF SendFails, ReturnError, Waiting, serverVars
  <2> QED BY <1>1, <2>1, <2>2, QuietLink
<1>4. CASE RecvTimesOut
  <2>1. CASE UNCHANGED <<pc, sent, lost>>
    <3>1. UNCHANGED <<request, response, cuts, calling, m_Socket, pc, sent, lost>>
      BY <1>4, <2>1 DEF RecvTimesOut, TimesOut, serverVars, socketVars
    <3> QED BY <1>1, <3>1 DEF LinkOK, EndsWhole, Sorted, IsOfCall, Backlog, Lag, Waiting
  <2>2. CASE ReturnError(1)
    <3>1. pc = "recv" /\ UNCHANGED <<request, response, cuts, m_Socket>>
      BY <1>4 DEF RecvTimesOut, TimesOut, NothingToRead, serverVars, socketVars
    <3> QED BY <2>2, <3>1, GiveUpLink
  <2> QED BY <1>4, <2>1, <2>2 DEF RecvTimesOut, TimesOut
<1>5. CASE RecvFails
  <2>1. pc = "recv" /\ UNCHANGED <<request, cuts, m_Socket>> /\ ReturnError(1)
    BY <1>5 DEF RecvFails, socketVars
  <2>2. \A k \in Links : (response'[k] = response[k]) \/ (response'[k] = << >> /\ k = m_Socket)
    BY <1>1, <1>5 DEF RecvFails, TypeOK
  <2> QED BY <2>1, <2>2, GiveUpLink
<1>6. CASE Server
  <2>1. PICK m \in Links : OnMessage(m) \/ PeerCloses(m)
    BY <1>6 DEF Server
  <2>2. /\ UNCHANGED clientVars /\ Waiting(l)' = Waiting(l)
        /\ UNCHANGED <<lost, calling, sent>>
    BY <1>6 DEF Server, clientVars, socketVars, historyVars, Waiting
  <2>3. CASE m = l /\ OnMessage(m)
    BY <2>2, <2>3, AnswerLink
  <2>4. CASE m = l /\ PeerCloses(m)
    <3>1. request'[l] = << >> /\ response'[l] \in {<< >>, response[l]} /\ cuts' = cuts
      BY <1>1, <2>4 DEF PeerCloses, TypeOK
    <3> QED BY <2>2, <3>1, DropLink
  <2>5. CASE m # l
    <3>1. request'[l] = request[l] /\ response'[l] = response[l] /\ cuts'[l] = cuts[l]
      BY <1>1, <2>1, <2>5 DEF OnMessage, PeerCloses, TypeOK
    <3> QED BY <1>1, <2>2, <3>1 DEF LinkOK, EndsWhole, Sorted, IsOfCall, Backlog, Lag
  <2> QED BY <2>1, <2>3, <2>4, <2>5
<1>7. CASE CloseConnection \/ Destroy
  <2>1. /\ CloseSocket /\ pc = "idle" /\ pc' # "recv" /\ cuts' = cuts /\ lost' = lost
    BY <1>7 DEF CloseConnection, Destroy
  <2>2. ~Waiting(l) /\ ~Waiting(l)'
    BY <2>1 DEF Waiting
  <2>3. CASE l = m_Socket
    <3>1. request'[l] = << >> /\ response'[l] = << >>
      BY <2>1, <2>3 DEF CloseSocket
    <3>2. Lag(l)' \in Nat /\ Backlog(l)' = 0
      <4>1. Backlog(l)' = Cardinality(Reqs(request'[l])) + Cardinality(Ends(response'[l]))
        BY DEF Backlog, Reqs, Ends
      <4>2. Cardinality(Reqs(request'[l])) = 0 /\ Cardinality(Ends(response'[l])) = 0
        <5>1. Reqs(<< >>) = {} /\ Ends(<< >>) = {}
          BY DEF Reqs, Ends
        <5> QED BY <3>1, <5>1, FS_EmptySet
      <4>3. Lag(l)' = Lag(l) /\ Lag(l) \in Nat
        BY <1>1, <2>1, Streams DEF Lag
      <4> QED BY <4>1, <4>2, <4>3
    <3>3. EndsWhole(l)' /\ Sorted(request'[l])
      BY <3>1, EmptySeq DEF EndsWhole, Sorted
    <3> QED BY <2>2, <3>2, <3>3 DEF LinkOK
  <2>4. CASE l # m_Socket
    <3>1. request'[l] = request[l] /\ response'[l] = response[l]
      BY <2>1, <2>4 DEF CloseSocket
    <3> QED BY <1>1, <2>1, <2>2, <3>1, QuietLink
  <2> QED BY <2>3, <2>4
<1>8. CASE ConnectsLate
  <2>1. /\ UNCHANGED <<request, response, cuts, calling, m_Socket, pc, sent, lost>>
    BY <1>8 DEF ConnectsLate, historyVars
  <2> QED BY <1>1, <2>1 DEF LinkOK, EndsWhole, Sorted, IsOfCall, Backlog, Lag, Waiting
<1> QED
  BY <1>2, <1>3, <1>4, <1>5, <1>6, <1>7, <1>8, SendLink, RecvLink DEF Next, InCall

-----------------------------------------------------------------------------
(* What the owner is given.                                                 *)
LEMMA OwnAnswerStep ==
  ASSUME IInv, Next
  PROVE  OwnAnswer'
<1>1. OwnAnswer /\ Control
  BY DEF IInv
<1>2. CASE Forget
  BY <1>2 DEF OwnAnswer, Forget, NoAnswer
<1>3. CASE SocketFails \/ ConnectFails \/ ConnectSucceeds \/ Server \/ ConnectsLate
  <2>1. UNCHANGED <<answer, sent, calling>>
    BY <1>3 DEF SocketFails, ConnectFails, ConnectSucceeds, Server, ConnectsLate, historyVars,
       clientVars
  <2> QED BY <1>1, <2>1 DEF OwnAnswer
<1>4. CASE RecvTimesOut
  <2>1. CASE UNCHANGED <<pc, answer, sent>>
    BY <1>1, <1>4, <2>1 DEF OwnAnswer, RecvTimesOut, TimesOut
  <2> QED BY <1>2, <1>4, <2>1 DEF RecvTimesOut, TimesOut, ReturnError
<1>5. CASE RecvSucceeds
  <2>1. m_Socket \in Links /\ Waiting(m_Socket) /\ LinkOK(m_Socket)
    BY <1>5, RecvSocket DEF RecvSucceeds, IInv, Waiting
  <2> DEFINE s == response[m_Socket]
             whole == sent = [parts |-> Parts, lag |-> Lag(m_Socket)]
  <2>2. PICK n \in 1 .. PerPkgLimit :
          n <= Len(s) /\ answer' = [ok |-> TRUE, data |-> SubSeq(s, 1, n), whole |-> whole]
    BY <1>5 DEF RecvSucceeds
  <2>3. s \in Seq(Piece) /\ Len(s) \in Nat /\ n \in 0 .. Len(s)
    BY <2>1, <2>2, Streams, SyncAssumption DEF IInv
  <2>4. /\ SubSeq(s, 1, n) \in Seq(Piece) /\ Len(SubSeq(s, 1, n)) = n
        /\ \A k \in 1 .. n : SubSeq(s, 1, n)[k] = s[k]
    BY <2>3, Cut
  <2>5. DOMAIN SubSeq(s, 1, n) = 1 .. n
    BY <2>4, LenProperties
  <2>6. ASSUME sent.lag = 0, NEW k \in 1 .. n
        PROVE  /\ s[k].req = calling.req /\ s[k].kind \in {AnswerKind(calling.kind), "other"}
               /\ whole => s[k].kind = AnswerKind(calling.kind)
    <3>1. k \in 1 .. Len(s) /\ IsOfCall(m_Socket)
      BY <2>1, <2>3, <2>6 DEF LinkOK
    <3>2. whole => sent.parts = Parts /\ Lag(m_Socket) = 0
      BY <2>6
    <3> QED BY <3>1, <3>2 DEF IsOfCall
  <2>7. calling' = calling /\ sent' = sent
    BY <1>5 DEF RecvSucceeds
  <2> HIDE DEF s, whole
  <2>8. answer'.data = SubSeq(s, 1, n) /\ answer'.whole = whole
    BY <2>2
  <2> QED BY <2>4, <2>5, <2>6, <2>7, <2>8 DEF OwnAnswer
<1>6. CASE SendSucceeds
  <2>1. ~answer.ok /\ answer' = answer
    BY <1>1, <1>6 DEF SendSucceeds, Control
  <2> QED BY <2>1 DEF OwnAnswer
<1> QED
  BY <1>2, <1>3, <1>4, <1>5, <1>6 DEF Next, InCall, CallCreateConnect, CallSendAndRecv, SendFails,
     RecvFails, ReturnError, CloseConnection, Destroy

LEMMA OpenFinite ==
  ASSUME TypeOK
  PROVE  IsFiniteSet(open) /\ Cardinality(open) \in Nat /\ refused \in Nat /\ again \in Nat
<1>1. IsFiniteSet(1 .. created) /\ open \subseteq 1 .. created
  BY FS_Interval DEF TypeOK
<1> QED BY <1>1, FS_Subset, FS_CardinalityType DEF TypeOK

(* Closing m_Socket takes it off the open descriptors.                      *)
LEMMA OpenWithout ==
  ASSUME TypeOK, Control, pc # "gone"
  PROVE  /\ Cardinality(open \ {m_Socket}) \in Nat
         /\ Cardinality(open \ {m_Socket}) <=
              IF m_Socket # 0 THEN Cardinality(open) - 1 ELSE Cardinality(open)
<1>1. IsFiniteSet(open) /\ Cardinality(open) \in Nat /\ open \subseteq 1 .. created
  BY OpenFinite DEF TypeOK
<1>2. CASE m_Socket # 0
  <2>1. m_Socket \in open
    BY <1>2 DEF Control
  <2>2. /\ IsFiniteSet(open \ {m_Socket})
        /\ Cardinality(open \ {m_Socket}) = Cardinality(open) - 1
    BY <1>1, <2>1, FS_RemoveElement
  <2> QED BY <1>1, <1>2, <2>2, FS_CardinalityType
<1>3. CASE m_Socket = 0
  <2>1. open \ {m_Socket} = open
    BY <1>1, <1>3
  <2> QED BY <1>1, <1>3, <2>1
<1> QED BY <1>2, <1>3

LEMMA LeaksStep ==
  ASSUME IInv, Next
  PROVE  LeaksCounted'
<1> DEFINE c == Cardinality(open)
<1>1. LeaksCounted /\ TypeOK /\ Control /\ c \in Nat /\ refused \in Nat /\ again \in Nat
  BY OpenFinite DEF IInv
<1>2. CASE UNCHANGED <<open, refused, again>> /\ (Kept => Kept')
  BY <1>1, <1>2 DEF LeaksCounted
<1>3. CASE CallCreateConnect
  <2>1. /\ open' = open /\ refused' = refused /\ ~Kept'
        /\ again' = again + IF Kept THEN 1 ELSE 0
    BY <1>1, <1>3 DEF CallCreateConnect, Kept, socketVars
  <2> QED BY <1>1, <2>1 DEF LeaksCounted
<1>4. CASE SocketFails
  <2>1. ~Kept /\ UNCHANGED <<open, refused, again>>
    BY <1>1, <1>4 DEF SocketFails, Kept, Control, historyVars
  <2> QED BY <1>2, <2>1
<1>5. CASE ConnectFails \/ ConnectSucceeds
  <2>1. open' = open \cup {created + 1} /\ created + 1 \notin open /\ ~Kept /\ again' = again
    <3>1. created + 1 \notin open
      BY <1>1 DEF TypeOK
    <3>2. ~Kept
      BY <1>1, <1>5 DEF ConnectFails, ConnectSucceeds, Kept, Control
    <3> QED BY <1>5, <3>1, <3>2 DEF ConnectFails, ConnectSucceeds, historyVars
  <2>2. Cardinality(open') = c + 1
    BY <1>1, <2>1, OpenFinite, FS_AddElement
  <2>3. c <= refused + again
    BY <1>1, <2>1 DEF LeaksCounted
  <2>4. CASE ConnectFails
    <3>1. refused' = refused + 1
      BY <2>4 DEF ConnectFails
    <3> HIDE DEF c
    <3>2. Cardinality(open') <= refused' + again'
      BY <1>1, <2>1, <2>2, <2>3, <3>1
    <3>3. refused' + again' \in Nat /\ Cardinality(open') \in Nat
      BY <1>1, <2>1, <2>2, <3>1
    <3> QED BY <3>2, <3>3 DEF LeaksCounted
  <2>5. CASE ConnectSucceeds
    <3>1. refused' = refused /\ Kept'
      BY <1>1, <2>5 DEF ConnectSucceeds, Kept, historyVars, TypeOK
    <3> HIDE DEF c
    <3> QED BY <1>1, <2>1, <2>2, <2>3, <3>1 DEF LeaksCounted
  <2> QED BY <1>5, <2>4, <2>5
<1>6. CASE CloseConnection \/ Destroy
  <2>1. /\ open' = open \ {m_Socket} /\ UNCHANGED <<refused, again>> /\ ~Kept' /\ pc = "idle"
    BY <1>6 DEF CloseConnection, Destroy, CloseSocket, Kept
  <2>2. /\ Cardinality(open') \in Nat
        /\ Cardinality(open') <= IF m_Socket # 0 THEN c - 1 ELSE c
    BY <1>1, <2>1, OpenWithout
  <2>3. Kept => m_Socket # 0
    BY DEF Kept
  <2> HIDE DEF c
  <2>4. Cardinality(open') <= refused + again
    <3>1. c <= refused + again + IF Kept THEN 1 ELSE 0
      BY <1>1 DEF LeaksCounted, c
    <3>2. CASE Kept
      BY <1>1, <2>2, <2>3, <3>1, <3>2
    <3>3. CASE ~Kept
      BY <1>1, <2>2, <3>1, <3>3
    <3> QED BY <3>2, <3>3
  <2> QED BY <1>1, <2>1, <2>4 DEF LeaksCounted
<1>7. CASE \/ CallSendAndRecv \/ SendSucceeds \/ SendFails \/ RecvSucceeds \/ RecvTimesOut
           \/ RecvFails \/ Server \/ ConnectsLate
  <2>1. UNCHANGED <<m_IsConnected, m_Socket, open, refused, again>>
    BY <1>7 DEF CallSendAndRecv, SendSucceeds, SendFails, RecvSucceeds, RecvTimesOut, TimesOut,
       RecvFails, Server, ConnectsLate, clientVars, socketVars, historyVars
  <2>2. pc' \notin {"create", "gone"} \/ pc' = pc
    BY <1>7 DEF CallSendAndRecv, SendSucceeds, Transmit, SendFails, RecvSucceeds, RecvTimesOut,
       TimesOut, RecvFails, ReturnError, Server, ConnectsLate, clientVars
  <2> QED BY <1>2, <2>1, <2>2 DEF Kept
<1> QED BY <1>3, <1>4, <1>5, <1>6, <1>7 DEF Next, InCall

-----------------------------------------------------------------------------
LEMMA InitIInv == Init => IInv
<1> SUFFICES ASSUME Init PROVE IInv
  OBVIOUS
<1>1. TypeOK
  <2>1. << >> \in Seq(Request) /\ << >> \in Seq(Piece)
    BY EmptySeq
  <2>2. request \in [Links -> Seq(Request)] /\ response \in [Links -> Seq(Piece)]
    BY <2>1 DEF Init
  <2>3. calling \in [req : 0 .. MaxRequests, kind : Kinds]
    BY SyncAssumption DEF Init
  <2>4. ClientTypes
    <3>1. /\ 0 \in 0 .. 0 /\ 0 \in 0 .. MaxSockets /\ 0 \in 0 .. tryTimes - 1 /\ 0 \in Nat
      BY SyncAssumption
    <3>2. m_Socket = 0 /\ created = 0 /\ tries = 0 /\ refused = 0 /\ again = 0
      BY DEF Init
    <3>3. open = {} /\ up = {} /\ made = {} /\ m_IsConnected = FALSE /\ pc = "idle"
      BY DEF Init
    <3> QED BY <2>3, <3>1, <3>2, <3>3 DEF ClientTypes
  <2>5. CountTypes
    BY SyncAssumption DEF Init, CountTypes, Unsent
  <2> QED BY <2>2, <2>4, <2>5, TypeParts DEF StreamTypes
<1>2. Control /\ OwnAnswer
  BY DEF Init, Control, OwnAnswer, NoAnswer
<1>3. LeaksCounted
  BY FS_EmptySet DEF Init, LeaksCounted, Kept
<1>4. ASSUME NEW l \in Links PROVE LinkOK(l)
  <2>1. request[l] = << >> /\ response[l] = << >> /\ lost[l] = 0 /\ cuts[l] = 0 /\ ~Waiting(l)
    BY DEF Init, Waiting
  <2>2. Cardinality(Ends(response[l])) = 0 /\ Cardinality(Reqs(request[l])) = 0
    <3>1. Reqs(<< >>) = {} /\ Ends(<< >>) = {}
      BY DEF Reqs, Ends
    <3> QED BY <2>1, <3>1, FS_EmptySet
  <2>3. Backlog(l) <= Lag(l)
    BY <2>1, <2>2 DEF Backlog, Ends, Reqs, Lag
  <2> QED BY <2>1, <2>3, EmptySeq DEF LinkOK, EndsWhole, Sorted, Lag
<1> QED BY <1>1, <1>2, <1>3, <1>4 DEF IInv

(* The inductive invariant of the client and the streams of its links.      *)
THEOREM SyncInvariance == Spec => []IInv
<1>1. IInv /\ [Next]_vars => IInv'
  <2>1. CASE Next
    <3> SUFFICES ASSUME IInv, Next PROVE IInv'
      BY <2>1
    <3>1. \A l \in Links : LinkOK(l)'
      BY LinkStep
    <3> QED BY <3>1, TypeStep, ControlStep, OwnAnswerStep, LeaksStep DEF IInv
  <2>2. CASE UNCHANGED vars
    <3> SUFFICES ASSUME IInv PROVE IInv'
      OBVIOUS
    <3> USE <2>2 DEF vars, serverVars, clientVars, socketVars, historyVars
    <3>1. TypeOK'
      BY DEF IInv, TypeOK, Request, Piece
    <3>2. Control' /\ OwnAnswer' /\ LeaksCounted'
      BY DEF IInv, Control, OwnAnswer, LeaksCounted, Kept
    <3>3. ASSUME NEW l \in Links PROVE LinkOK(l)'
      <4>1. LinkOK(l)
        BY DEF IInv
      <4>2. Waiting(l)' = Waiting(l) /\ Lag(l)' = Lag(l) /\ Backlog(l)' = Backlog(l)
        BY DEF Waiting, Lag, Backlog
      <4>3. EndsWhole(l)' = EndsWhole(l) /\ IsOfCall(l)' = IsOfCall(l)
        BY DEF EndsWhole, IsOfCall, Lag
      <4> QED BY <4>1, <4>2, <4>3 DEF LinkOK
    <3> QED BY <3>1, <3>2, <3>3 DEF IInv
  <2> QED BY <2>1, <2>2
<1> QED BY InitIInv, <1>1, PTL DEF Spec

(* Every variable keeps its type, for any number of sockets and requests.   *)
THEOREM SyncTypeCorrect == Spec => []TypeOK
<1>1. IInv => TypeOK
  BY DEF IInv
<1> QED BY SyncInvariance, <1>1, PTL

(* On a connection where every earlier call took the whole of its answer    *)
(* and no request was read in two, SendAndRecv returns answers to its own   *)
(* request, and of its kind when it went out and was read in one.           *)
THEOREM SyncAnswerIsOwn == Spec => []AnswerIsOwn
<1>1. IInv => AnswerIsOwn
  BY DEF IInv, OwnAnswer, AnswerIsOwn, AnswerKind
<1> QED BY SyncInvariance, <1>1, PTL

(* The connection is out of step by at most one answer per call that left   *)
(* its own unread and one per read that ended inside a request.             *)
THEOREM SyncBacklogIsLost == Spec => []BacklogIsLost
<1>1. IInv => BacklogIsLost
  BY DEF IInv, LinkOK, Waiting, BacklogIsLost
<1> QED BY SyncInvariance, <1>1, PTL

(* Descriptors leak only by a CreateConnect on top of one that failed, or   *)
(* on top of a connection.                                                  *)
THEOREM SyncReconnectsLeak == Spec => []OnlyReconnectsLeak
<1>1. ASSUME IInv PROVE OnlyReconnectsLeak
  <2> DEFINE c == Cardinality(open)
             d == Cardinality(open \ {m_Socket})
  <2>1. TypeOK /\ Control /\ c <= refused + again + IF Kept THEN 1 ELSE 0
    BY <1>1 DEF IInv, LeaksCounted
  <2>2. c \in Nat /\ refused \in Nat /\ again \in Nat
    BY <2>1, OpenFinite
  <2>3. CASE Kept
    <3>1. d \in Nat /\ d <= c - 1
      BY <2>1, <2>3, OpenWithout DEF Kept
    <3> HIDE DEF c, d
    <3>2. d <= refused + again
      BY <2>1, <2>2, <2>3, <3>1
    <3> QED BY <3>2 DEF OnlyReconnectsLeak, d
  <2>4. CASE ~Kept
    <3>1. d \in Nat /\ d <= c
      BY <2>1, OpenFinite, FS_Subset, FS_CardinalityType
    <3> HIDE DEF c, d
    <3>2. d <= refused + again
      BY <2>1, <2>2, <2>4, <3>1
    <3> QED BY <3>2 DEF OnlyReconnectsLeak, d
  <2> QED BY <2>3, <2>4
<1> QED BY SyncInvariance, <1>1, PTL

=============================================================================
