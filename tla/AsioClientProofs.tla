-------------------------- MODULE AsioClientProofs ---------------------------
(***************************************************************************)
(* Proofs about AsioClient for any number of sends and chunks.  That the   *)
(* server gets the messages in order needs the numbers along their whole   *)
(* way: the handlers still posted, then the queue, then what the kernel    *)
(* has taken follow one another without a gap, and a write whose handler   *)
(* is ready decides whether the front of the queue is among the taken.     *)
(* The same holds of the chunks that are printed, buffered and in the      *)
(* inbox, as long as only one read shares the buffer.                      *)
(***************************************************************************)
EXTENDS AsioClient, SequenceTheorems, FiniteSetTheorems, TLAPS

(* The messages in handlers that are posted: close is posted last.          *)
Queued == IF posted # << >> /\ posted[Len(posted)] = 0 THEN Len(posted) - 1 ELSE Len(posted)

(* The messages that have left the write queue.                             *)
Popped == sends - Queued - Len(write_msgs_)

PostOrder ==
  /\ \A k \in 1 .. Len(posted) : posted[k] = 0 => k = Len(posted)
  /\ \A k \in 1 .. Queued : posted[k] = sends - Queued + k
  /\ main \notin {"join", "end"} => \A k \in 1 .. Len(posted) : posted[k] # 0

OneWrite ==
  /\ Len(writing) + Len(written) <= 1
  /\ writing # << >> => write_msgs_ # << >> /\ writing[1] = write_msgs_[1]
  /\ written # << >> => write_msgs_ # << >>

(* The write that completed without an error has taken the front message.   *)
FrontTaken == written # << >> /\ written[1] = TRUE

WriteOrder ==
  /\ \A k \in 1 .. Len(write_msgs_) : write_msgs_[k] = Popped + k
  /\ \A k \in 1 .. Len(taken) : taken[k] = k
  /\ Len(taken) = Popped + IF FrontTaken THEN 1 ELSE 0

(* Before there was a connection nothing has gone out, though a write may    *)
(* wait for the connect, and there is an address left to try.               *)
Unmade == link \in {"resolving", "connecting", "failed"}

BeforeConnected ==
  /\ Unmade => drained = 0 /\ taken = << >> /\ ~FrontTaken
  /\ link \in {"resolving", "failed"} => writing = << >>
  /\ link \in {"resolving", "connecting"} => tried < Endpoints

(* A write that failed without a socket was the first, and stays the last.  *)
Stuck == wedged => write_msgs_ # << >> /\ writing = << >> /\ written = << >> /\ taken = << >>

Reads == reading + Len(readDone)

ReadCount ==
  /\ Reads <= drained + IF link \in {"resolving", "connecting"} THEN 0 ELSE 1
  /\ ~parallel => Reads <= 1

(* The read that completed without an error has filled the buffer.          *)
Filled == readDone # << >> /\ readDone[1] = TRUE

ReadOrder ==
  /\ \A k \in 1 .. Len(inbox) : inbox[k] = chunks - Len(inbox) + k
  /\ ~parallel =>
       /\ \A k \in 1 .. Len(printed) : printed[k] = k
       /\ Len(printed) + (IF Filled THEN 1 ELSE 0) = chunks - Len(inbox)
       /\ Filled => read_buffer_ = Len(printed) + 1

IInv ==
  TypeOK /\ PostOrder /\ OneWrite /\ WriteOrder /\ BeforeConnected /\ Stuck /\ ReadCount
         /\ ReadOrder

-----------------------------------------------------------------------------
(* Sequences.                                                               *)
LEMMA Popping ==
  ASSUME NEW S, NEW s \in Seq(S), s # << >>
  PROVE  /\ Len(s) \in Nat \ {0} /\ Head(s) = s[1] /\ s[1] \in S
         /\ Tail(s) \in Seq(S) /\ Len(Tail(s)) = Len(s) - 1
         /\ \A k \in 1 .. Len(s) - 1 : Tail(s)[k] = s[k + 1]
<1>1. Len(s) \in Nat \ {0}
  BY EmptySeq
<1>2. 1 \in 1 .. Len(s)
  BY <1>1
<1>3. s[1] \in S
  BY <1>2, ElementOfSeq
<1>4. /\ Tail(s) \in Seq(S) /\ Len(Tail(s)) = Len(s) - 1
      /\ \A k \in 1 .. Len(Tail(s)) : Tail(s)[k] = s[k + 1]
  BY HeadTailProperties
<1>5. Head(s) = s[1]
  OBVIOUS
<1> QED BY <1>1, <1>3, <1>4, <1>5

LEMMA Pushing ==
  ASSUME NEW S, NEW s \in Seq(S), NEW e \in S
  PROVE  /\ Append(s, e) \in Seq(S) /\ Len(Append(s, e)) = Len(s) + 1 /\ Append(s, e) # << >>
         /\ \A k \in 1 .. Len(s) + 1 : Append(s, e)[k] = IF k = Len(s) + 1 THEN e ELSE s[k]
         /\ \A k \in 1 .. Len(s) : Append(s, e)[k] = s[k]
         /\ s = << >> => Append(s, e)[1] = e
BY AppendProperties, LenProperties, EmptySeq

LEMMA LastOrBefore ==
  ASSUME NEW n \in Nat
  PROVE  \A k \in 1 .. n + 1 : k = n + 1 \/ k \in 1 .. n
OBVIOUS

LEMMA Lengths ==
  ASSUME TypeOK
  PROVE  /\ Len(posted) \in Nat /\ DOMAIN posted = 1 .. Len(posted)
         /\ Len(write_msgs_) \in Nat /\ DOMAIN write_msgs_ = 1 .. Len(write_msgs_)
         /\ Len(writing) \in Nat /\ DOMAIN writing = 1 .. Len(writing)
         /\ Len(written) \in Nat /\ Len(readDone) \in Nat
         /\ Len(taken) \in Nat /\ DOMAIN taken = 1 .. Len(taken) /\ Len(inbox) \in Nat
         /\ Len(printed) \in Nat /\ DOMAIN printed = 1 .. Len(printed)
         /\ sends \in Nat /\ chunks \in Nat
BY LenProperties, AsioAssumption DEF TypeOK

LEMMA ErrorsSeq ==
  ASSUME NEW n \in Nat
  PROVE  /\ Errors(n) \in Seq(BOOLEAN) /\ Len(Errors(n)) = n
         /\ \A k \in 1 .. n : Errors(n)[k] = FALSE
BY DEF Errors, Error

(* Errors behind a row of completed operations keep what its first one is.  *)
LEMMA ErrorsBehind ==
  ASSUME NEW s \in Seq(BOOLEAN), NEW n \in Nat
  PROVE  LET t == s \o Errors(n)
         IN /\ t \in Seq(BOOLEAN) /\ Len(t) = Len(s) + n
            /\ s # << >> => t # << >> /\ t[1] = s[1]
            /\ s = << >> /\ t # << >> => t[1] = FALSE
<1> DEFINE t == s \o Errors(n)
<1>1. Errors(n) \in Seq(BOOLEAN) /\ Len(Errors(n)) = n /\ \A k \in 1 .. n : Errors(n)[k] = FALSE
  BY ErrorsSeq
<1>2. /\ t \in Seq(BOOLEAN) /\ Len(t) = Len(s) + n /\ Len(s) \in Nat
      /\ \A k \in 1 .. Len(s) + n : t[k] = IF k <= Len(s) THEN s[k] ELSE Errors(n)[k - Len(s)]
  <2>1. Len(s) \in Nat
    BY LenProperties
  <2>2. /\ t \in Seq(BOOLEAN) /\ Len(t) = Len(s) + Len(Errors(n))
        /\ \A k \in 1 .. Len(s) + Len(Errors(n)) :
             t[k] = IF k <= Len(s) THEN s[k] ELSE Errors(n)[k - Len(s)]
    <3>1. Errors(n) \in Seq(BOOLEAN)
      BY <1>1
    <3> QED BY <3>1, ConcatProperties
  <2> HIDE DEF t
  <2> QED BY <1>1, <2>1, <2>2
<1> HIDE DEF t
<1>3. s # << >> => t # << >> /\ t[1] = s[1]
  <2> SUFFICES ASSUME s # << >> PROVE t # << >> /\ t[1] = s[1]
    OBVIOUS
  <2>1. Len(s) >= 1
    BY EmptySeq
  <2>2. 1 \in 1 .. Len(s) + n /\ 1 <= Len(s) /\ Len(t) # 0
    BY <1>2, <2>1
  <2> QED BY <1>2, <2>2, EmptySeq
<1>4. s = << >> /\ t # << >> => t[1] = FALSE
  <2> SUFFICES ASSUME s = << >>, t # << >> PROVE t[1] = FALSE
    OBVIOUS
  <2>1. Len(s) = 0 /\ Len(t) \in Nat \ {0}
    BY <1>2, EmptySeq
  <2>2. 1 \in 1 .. n /\ 1 \in 1 .. Len(s) + n /\ ~(1 <= Len(s)) /\ 1 - Len(s) = 1
    BY <1>2, <2>1
  <2> QED BY <1>1, <1>2, <2>2
<1> QED BY <1>2, <1>3, <1>4 DEF t

-----------------------------------------------------------------------------
(* What closing, reading and writing do to the outstanding operations.      *)
FirstOf(s, t) ==
  /\ s # << >> => t # << >> /\ t[1] = s[1]
  /\ s = << >> /\ t # << >> => t[1] = FALSE

LEMMA CloseEffect ==
  ASSUME TypeOK, NEW w \in Seq(BOOLEAN), NEW r \in Seq(BOOLEAN),
         Close([written |-> w, readDone |-> r]), link # "resolving"
  PROVE  /\ link' = "closed" /\ writing' = << >> /\ reading' = 0
         /\ written' \in Seq(BOOLEAN) /\ Len(written') = Len(w) + Len(writing)
         /\ readDone' \in Seq(BOOLEAN) /\ Len(readDone') = Len(r) + reading
         /\ FirstOf(w, written') /\ FirstOf(r, readDone')
<1>1. Len(writing) \in Nat /\ reading \in Nat
  BY Lengths DEF TypeOK
<1>2. /\ link' = "closed" /\ writing' = << >> /\ reading' = 0
      /\ written' = w \o Errors(Len(writing)) /\ readDone' = r \o Errors(reading)
  BY DEF Close
<1> QED BY <1>1, <1>2, ErrorsBehind DEF FirstOf

LEMMA ReadEffect ==
  ASSUME TypeOK, NEW r \in Seq(BOOLEAN), DoRead(r)
  PROVE  /\ reading' \in Nat /\ readDone' \in Seq(BOOLEAN) /\ parallel' \in BOOLEAN
         /\ reading' + Len(readDone') = reading + Len(r) + 1
         /\ FirstOf(r, readDone')
         /\ ~parallel' => ~parallel /\ reading' + Len(readDone') <= 1
<1>1. reading \in Nat /\ Len(r) \in Nat
  BY LenProperties DEF TypeOK
<1>2. \/ reading' = reading + 1 /\ readDone' = r
      \/ reading' = reading /\ readDone' = Append(r, FALSE)
  BY DEF DoRead, Error
<1>3. /\ Append(r, FALSE) \in Seq(BOOLEAN) /\ Len(Append(r, FALSE)) = Len(r) + 1
      /\ FirstOf(r, Append(r, FALSE))
  <2>1. /\ Append(r, FALSE) \in Seq(BOOLEAN) /\ Len(Append(r, FALSE)) = Len(r) + 1
        /\ Append(r, FALSE) # << >> /\ (r = << >> => Append(r, FALSE)[1] = FALSE)
        /\ \A k \in 1 .. Len(r) : Append(r, FALSE)[k] = r[k]
    <3>1. \A e \in BOOLEAN :
            /\ Append(r, e) \in Seq(BOOLEAN) /\ Len(Append(r, e)) = Len(r) + 1
            /\ Append(r, e) # << >> /\ \A k \in 1 .. Len(r) : Append(r, e)[k] = r[k]
            /\ r = << >> => Append(r, e)[1] = e
      BY Pushing
    <3>2. /\ Append(r, FALSE) \in Seq(BOOLEAN) /\ Len(Append(r, FALSE)) = Len(r) + 1
          /\ Append(r, FALSE) # << >>
          /\ \A k \in 1 .. Len(r) : Append(r, FALSE)[k] = r[k]
      BY <3>1, Zenon
    <3>3. r = << >> => Append(r, FALSE)[1] = FALSE
      BY <3>1
    <3> QED BY <3>2, <3>3
  <2>2. r # << >> => 1 \in 1 .. Len(r)
    BY <1>1, EmptySeq
  <2> QED BY <2>1, <2>2 DEF FirstOf
<1>4. /\ reading' \in Nat /\ readDone' \in Seq(BOOLEAN)
      /\ reading' + Len(readDone') = reading + Len(r) + 1
  <2>1. CASE reading' = reading + 1 /\ readDone' = r
    BY <1>1, <2>1
  <2>2. CASE reading' = reading /\ readDone' = Append(r, FALSE)
    <3>1. readDone' \in Seq(BOOLEAN) /\ Len(readDone') = Len(r) + 1
      BY <1>3, <2>2
    <3> QED BY <1>1, <2>2, <3>1
  <2> QED BY <1>2, <2>1, <2>2
<1>6. FirstOf(r, readDone')
  BY <1>2, <1>3 DEF FirstOf
<1>7. parallel' = (parallel \/ reading' + Len(readDone') > 1)
  BY DEF DoRead
<1>8. parallel' \in BOOLEAN /\ (~parallel' => ~parallel /\ ~(reading' + Len(readDone') > 1))
  BY <1>7
<1> QED BY <1>1, <1>4, <1>6, <1>8, LenProperties

LEMMA WriteEffect ==
  ASSUME TypeOK, NEW S, writing = << >>, DoWrite(<< >>), write_msgs_' \in Seq(S), write_msgs_' # << >>
  PROVE  /\ writing' \in Seq(S) /\ written' \in Seq(BOOLEAN)
         /\ Len(writing') + Len(written') = 1
         /\ writing' # << >> => writing'[1] = write_msgs_'[1]
         /\ written' # << >> => written'[1] = FALSE
         /\ ~Open => writing' = << >>
<1>1. Head(write_msgs_') = write_msgs_'[1] /\ write_msgs_'[1] \in S
  BY Popping
<1>2. << >> \in Seq(S) /\ << >> \in Seq(BOOLEAN) /\ Len(<< >>) = 0
  BY EmptySeq
<1>3. CASE Open
  <2>1. writing' = Append(<< >>, write_msgs_'[1]) /\ written' = << >>
    BY <1>1, <1>3 DEF DoWrite
  <2> QED BY <1>1, <1>2, <1>3, <2>1, Pushing
<1>4. CASE ~Open
  <2>1. writing' = << >> /\ written' = Append(<< >>, FALSE)
    BY <1>4 DEF DoWrite, Error
  <2> QED BY <1>2, <2>1, Pushing
<1> QED BY <1>3, <1>4

-----------------------------------------------------------------------------
(* The parts of the type invariant.                                         *)
MainTypes ==
  /\ main \in {"start", "input", "stop", "close", "join", "end"}
  /\ sends \in 0 .. MaxSends /\ running \in BOOLEAN /\ tried \in 0 .. Endpoints
  /\ link \in {"resolving", "connecting", "connected", "failed", "closed"}
  /\ timer \in {"none", "armed", "fired", "cancelled", "off"}
  /\ drained \in Nat /\ wedged \in BOOLEAN /\ revived \in BOOLEAN

SendTypes == posted \in Seq(0 .. sends) /\ write_msgs_ \in Seq(1 .. sends)

WriteTypes == writing \in Seq(1 .. sends) /\ written \in Seq(BOOLEAN) /\ taken \in Seq(1 .. sends)

ReadTypes == reading \in Nat /\ readDone \in Seq(BOOLEAN) /\ parallel \in BOOLEAN

TextTypes ==
  /\ chunks \in 0 .. MaxChunks /\ inbox \in Seq(1 .. chunks)
  /\ read_buffer_ \in 0 .. chunks /\ printed \in Seq(0 .. chunks)

LEMMA TypeParts == TypeOK <=> MainTypes /\ SendTypes /\ WriteTypes /\ ReadTypes /\ TextTypes
BY DEF TypeOK, MainTypes, SendTypes, WriteTypes, ReadTypes, TextTypes

LEMMA MainTypesStep ==
  ASSUME MainTypes, BeforeConnected, Next
  PROVE  MainTypes'
<1> USE DEF MainTypes
<1>1. CASE StartTimer \/ Quit \/ StopTimer \/ PostClose \/ Join
  BY <1>1 DEF StartTimer, Quit, StopTimer, PostClose, Join, writeVars, readVars
<1>2. CASE Send
  BY <1>2, AsioAssumption DEF Send, writeVars, readVars
<1>3. CASE Resolved \/ Connected
  BY <1>3 DEF Resolved, Connected, mainVars, writeVars, readVars
<1>9. CASE ConnectFails
  <2>1. tried' = tried + 1 /\ tried < Endpoints
    BY <1>9 DEF ConnectFails, BeforeConnected
  <2>2. tried' \in 0 .. Endpoints
    BY <2>1, AsioAssumption
  <2>3. link' \in {"connecting", "failed"}
    BY <1>9 DEF ConnectFails
  <2>4. UNCHANGED <<main, sends, running, timer, drained, wedged, revived>>
    BY <1>9 DEF ConnectFails, mainVars
  <2> QED BY <2>2, <2>3, <2>4
<1>4. CASE RunSend \/ OnRead
  BY <1>4 DEF RunSend, Enqueue, OnRead, mainVars, writeVars, readVars
<1>5. CASE OnWritten
  <2>1. drained' = drained \/ drained' = drained + 1
    BY <1>5 DEF OnWritten
  <2>2. UNCHANGED <<main, sends, running, tried, link, timer, wedged, revived>>
    BY <1>5 DEF OnWritten, mainVars
  <2> QED BY <2>1, <2>2
<1>6. CASE RunClose \/ OnWriteError \/ OnReadError \/ PeerCloses
  BY <1>6 DEF RunClose, OnWriteError, OnReadError, PeerCloses, Close, mainVars
<1>7. CASE OnTimer \/ RunReturns \/ Expire
  BY <1>7 DEF OnTimer, RunReturns, Expire, mainVars, writeVars, readVars
<1>8. CASE WriteCompletes \/ ReadCompletes \/ ServerSends
  BY <1>8 DEF WriteCompletes, ReadCompletes, ServerSends, mainVars, writeVars, readVars
<1> QED BY <1>1, <1>2, <1>3, <1>4, <1>5, <1>6, <1>7, <1>8, <1>9 DEF Next, Handlers

-----------------------------------------------------------------------------
(* The messages that are posted.                                            *)
LEMMA PostStep ==
  ASSUME IInv, Next
  PROVE  /\ PostOrder' /\ SendTypes'
         /\ Popped' = Popped + IF OnWritten THEN 1 ELSE 0
<1>1. /\ posted \in Seq(0 .. sends) /\ Len(posted) \in Nat /\ sends \in Nat
      /\ write_msgs_ \in Seq(1 .. sends) /\ Len(write_msgs_) \in Nat
      /\ Queued \in Int /\ PostOrder
  BY Lengths DEF IInv, TypeOK, Queued
<1>2. ASSUME UNCHANGED <<posted, sends>>, main \in {"join", "end"} => main' \in {"join", "end"}
      PROVE  PostOrder' /\ Queued' = Queued
  <2>1. Queued' = Queued
    BY <1>2 DEF Queued
  <2>2. /\ \A k \in 1 .. Len(posted') : posted'[k] = 0 => k = Len(posted')
        /\ \A k \in 1 .. Queued' : posted'[k] = sends' - Queued' + k
    BY <1>1, <1>2, <2>1 DEF PostOrder
  <2>3. main' \notin {"join", "end"} => \A k \in 1 .. Len(posted') : posted'[k] # 0
    BY <1>1, <1>2 DEF PostOrder
  <2> QED BY <2>1, <2>2, <2>3 DEF PostOrder
<1>3. ASSUME ~OnWritten, UNCHANGED <<posted, sends, write_msgs_>>,
             main \in {"join", "end"} => main' \in {"join", "end"}
      PROVE  PostOrder' /\ SendTypes' /\ Popped' = Popped + 0
  <2>1. SendTypes' /\ Popped' = sends - Queued - Len(write_msgs_)
    BY <1>1, <1>2, <1>3 DEF SendTypes, Popped
  <2> QED BY <1>1, <1>2, <1>3, <2>1 DEF Popped
<1>4. CASE Send
  <2>1. /\ posted' = Append(posted, sends + 1) /\ sends' = sends + 1 /\ main = "input"
        /\ main' = main /\ write_msgs_' = write_msgs_ /\ ~OnWritten
    <3>1. sends' = sends + 1 /\ sends' # sends
      BY <1>1, <1>4 DEF Send
    <3>2. ~OnWritten
      BY <3>1 DEF OnWritten, mainVars
    <3> QED BY <1>4, <3>1, <3>2 DEF Send, writeVars
  <2>2. posted \in Seq(0 .. sends + 1) /\ write_msgs_ \in Seq(1 .. sends + 1)
    <3>1. 0 .. sends \subseteq 0 .. sends + 1 /\ 1 .. sends \subseteq 1 .. sends + 1
      BY <1>1
    <3> QED BY <1>1, <3>1, SeqMonotonic
  <2>3. /\ posted' \in Seq(0 .. sends + 1) /\ Len(posted') = Len(posted) + 1 /\ posted' # << >>
        /\ \A k \in 1 .. Len(posted) : posted'[k] = posted[k]
        /\ posted'[Len(posted) + 1] = sends + 1
    <3>1. sends + 1 \in 0 .. sends + 1
      BY <1>1
    <3> QED BY <2>1, <2>2, <3>1, AppendProperties
  <2>4. \A k \in 1 .. Len(posted) : posted[k] # 0
    BY <1>1, <2>1 DEF PostOrder
  <2>5. Queued = Len(posted) /\ Queued' = Len(posted) + 1
    <3>1. posted # << >> => Len(posted) \in 1 .. Len(posted)
      BY <1>1, EmptySeq
    <3> QED BY <1>1, <2>3, <2>4, <3>1 DEF Queued
  <2>6. \A k \in 1 .. Len(posted) + 1 : posted'[k] = sends - Len(posted) + k
    <3>1. \A k \in 1 .. Len(posted) : posted'[k] = sends - Len(posted) + k
      BY <1>1, <2>3, <2>5 DEF PostOrder
    <3>2. sends + 1 = sends - Len(posted) + (Len(posted) + 1)
      BY <1>1
    <3> QED BY <2>3, <3>1, <3>2, LastOrBefore
  <2>7. \A k \in 1 .. Len(posted) + 1 : posted'[k] # 0
    <3>1. \A k \in 1 .. Len(posted) : posted'[k] # 0
      BY <2>3, <2>4
    <3> QED BY <1>1, <2>3, <3>1, LastOrBefore
  <2>8. PostOrder'
    <3>1. \A k \in 1 .. Queued' : posted'[k] = sends' - Queued' + k
      <4>1. (sends + 1) - (Len(posted) + 1) = sends - Len(posted)
        BY <1>1
      <4>2. sends' - Queued' = sends - Len(posted)
        <5>1. sends' = sends + 1 /\ Queued' = Len(posted) + 1
          BY <2>1, <2>5
        <5> QED BY <4>1, <5>1, Zenon
      <4> QED BY <2>5, <2>6, <4>2
    <3> QED BY <2>1, <2>3, <2>7, <3>1 DEF PostOrder
  <2> QED BY <1>1, <2>1, <2>2, <2>3, <2>5, <2>8 DEF SendTypes, Popped
<1>5. CASE PostClose
  <2>1. /\ posted' = Append(posted, 0) /\ sends' = sends /\ main = "close"
        /\ write_msgs_' = write_msgs_ /\ ~OnWritten
    BY <1>5 DEF PostClose, OnWritten, mainVars, writeVars
  <2>2. /\ posted' \in Seq(0 .. sends) /\ Len(posted') = Len(posted) + 1 /\ posted' # << >>
        /\ \A k \in 1 .. Len(posted) : posted'[k] = posted[k]
        /\ posted'[Len(posted) + 1] = 0
    <3>1. 0 \in 0 .. sends /\ posted \in Seq(0 .. sends)
      BY <1>1
    <3>2. /\ posted' \in Seq(0 .. sends) /\ Len(posted') = Len(posted) + 1
          /\ \A k \in 1 .. Len(posted) : posted'[k] = posted[k]
          /\ posted'[Len(posted) + 1] = 0
      BY <2>1, <3>1, AppendProperties
    <3>3. posted' # << >>
      BY <1>1, <3>2, EmptySeq
    <3> QED BY <3>2, <3>3
  <2>3. \A k \in 1 .. Len(posted) : posted[k] # 0
    BY <1>1, <2>1 DEF PostOrder
  <2>4. Queued = Len(posted) /\ Queued' = Len(posted)
    <3>1. posted # << >> => Len(posted) \in 1 .. Len(posted)
      BY <1>1, EmptySeq
    <3> QED BY <1>1, <2>2, <2>3, <3>1 DEF Queued
  <2>5. PostOrder'
    <3>1. \A k \in 1 .. Len(posted) + 1 : posted'[k] = 0 => k = Len(posted) + 1
      BY <1>1, <2>2, <2>3, LastOrBefore
    <3>2. main' = "join"
      BY <1>5 DEF PostClose
    <3> QED BY <1>1, <2>1, <2>2, <2>4, <3>1, <3>2 DEF PostOrder
  <2> QED BY <1>1, <2>1, <2>2, <2>4, <2>5 DEF SendTypes, Popped
<1>6. CASE RunSend
  <2>1. /\ posted # << >> /\ posted[1] # 0 /\ posted' = Tail(posted) /\ sends' = sends
        /\ write_msgs_' = Append(write_msgs_, posted[1]) /\ main' = main /\ ~OnWritten
    <3>1. posted # << >> /\ Head(posted) # 0 /\ posted' = Tail(posted) /\ sends' = sends
          /\ write_msgs_' = Append(write_msgs_, Head(posted)) /\ main' = main
      BY <1>6 DEF RunSend, Enqueue, mainVars
    <3>2. ~OnWritten
      <4>1. ASSUME OnWritten PROVE FALSE
        <5>1. posted' = posted
          BY <4>1 DEF OnWritten
        <5> QED BY <1>1, <3>1, <5>1, Popping
      <4> QED BY <4>1
    <3> QED BY <1>1, <3>1, <3>2, Popping
  <2>2. /\ Len(posted) \in Nat \ {0} /\ posted[1] \in 1 .. sends
        /\ posted' \in Seq(0 .. sends) /\ Len(posted') = Len(posted) - 1
        /\ \A k \in 1 .. Len(posted) - 1 : posted'[k] = posted[k + 1]
    BY <1>1, <2>1, Popping
  <2>3. Queued' = Queued - 1 /\ Queued >= 1
    <3>1. CASE Len(posted) = 1
      <4>1. posted' = << >>
        BY <2>2, <3>1, EmptySeq
      <4> QED BY <2>1, <2>2, <3>1, <4>1 DEF Queued
    <3>2. CASE Len(posted) # 1
      <4>1. /\ Len(posted) - 1 \in 1 .. Len(posted) - 1 /\ (Len(posted) - 1) + 1 = Len(posted)
            /\ posted' # << >>
        BY <2>2, <3>2, EmptySeq
      <4>2. posted'[Len(posted')] = posted[Len(posted)]
        BY <2>2, <4>1
      <4> QED BY <2>1, <2>2, <3>2, <4>1, <4>2 DEF Queued
    <3> QED BY <3>1, <3>2
  <2>4. PostOrder'
    <3>1. ASSUME NEW k \in 1 .. Len(posted) - 1, posted'[k] = 0 PROVE k = Len(posted) - 1
      <4>1. k + 1 \in 1 .. Len(posted) /\ posted[k + 1] = 0
        BY <2>2, <3>1
      <4>2. k + 1 = Len(posted)
        BY <1>1, <4>1 DEF PostOrder
      <4> QED BY <2>2, <4>2
    <3>2. ASSUME NEW k \in 1 .. Queued - 1 PROVE posted'[k] = sends - (Queued - 1) + k
      <4>1. k + 1 \in 1 .. Queued /\ k \in 1 .. Len(posted) - 1
        BY <1>1, <2>2, <3>2 DEF Queued
      <4>2. posted[k + 1] = sends - Queued + (k + 1)
        BY <1>1, <4>1 DEF PostOrder
      <4> QED BY <1>1, <2>2, <4>1, <4>2
    <3>3. ASSUME main \notin {"join", "end"}, NEW k \in 1 .. Len(posted) - 1 PROVE posted'[k] # 0
      <4>1. k + 1 \in 1 .. Len(posted)
        BY <2>2
      <4> QED BY <1>1, <2>2, <3>3, <4>1 DEF PostOrder
    <3> QED BY <2>1, <2>2, <2>3, <3>1, <3>2, <3>3 DEF PostOrder
  <2>5. write_msgs_' \in Seq(1 .. sends) /\ Len(write_msgs_') = Len(write_msgs_) + 1
    BY <1>1, <2>1, <2>2, AppendProperties
  <2>6. Popped' = Popped
    BY <1>1, <2>1, <2>3, <2>5 DEF Popped
  <2>7. Popped + 0 = Popped
    BY <1>1 DEF Popped
  <2> QED BY <2>1, <2>2, <2>4, <2>5, <2>6, <2>7 DEF SendTypes
<1>7. CASE RunClose
  <2>1. /\ posted # << >> /\ Head(posted) = 0 /\ posted' = Tail(posted) /\ sends' = sends
        /\ main' = main /\ write_msgs_' = write_msgs_
    BY <1>7 DEF RunClose, mainVars
  <2>2. /\ Len(posted) \in Nat \ {0} /\ posted[1] = 0
        /\ posted' \in Seq(0 .. sends) /\ Len(posted') = Len(posted) - 1
    BY <1>1, <2>1, Popping
  <2>3. Len(posted) = 1
    BY <1>1, <2>2 DEF PostOrder
  <2>4. posted' = << >> /\ Len(posted') = 0
    BY <2>2, <2>3, EmptySeq
  <2>5. Queued = 0 /\ Queued' = 0
    BY <2>1, <2>2, <2>3, <2>4 DEF Queued
  <2>6. PostOrder'
    BY <2>4, <2>5 DEF PostOrder
  <2>7. ~OnWritten
    BY <2>1, <2>4 DEF OnWritten
  <2> QED BY <1>1, <2>1, <2>2, <2>5, <2>6, <2>7 DEF SendTypes, Popped
<1>8. CASE OnWritten
  <2>1. /\ UNCHANGED <<posted, sends, main>> /\ write_msgs_' = Tail(write_msgs_)
        /\ write_msgs_ # << >>
    <3>1. written # << >>
      BY <1>8 DEF OnWritten
    <3> QED BY <1>8, <3>1 DEF OnWritten, mainVars, IInv, OneWrite
  <2>2. write_msgs_' \in Seq(1 .. sends) /\ Len(write_msgs_') = Len(write_msgs_) - 1
    BY <1>1, <2>1, Popping
  <2> QED BY <1>1, <1>2, <1>8, <2>1, <2>2 DEF SendTypes, Popped
<1>9. CASE \/ StartTimer \/ Quit \/ StopTimer \/ Join \/ Resolved \/ Connected \/ ConnectFails
           \/ OnWriteError
           \/ OnRead \/ OnReadError \/ OnTimer \/ RunReturns \/ WriteCompletes \/ ReadCompletes
           \/ ServerSends \/ PeerCloses \/ Expire
  <2>1. /\ UNCHANGED <<posted, sends, write_msgs_>>
        /\ main \in {"join", "end"} => main' \in {"join", "end"}
    BY <1>9 DEF StartTimer, Quit, StopTimer, Join, Resolved, Connected, ConnectFails, OnWriteError, OnRead,
       OnReadError, OnTimer, RunReturns, WriteCompletes, ReadCompletes, ServerSends, PeerCloses,
       Expire, mainVars, writeVars
  <2>2. CASE OnWritten
    BY <1>8, <2>2
  <2>3. CASE ~OnWritten
    BY <1>3, <2>1, <2>3
  <2> QED BY <2>2, <2>3
<1> QED BY <1>4, <1>5, <1>6, <1>7, <1>8, <1>9 DEF Next, Handlers

-----------------------------------------------------------------------------
(* The steps that may close the socket.                                     *)
Closing == RunClose \/ OnWriteError \/ OnReadError \/ PeerCloses

(* What is left of a row of ready handlers when one of an error has run.    *)
Rest(s, t) == t = s \/ (s # << >> /\ s[1] = FALSE /\ t = Tail(s))

LEMMA RestSeq ==
  ASSUME NEW s \in Seq(BOOLEAN), NEW t, Rest(s, t)
  PROVE  /\ t \in Seq(BOOLEAN) /\ Len(t) <= Len(s)
         /\ t # << >> => s # << >>
         /\ Len(s) <= 1 /\ t # << >> => t = s
         /\ t = << >> /\ s # << >> => s[1] = FALSE
<1>1. CASE t = s
  BY <1>1, LenProperties
<1>2. CASE s # << >> /\ s[1] = FALSE /\ t = Tail(s)
  <2>1. Len(s) \in Nat \ {0} /\ t \in Seq(BOOLEAN) /\ Len(t) = Len(s) - 1
    BY <1>2, Popping
  <2>2. Len(s) <= 1 => t = << >>
    BY <2>1, EmptySeq
  <2>3. Len(t) <= Len(s) /\ (Len(s) <= 1 /\ t # << >> => t = s)
    BY <2>1, <2>2
  <2>4. t # << >> => s # << >>
    BY <1>2
  <2>5. t = << >> /\ s # << >> => s[1] = FALSE
    BY <1>2, Zenon
  <2> QED BY <2>1, <2>3, <2>4, <2>5, Zenon
<1> QED BY <1>1, <1>2 DEF Rest

LEMMA ClosingCases ==
  ASSUME IInv, Closing
  PROVE  \/ UNCHANGED <<link, writing, written, reading, readDone>>
         \/ /\ Rest(written, written') /\ UNCHANGED <<link, writing, reading, readDone>>
         \/ /\ link # "resolving"
            /\ \E w, r : /\ Rest(written, w) /\ Rest(readDone, r)
                         /\ Close([written |-> w, readDone |-> r])
<1>1. written \in Seq(BOOLEAN) /\ readDone \in Seq(BOOLEAN)
  BY DEF IInv, TypeOK
<1>2. \A s \in Seq(BOOLEAN) : s # << >> /\ ~Head(s) => Rest(s, Tail(s))
  <2> TAKE s \in Seq(BOOLEAN)
  <2> HAVE s # << >> /\ ~Head(s)
  <2>1. Head(s) = s[1] /\ s[1] \in BOOLEAN
    BY Popping
  <2> QED BY <2>1, Zenon DEF Rest
<1>3. \A s : Rest(s, s)
  BY DEF Rest
<1>4. ASSUME NEW w, NEW r, Rest(written, w), Rest(readDone, r), Close([written |-> w, readDone |-> r])
      PROVE  \/ UNCHANGED <<link, writing, written, reading, readDone>>
             \/ /\ link # "resolving"
                /\ \E v, q : /\ Rest(written, v) /\ Rest(readDone, q)
                             /\ Close([written |-> v, readDone |-> q])
  <2>1. CASE link = "resolving"
    BY <1>4, <2>1 DEF Close
  <2>2. CASE link # "resolving"
    BY <1>4, <2>2, Zenon
  <2> QED BY <2>1, <2>2
<1>5. CASE RunClose \/ PeerCloses
  <2>1. Close([written |-> written, readDone |-> readDone])
    BY <1>5 DEF RunClose, PeerCloses
  <2> QED BY <1>3, <1>4, <2>1
<1>6. CASE OnReadError
  <2>1. Rest(readDone, Tail(readDone))
    BY <1>1, <1>2, <1>6 DEF OnReadError
  <2>2. Close([written |-> written, readDone |-> Tail(readDone)])
    BY <1>6 DEF OnReadError
  <2> QED BY <1>3, <1>4, <2>1, <2>2
<1>7. CASE OnWriteError
  <2>1. Rest(written, Tail(written))
    BY <1>1, <1>2, <1>7 DEF OnWriteError
  <2>2. CASE link = "resolving"
    BY <1>7, <2>1, <2>2 DEF OnWriteError
  <2>3. CASE link # "resolving"
    <3>1. Close([written |-> Tail(written), readDone |-> readDone])
      BY <1>7, <2>3 DEF OnWriteError
    <3> QED BY <1>3, <1>4, <2>1, <3>1
  <2> QED BY <2>2, <2>3
<1> QED BY <1>5, <1>6, <1>7 DEF Closing

LEMMA ClosingWrites ==
  ASSUME IInv, Closing
  PROVE  /\ UNCHANGED <<sends, write_msgs_, taken, drained, inbox, chunks, read_buffer_, printed,
                        parallel>>
         /\ link' = link \/ (link # "resolving" /\ link' = "closed")
         /\ writing' = writing \/ writing' = << >>
         /\ written' \in Seq(BOOLEAN) /\ Len(writing') + Len(written') <= 1
         /\ written' # << >> => writing # << >> \/ written # << >>
         /\ FrontTaken' <=> FrontTaken
<1>1. /\ writing \in Seq(1 .. sends) /\ written \in Seq(BOOLEAN)
      /\ Len(writing) \in Nat /\ Len(written) \in Nat /\ Len(writing) + Len(written) <= 1
  BY LenProperties DEF IInv, TypeOK, OneWrite
<1>2. UNCHANGED <<sends, write_msgs_, taken, drained, inbox, chunks, read_buffer_, printed, parallel>>
  BY DEF Closing, RunClose, OnWriteError, OnReadError, PeerCloses, mainVars
<1>3. ASSUME NEW w, Rest(written, w)
      PROVE  /\ w \in Seq(BOOLEAN) /\ Len(w) \in Nat /\ Len(w) <= Len(written)
             /\ w # << >> => w = written
             /\ w = << >> /\ written # << >> => written[1] = FALSE
             /\ w # << >> => written # << >>
  <2>1. Len(written) <= 1
    BY <1>1
  <2>2. /\ w \in Seq(BOOLEAN) /\ Len(w) <= Len(written)
        /\ w # << >> => w = written
        /\ w = << >> /\ written # << >> => written[1] = FALSE
        /\ w # << >> => written # << >>
    BY <1>1, <1>3, <2>1, RestSeq
  <2> QED BY <2>2, LenProperties
<1>4. CASE UNCHANGED <<link, writing, written, reading, readDone>>
  <2>1. FrontTaken' <=> FrontTaken
    BY <1>4 DEF FrontTaken
  <2> QED BY <1>1, <1>2, <1>4, <2>1
<1>5. CASE Rest(written, written') /\ UNCHANGED <<link, writing, reading, readDone>>
  <2>1. /\ written' \in Seq(BOOLEAN) /\ Len(written') \in Nat /\ Len(written') <= Len(written)
        /\ written' # << >> => written' = written
        /\ written' = << >> /\ written # << >> => written[1] = FALSE
        /\ written' # << >> => written # << >>
    BY <1>3, <1>5
  <2>2. FrontTaken' <=> FrontTaken
    <3>1. CASE written' = << >>
      BY <2>1, <3>1, Zenon DEF FrontTaken
    <3>2. CASE written' # << >>
      BY <2>1, <3>2, Zenon DEF FrontTaken
    <3> QED BY <3>1, <3>2
  <2>3. writing' = writing /\ link' = link /\ Len(writing') + Len(written') <= 1
    BY <1>1, <1>5, <2>1
  <2> QED BY <1>2, <2>1, <2>2, <2>3, Zenon
<1>6. CASE /\ link # "resolving"
           /\ \E w, r : /\ Rest(written, w) /\ Rest(readDone, r)
                        /\ Close([written |-> w, readDone |-> r])
  <2>1. PICK w, r : /\ Rest(written, w) /\ Rest(readDone, r)
                    /\ Close([written |-> w, readDone |-> r])
    BY <1>6
  <2>2. r \in Seq(BOOLEAN)
    BY <2>1, RestSeq DEF IInv, TypeOK
  <2>3. /\ link' = "closed" /\ writing' = << >>
        /\ written' \in Seq(BOOLEAN) /\ Len(written') = Len(w) + Len(writing)
        /\ FirstOf(w, written')
    BY <1>3, <1>6, <2>1, <2>2, CloseEffect DEF IInv
  <2>4. Len(writing') + Len(written') <= 1
    <3>1. Len(w) \in Nat /\ Len(w) <= Len(written)
      BY <1>3, <2>1
    <3>2. Len(writing') = 0
      BY <2>3
    <3> QED BY <1>1, <2>3, <3>1, <3>2
  <2>5. written' # << >> => writing # << >> \/ written # << >>
    <3>1. writing = << >> /\ written = << >> => Len(written') = 0
      BY <1>1, <1>3, <2>1, <2>3, EmptySeq
    <3> QED BY <2>3, <3>1, EmptySeq
  <2>6. FrontTaken' <=> FrontTaken
    BY <1>3, <2>1, <2>3, Zenon DEF FrontTaken, FirstOf
  <2> QED BY <1>2, <1>6, <2>3, <2>4, <2>5, <2>6
<1> QED BY <1>4, <1>5, <1>6, ClosingCases

LEMMA ClosingReads ==
  ASSUME IInv, Closing
  PROVE  /\ reading' \in Nat /\ readDone' \in Seq(BOOLEAN) /\ Reads' <= Reads
         /\ ~parallel => (Filled' <=> Filled)
<1>1. /\ readDone \in Seq(BOOLEAN) /\ reading \in Nat /\ Len(readDone) \in Nat
      /\ ~parallel => Len(readDone) <= 1
  BY LenProperties DEF IInv, TypeOK, ReadCount, Reads
<1>2. CASE UNCHANGED <<reading, readDone>>
  BY <1>1, <1>2 DEF Filled, Reads
<1>3. CASE /\ link # "resolving"
           /\ \E w, r : /\ Rest(written, w) /\ Rest(readDone, r)
                        /\ Close([written |-> w, readDone |-> r])
  <2>1. PICK w, r : /\ Rest(written, w) /\ Rest(readDone, r)
                    /\ Close([written |-> w, readDone |-> r])
    BY <1>3
  <2>2. w \in Seq(BOOLEAN)
    BY <2>1, RestSeq DEF IInv, TypeOK
  <2>3. /\ r \in Seq(BOOLEAN) /\ Len(r) <= Len(readDone) /\ Len(r) \in Nat
        /\ r # << >> => readDone # << >>
        /\ ~parallel /\ r # << >> => r = readDone
        /\ r = << >> /\ readDone # << >> => readDone[1] = FALSE
    BY <1>1, <2>1, RestSeq, LenProperties
  <2>4. /\ reading' = 0 /\ readDone' \in Seq(BOOLEAN) /\ Len(readDone') = Len(r) + reading
        /\ FirstOf(r, readDone')
    BY <1>3, <2>1, <2>2, <2>3, CloseEffect DEF IInv
  <2>5. Reads' <= Reads
    BY <1>1, <2>3, <2>4 DEF Reads
  <2>6. ~parallel => (Filled' <=> Filled)
    BY <2>3, <2>4, Zenon DEF Filled, FirstOf
  <2> QED BY <2>4, <2>5, <2>6
<1> QED BY <1>2, <1>3, ClosingCases

LEMMA FailingWrites ==
  ASSUME IInv, ConnectFails
  PROVE  /\ UNCHANGED <<sends, write_msgs_, taken, drained, wedged, readVars>>
         /\ writing' = << >>
         /\ written' \in Seq(BOOLEAN) /\ Len(writing') + Len(written') <= 1
         /\ written' # << >> => writing # << >> \/ written # << >>
         /\ FrontTaken' <=> FrontTaken
<1>1. /\ writing \in Seq(1 .. sends) /\ written \in Seq(BOOLEAN)
      /\ Len(writing) \in Nat /\ Len(written) \in Nat /\ Len(writing) + Len(written) <= 1
  BY LenProperties DEF IInv, TypeOK, OneWrite
<1>2. /\ UNCHANGED <<sends, write_msgs_, taken, drained, wedged, readVars>>
      /\ writing' = << >> /\ written' = written \o Errors(Len(writing))
  BY DEF ConnectFails, mainVars
<1>3. /\ written' \in Seq(BOOLEAN) /\ Len(written') = Len(written) + Len(writing)
      /\ written # << >> => written' # << >> /\ written'[1] = written[1]
      /\ written = << >> /\ written' # << >> => written'[1] = FALSE
  BY <1>1, <1>2, ErrorsBehind
<1>4. Len(writing') + Len(written') <= 1
  <2>1. Len(writing') = 0
    BY <1>2
  <2> QED BY <1>1, <1>3, <2>1
<1>5. written' # << >> => writing # << >> \/ written # << >>
  <2>1. writing = << >> /\ written = << >> => Len(written') = 0
    BY <1>3, EmptySeq
  <2> QED BY <1>3, <2>1, EmptySeq
<1>6. FrontTaken' <=> FrontTaken
  BY <1>3, Zenon DEF FrontTaken
<1> QED BY <1>2, <1>3, <1>4, <1>5, <1>6

-----------------------------------------------------------------------------
(* The write queue and the messages the server has.                         *)
LEMMA WriteStep ==
  ASSUME IInv, Next
  PROVE  WriteTypes' /\ OneWrite' /\ WriteOrder'
<1>1. /\ writing \in Seq(1 .. sends) /\ written \in Seq(BOOLEAN) /\ taken \in Seq(1 .. sends)
      /\ write_msgs_ \in Seq(1 .. sends) /\ sends \in Nat
      /\ Len(writing) \in Nat /\ Len(written) \in Nat /\ Len(taken) \in Nat
      /\ Len(write_msgs_) \in Nat
      /\ OneWrite /\ WriteOrder
  BY LenProperties, AsioAssumption DEF IInv, TypeOK
<1>2. Popped \in Int
  <2>1. Queued \in Int
    BY Lengths DEF IInv, Queued
  <2> QED BY <1>1, <2>1 DEF Popped
<1>3. Popped' = Popped + (IF OnWritten THEN 1 ELSE 0) /\ write_msgs_' \in Seq(1 .. sends')
  BY PostStep DEF SendTypes
<1>4. ASSUME UNCHANGED <<write_msgs_, taken>>, Popped' = Popped, FrontTaken' <=> FrontTaken
      PROVE  WriteOrder'
  <2>1. \A k \in 1 .. Len(write_msgs_') : write_msgs_'[k] = Popped' + k
    BY <1>1, <1>4 DEF WriteOrder
  <2>2. /\ \A k \in 1 .. Len(taken') : taken'[k] = k
        /\ Len(taken') = Popped' + IF FrontTaken' THEN 1 ELSE 0
    BY <1>1, <1>4 DEF WriteOrder
  <2> QED BY <2>1, <2>2 DEF WriteOrder
<1>5. ASSUME UNCHANGED <<sends, write_msgs_, writing, written, taken>>, ~OnWritten
      PROVE  WriteTypes' /\ OneWrite' /\ WriteOrder'
  <2>1. Popped' = Popped
    BY <1>2, <1>3, <1>5
  <2>2. FrontTaken' <=> FrontTaken
    BY <1>5 DEF FrontTaken
  <2>3. WriteTypes' /\ OneWrite'
    BY <1>1, <1>5 DEF WriteTypes, OneWrite
  <2> QED BY <1>4, <1>5, <2>1, <2>2, <2>3
<1>6. CASE Send
  <2>1. /\ sends' = sends + 1 /\ UNCHANGED <<write_msgs_, writing, written, taken>>
    BY <1>6 DEF Send, writeVars
  <2>2. ~OnWritten
    <3>1. sends' # sends
      BY <1>1, <2>1
    <3> QED BY <3>1 DEF OnWritten, mainVars
  <2>3. Popped' = Popped
    BY <1>2, <1>3, <2>2
  <2>4. FrontTaken' <=> FrontTaken
    BY <2>1 DEF FrontTaken
  <2>5. writing \in Seq(1 .. sends + 1) /\ taken \in Seq(1 .. sends + 1)
    <3>1. 1 .. sends \subseteq 1 .. sends + 1
      BY <1>1
    <3> QED BY <1>1, <3>1, SeqMonotonic
  <2>6. WriteTypes' /\ OneWrite'
    BY <1>1, <2>1, <2>5 DEF WriteTypes, OneWrite
  <2> QED BY <1>4, <2>1, <2>3, <2>4, <2>6
<1>7. CASE Closing
  <2>1. /\ UNCHANGED <<sends, write_msgs_, taken>>
        /\ writing' = writing \/ writing' = << >>
        /\ written' \in Seq(BOOLEAN) /\ Len(writing') + Len(written') <= 1
        /\ written' # << >> => writing # << >> \/ written # << >>
        /\ FrontTaken' <=> FrontTaken
    BY <1>7, ClosingWrites
  <2>2. ASSUME OnWritten PROVE FALSE
    <3>1. write_msgs_' = Tail(write_msgs_) /\ write_msgs_ # << >>
      BY <1>1, <2>2 DEF OnWritten, OneWrite
    <3> QED BY <1>1, <2>1, <3>1, Popping
  <2>3. Popped' = Popped
    BY <1>2, <1>3, <2>2
  <2>4. WriteTypes'
    BY <1>1, <2>1, EmptySeq DEF WriteTypes
  <2>5. OneWrite'
    BY <1>1, <2>1 DEF OneWrite
  <2> QED BY <1>4, <2>1, <2>3, <2>4, <2>5
<1>12. CASE ConnectFails
  <2>1. /\ UNCHANGED <<sends, write_msgs_, taken>> /\ writing' = << >>
        /\ written' \in Seq(BOOLEAN) /\ Len(writing') + Len(written') <= 1
        /\ written' # << >> => writing # << >> \/ written # << >>
        /\ FrontTaken' <=> FrontTaken
    BY <1>12, FailingWrites
  <2>2. ASSUME OnWritten PROVE FALSE
    <3>1. write_msgs_' = Tail(write_msgs_) /\ write_msgs_ # << >>
      BY <1>1, <2>2 DEF OnWritten, OneWrite
    <3> QED BY <1>1, <2>1, <3>1, Popping
  <2>3. Popped' = Popped
    BY <1>2, <1>3, <2>2
  <2>4. WriteTypes'
    BY <1>1, <2>1, EmptySeq DEF WriteTypes
  <2>5. OneWrite'
    BY <1>1, <2>1 DEF OneWrite
  <2> QED BY <1>4, <2>1, <2>3, <2>4, <2>5
<1>8. CASE StartTimer \/ Quit \/ StopTimer \/ PostClose \/ Join \/ Resolved \/ Connected \/ OnRead
           \/ OnTimer \/ RunReturns \/ ReadCompletes \/ ServerSends \/ Expire
  <2>1. UNCHANGED <<sends, write_msgs_, writing, written, taken>>
    BY <1>8 DEF StartTimer, Quit, StopTimer, PostClose, Join, Resolved, Connected, OnRead, OnTimer,
       RunReturns, ReadCompletes, ServerSends, Expire, mainVars, writeVars
  <2>2. ASSUME OnWritten PROVE FALSE
    <3>1. write_msgs_' = Tail(write_msgs_) /\ write_msgs_ # << >>
      BY <1>1, <2>2 DEF OnWritten, OneWrite
    <3> QED BY <1>1, <2>1, <3>1, Popping
  <2> QED BY <1>5, <2>1, <2>2
<1>9. CASE RunSend
  <2>1. /\ posted # << >> /\ UNCHANGED <<sends, taken>>
        /\ write_msgs_' = Append(write_msgs_, Head(posted)) /\ posted' = Tail(posted)
        /\ IF write_msgs_ # << >> THEN UNCHANGED <<writing, written>> ELSE DoWrite(written)
    BY <1>9 DEF RunSend, Enqueue, mainVars
  <2>2. ~OnWritten
    <3>1. ASSUME OnWritten PROVE FALSE
      <4>1. posted' = posted /\ posted \in Seq(0 .. sends)
        BY <3>1 DEF OnWritten, IInv, TypeOK
      <4> QED BY <2>1, <4>1, Popping
    <3> QED BY <3>1
  <2>3. Popped' = Popped
    BY <1>2, <1>3, <2>2
  <2>4. posted \in Seq(0 .. sends) /\ Len(posted) \in Nat \ {0} /\ Head(posted) = posted[1]
    BY <2>1, Popping DEF IInv, TypeOK
  <2>5. posted[1] = Popped + Len(write_msgs_) + 1
    <3>1. posted[1] # 0
      BY <1>9, <2>4 DEF RunSend, Enqueue
    <3>2. 1 \in 1 .. Queued
      BY <2>4, <3>1 DEF Queued
    <3>3. posted[1] = sends - Queued + 1 /\ Queued \in Int
      BY <2>4, <3>2 DEF IInv, PostOrder, Queued
    <3> QED BY <1>1, <3>3 DEF Popped
  <2>6. /\ Len(write_msgs_') = Len(write_msgs_) + 1 /\ write_msgs_' # << >>
        /\ \A k \in 1 .. Len(write_msgs_) : write_msgs_'[k] = write_msgs_[k]
        /\ write_msgs_'[Len(write_msgs_) + 1] = posted[1]
    <3>1. write_msgs_ \in Seq(Int) /\ posted[1] \in Int
      <4>1. 1 .. sends \subseteq Int
        BY <1>1
      <4> QED BY <1>1, <1>2, <2>5, <4>1, SeqMonotonic
    <3> QED BY <2>1, <2>4, <3>1, AppendProperties
  <2>7. \A k \in 1 .. Len(write_msgs_') : write_msgs_'[k] = Popped' + k
    <3>1. \A k \in 1 .. Len(write_msgs_) : write_msgs_'[k] = Popped + k
      BY <1>1, <2>6 DEF WriteOrder
    <3>2. write_msgs_'[Len(write_msgs_) + 1] = Popped + (Len(write_msgs_) + 1)
      BY <1>1, <1>2, <2>5, <2>6
    <3> QED BY <1>1, <2>3, <2>6, <3>1, <3>2, LastOrBefore
  <2>8. CASE write_msgs_ # << >>
    <3>1. UNCHANGED <<sends, writing, written, taken>>
      BY <2>1, <2>8
    <3>2. write_msgs_'[1] = write_msgs_[1]
      BY <1>1, <2>6, <2>8, EmptySeq
    <3>3. WriteTypes'
      BY <1>1, <3>1 DEF WriteTypes
    <3>4. OneWrite'
      BY <1>1, <2>6, <3>1, <3>2 DEF OneWrite
    <3>5. /\ \A k \in 1 .. Len(taken') : taken'[k] = k
          /\ Len(taken') = Popped' + IF FrontTaken' THEN 1 ELSE 0
      BY <1>1, <2>3, <3>1 DEF WriteOrder, FrontTaken
    <3> QED BY <2>7, <3>3, <3>4, <3>5 DEF WriteOrder
  <2>9. CASE write_msgs_ = << >>
    <3>1. writing = << >> /\ written = << >>
      BY <1>1, <2>9 DEF OneWrite
    <3>2. DoWrite(<< >>) /\ write_msgs_' \in Seq(1 .. sends)
      BY <1>3, <2>1, <2>9, <3>1
    <3>3. /\ writing' \in Seq(1 .. sends) /\ written' \in Seq(BOOLEAN)
          /\ Len(writing') + Len(written') = 1
          /\ writing' # << >> => writing'[1] = write_msgs_'[1]
          /\ written' # << >> => written'[1] = FALSE
      BY <2>6, <3>1, <3>2, WriteEffect DEF IInv
    <3>4. ~FrontTaken /\ ~FrontTaken'
      BY <3>1, <3>3, Zenon DEF FrontTaken
    <3>5. WriteTypes' /\ OneWrite'
      <4>1. WriteTypes'
        BY <1>1, <2>1, <3>3 DEF WriteTypes
      <4>2. Len(writing') + Len(written') <= 1
        BY <3>3
      <4> QED BY <2>6, <3>3, <4>1, <4>2 DEF OneWrite
    <3>6. /\ \A k \in 1 .. Len(taken') : taken'[k] = k
          /\ Len(taken') = Popped' + IF FrontTaken' THEN 1 ELSE 0
      BY <1>1, <2>1, <2>3, <3>4 DEF WriteOrder
    <3> QED BY <2>7, <3>5, <3>6 DEF WriteOrder
  <2> QED BY <2>8, <2>9
<1>10. CASE OnWritten
  <2>1. /\ written # << >> /\ Head(written) /\ UNCHANGED <<sends, taken>>
        /\ write_msgs_' = Tail(write_msgs_)
    BY <1>10 DEF OnWritten, mainVars
  <2>2. written[1] = TRUE /\ Len(written) \in Nat \ {0} /\ Len(Tail(written)) = Len(written) - 1
    BY <1>1, <2>1, Popping
  <2>3. FrontTaken /\ writing = << >> /\ Tail(written) = << >> /\ Len(written) = 1
    <3>1. Len(written) = 1 /\ Len(writing) = 0
      BY <1>1, <2>2 DEF OneWrite
    <3>2. Tail(written) \in Seq(BOOLEAN)
      BY <1>1, <2>1, Popping
    <3>3. FrontTaken
      BY <2>1, <2>2, Zenon DEF FrontTaken
    <3>4. Len(Tail(written)) = 0
      BY <2>2, <3>1
    <3> QED BY <1>1, <3>1, <3>2, <3>3, <3>4, EmptySeq
  <2>4. /\ write_msgs_ # << >> /\ Len(write_msgs_') = Len(write_msgs_) - 1
        /\ \A k \in 1 .. Len(write_msgs_) - 1 : write_msgs_'[k] = write_msgs_[k + 1]
    <3>1. write_msgs_ # << >>
      BY <1>1, <2>1 DEF OneWrite
    <3> QED BY <1>1, <2>1, <3>1, Popping
  <2>5. Popped' = Popped + 1 /\ Len(taken) = Popped + 1
    BY <1>1, <1>3, <1>10, <2>3 DEF WriteOrder
  <2>6. \A k \in 1 .. Len(write_msgs_') : write_msgs_'[k] = Popped' + k
    <3> TAKE k \in 1 .. Len(write_msgs_')
    <3>1. k + 1 \in 1 .. Len(write_msgs_) /\ k \in 1 .. Len(write_msgs_) - 1
      BY <1>1, <2>4
    <3>2. write_msgs_[k + 1] = Popped + (k + 1)
      BY <1>1, <3>1 DEF WriteOrder
    <3> QED BY <1>2, <2>4, <2>5, <3>1, <3>2
  <2>7. /\ writing' \in Seq(1 .. sends) /\ written' \in Seq(BOOLEAN)
        /\ Len(writing') + Len(written') <= 1
        /\ writing' # << >> => write_msgs_' # << >> /\ writing'[1] = write_msgs_'[1]
        /\ written' # << >> => write_msgs_' # << >> /\ written'[1] = FALSE
    <3>1. CASE write_msgs_' # << >>
      <4>1. DoWrite(<< >>) /\ write_msgs_' \in Seq(1 .. sends)
        BY <1>3, <1>10, <2>1, <2>3, <3>1 DEF OnWritten
      <4>2. /\ writing' \in Seq(1 .. sends) /\ written' \in Seq(BOOLEAN)
            /\ Len(writing') + Len(written') = 1
            /\ writing' # << >> => writing'[1] = write_msgs_'[1]
            /\ written' # << >> => written'[1] = FALSE
        BY <2>3, <3>1, <4>1, WriteEffect DEF IInv
      <4>3. Len(writing') + Len(written') <= 1
        BY <4>2
      <4> QED BY <3>1, <4>2, <4>3, Zenon
    <3>2. CASE write_msgs_' = << >>
      <4>1. writing' = << >> /\ written' = << >>
        BY <1>10, <2>3, <3>2 DEF OnWritten
      <4> QED BY <4>1, EmptySeq
    <3> QED BY <3>1, <3>2
  <2>8. ~FrontTaken'
    BY <2>7, Zenon DEF FrontTaken
  <2>9. WriteTypes' /\ OneWrite'
    BY <1>1, <2>1, <2>7 DEF WriteTypes, OneWrite
  <2>10. /\ \A k \in 1 .. Len(taken') : taken'[k] = k
         /\ Len(taken') = Popped' + IF FrontTaken' THEN 1 ELSE 0
    <3>1. taken' = taken
      BY <2>1
    <3>2. Popped' \in Int
      BY <1>2, <2>5
    <3>3. Len(taken') = Popped' + 0
      BY <2>5, <3>1, <3>2
    <3>4. \A k \in 1 .. Len(taken') : taken'[k] = k
      BY <1>1, <3>1 DEF WriteOrder
    <3> QED BY <2>8, <3>3, <3>4
  <2> QED BY <2>6, <2>9, <2>10 DEF WriteOrder
<1>11. CASE WriteCompletes
  <2>1. PICK k \in DOMAIN writing :
          /\ taken' = Append(taken, writing[k])
          /\ writing' = SubSeq(writing, 1, k - 1) \o SubSeq(writing, k + 1, Len(writing))
    BY <1>11 DEF WriteCompletes
  <2>2. k = 1 /\ Len(writing) = 1 /\ Len(written) = 0
    <3>1. k \in 1 .. Len(writing)
      BY <1>1, <2>1, LenProperties
    <3>2. Len(writing) + Len(written) <= 1
      BY <1>1 DEF OneWrite
    <3>3. Len(writing) \in Nat /\ Len(written) \in Nat
      BY <1>1
    <3> DEFINE x == Len(writing)
               y == Len(written)
    <3>4. k \in 1 .. x /\ x + y <= 1 /\ x \in Nat /\ y \in Nat
      BY <3>1, <3>2, <3>3
    <3> HIDE DEF x, y
    <3>5. k = 1 /\ x = 1 /\ y = 0
      BY <3>4
    <3> QED BY <3>5 DEF x, y
  <2>3. written = << >> /\ writing # << >> /\ writing[1] \in 1 .. sends
    <3>1. writing # << >> /\ written = << >>
      <4>1. written = << >>
        <5>1. written \in Seq(BOOLEAN) /\ Len(written) = 0
          BY <1>1, <2>2
        <5> QED BY <5>1, EmptySeq
      <4>2. writing # << >>
        BY <2>2, EmptySeq
      <4> QED BY <4>1, <4>2
    <3> QED BY <1>1, <3>1, Popping
  <2>4. writing' = << >>
    BY <2>1, <2>2
  <2>5. /\ written' = Append(<< >>, TRUE)
        /\ UNCHANGED <<sends, write_msgs_>>
    BY <1>11, <2>3 DEF WriteCompletes, Error, mainVars
  <2>6. written' \in Seq(BOOLEAN) /\ Len(written') = 1 /\ written' # << >> /\ written'[1] = TRUE
    BY <2>5, Pushing, EmptySeq
  <2>7. ~OnWritten
    <3>1. ASSUME OnWritten PROVE FALSE
      BY <2>3, <3>1 DEF OnWritten
    <3> QED BY <3>1
  <2>8. Popped' = Popped
    BY <1>2, <1>3, <2>7
  <2>9. write_msgs_ # << >> /\ writing[1] = Popped + 1 /\ Len(taken) = Popped
    <3>1. write_msgs_ # << >> /\ writing[1] = write_msgs_[1]
      BY <1>1, <2>3 DEF OneWrite
    <3>2. 1 \in 1 .. Len(write_msgs_)
      BY <1>1, <3>1, EmptySeq
    <3>3. ~FrontTaken
      BY <2>3 DEF FrontTaken
    <3> QED BY <1>1, <1>2, <3>1, <3>2, <3>3 DEF WriteOrder
  <2>10. /\ taken' \in Seq(1 .. sends) /\ Len(taken') = Len(taken) + 1
         /\ \A j \in 1 .. Len(taken) : taken'[j] = taken[j]
         /\ taken'[Len(taken) + 1] = writing[1]
    BY <1>1, <2>1, <2>2, <2>3, AppendProperties
  <2>11. \A j \in 1 .. Len(taken') : taken'[j] = j
    <3>1. \A j \in 1 .. Len(taken) : taken'[j] = j
      BY <1>1, <2>10 DEF WriteOrder
    <3>2. taken'[Len(taken) + 1] = Len(taken) + 1
      BY <2>9, <2>10
    <3> QED BY <1>1, <2>10, <3>1, <3>2, LastOrBefore
  <2>12. FrontTaken'
    BY <2>6, Zenon DEF FrontTaken
  <2>13. Len(taken') = Popped' + IF FrontTaken' THEN 1 ELSE 0
    BY <2>8, <2>9, <2>10, <2>12
  <2>14. \A j \in 1 .. Len(write_msgs_') : write_msgs_'[j] = Popped' + j
    BY <1>1, <2>5, <2>8 DEF WriteOrder
  <2>15. WriteTypes'
    BY <2>4, <2>5, <2>6, <2>10, EmptySeq DEF WriteTypes
  <2>16. OneWrite'
    BY <2>4, <2>5, <2>6, <2>9 DEF OneWrite
  <2> QED BY <2>11, <2>13, <2>14, <2>15, <2>16 DEF WriteOrder
<1> QED BY <1>6, <1>7, <1>8, <1>9, <1>10, <1>11, <1>12 DEF Next, Handlers, Closing

LEMMA BeforeConnectedStep ==
  ASSUME IInv, Next
  PROVE  BeforeConnected'
<1>1. BeforeConnected /\ OneWrite /\ written \in Seq(BOOLEAN)
  BY DEF IInv, TypeOK
<1>2. ASSUME UNCHANGED <<drained, taken, writing, written, tried, link>>
      PROVE  BeforeConnected'
  BY <1>1, <1>2 DEF BeforeConnected, Unmade, FrontTaken
<1>3. CASE Resolved
  <2>1. UNCHANGED <<drained, taken, writing, written, tried>> /\ link = "resolving"
    BY <1>3 DEF Resolved, writeVars
  <2> QED BY <1>1, <2>1 DEF BeforeConnected, Unmade, FrontTaken
<1>4. CASE Connected
  BY <1>4 DEF Connected, BeforeConnected, Unmade
<1>5. CASE ConnectFails
  <2>1. /\ UNCHANGED <<taken, drained>> /\ writing' = << >> /\ (FrontTaken' <=> FrontTaken)
    BY <1>5, FailingWrites
  <2>2. /\ link = "connecting" /\ link' \in {"connecting", "failed"}
        /\ link' = "connecting" => tried' < Endpoints
    BY <1>5 DEF ConnectFails
  <2> QED BY <1>1, <2>1, <2>2 DEF BeforeConnected, Unmade
<1>6. CASE Closing
  <2>1. /\ UNCHANGED <<drained, taken>> /\ (link' = link \/ link' = "closed")
        /\ writing' = writing \/ writing' = << >>
        /\ FrontTaken' <=> FrontTaken
    BY <1>6, ClosingWrites
  <2>2. tried' = tried
    BY <1>6 DEF Closing, RunClose, OnWriteError, OnReadError, PeerCloses
  <2> QED BY <1>1, <2>1, <2>2 DEF BeforeConnected, Unmade
<1>7. CASE WriteCompletes
  BY <1>7 DEF WriteCompletes, BeforeConnected, Unmade
<1>8. CASE RunSend
  <2>1. /\ UNCHANGED <<link, drained, taken, tried>> /\ posted # << >>
        /\ write_msgs_' = Append(write_msgs_, Head(posted))
        /\ IF write_msgs_ # << >> THEN UNCHANGED <<writing, written>> ELSE DoWrite(written)
    BY <1>8 DEF RunSend, Enqueue
  <2>2. CASE write_msgs_ # << >>
    BY <1>2, <2>1, <2>2
  <2>3. CASE write_msgs_ = << >>
    <3>1. writing = << >> /\ written = << >> /\ DoWrite(<< >>)
      BY <1>1, <2>1, <2>3 DEF OneWrite
    <3>2. write_msgs_' \in Seq(1 .. sends') /\ write_msgs_' # << >>
      <4>1. /\ write_msgs_ \in Seq(1 .. sends) /\ posted \in Seq(0 .. sends)
            /\ 1 .. sends \subseteq 0 .. sends
        BY Lengths DEF IInv, TypeOK
      <4>2. write_msgs_ \in Seq(0 .. sends) /\ Head(posted) \in 0 .. sends
        BY <2>1, <4>1, SeqMonotonic, Popping
      <4>3. write_msgs_' # << >>
        BY <2>1, <4>2, Pushing
      <4> QED BY <4>3, PostStep DEF SendTypes
    <3>3. /\ ~Open => writing' = << >>
          /\ written' # << >> => written'[1] = FALSE
      BY <3>1, <3>2, WriteEffect DEF IInv
    <3>4. ~FrontTaken'
      BY <3>3, Zenon DEF FrontTaken
    <3> QED BY <1>1, <2>1, <3>3, <3>4 DEF BeforeConnected, Unmade, Open
  <2> QED BY <2>2, <2>3
<1>9. CASE OnWritten
  <2>1. written # << >> /\ Head(written) /\ link' = link /\ tried' = tried
    BY <1>9 DEF OnWritten
  <2>2. FrontTaken
    <3>1. written[1] = TRUE
      BY <1>1, <2>1, Popping
    <3> QED BY <2>1, <3>1, Zenon DEF FrontTaken
  <2> QED BY <1>1, <2>1, <2>2 DEF BeforeConnected, Unmade
<1>10. CASE \/ StartTimer \/ Send \/ Quit \/ StopTimer \/ PostClose \/ Join \/ OnRead \/ OnTimer
            \/ RunReturns \/ ReadCompletes \/ ServerSends \/ Expire
  <2>1. UNCHANGED <<drained, taken, writing, written, tried, link>>
    BY <1>10 DEF StartTimer, Send, Quit, StopTimer, PostClose, Join, OnRead, OnTimer, RunReturns,
       ReadCompletes, ServerSends, Expire, writeVars
  <2> QED BY <1>2, <2>1
<1> QED BY <1>3, <1>4, <1>5, <1>6, <1>7, <1>8, <1>9, <1>10 DEF Next, Handlers, Closing

LEMMA StuckStep ==
  ASSUME IInv, Next
  PROVE  Stuck'
<1>1. /\ BeforeConnected /\ OneWrite /\ Stuck /\ wedged \in BOOLEAN
      /\ written \in Seq(BOOLEAN) /\ Len(writing) \in Nat /\ Len(written) \in Nat
  BY LenProperties DEF IInv, TypeOK
<1>2. ASSUME wedged PROVE Stuck'
  <2>1. write_msgs_ # << >> /\ writing = << >> /\ written = << >> /\ taken = << >>
    BY <1>1, <1>2 DEF Stuck
  <2>2. CASE Closing
    <3>1. /\ UNCHANGED <<write_msgs_, taken>> /\ (writing' = writing \/ writing' = << >>)
          /\ written' # << >> => writing # << >> \/ written # << >>
      BY <2>2, ClosingWrites
    <3> QED BY <2>1, <3>1 DEF Stuck
  <2>3. CASE ConnectFails
    <3>1. /\ UNCHANGED <<write_msgs_, taken>> /\ writing' = << >>
          /\ written' # << >> => writing # << >> \/ written # << >>
      BY <2>3, FailingWrites
    <3> QED BY <2>1, <3>1 DEF Stuck
  <2>4. CASE RunSend
    <3>1. /\ UNCHANGED <<writing, written, taken>> /\ posted # << >>
          /\ write_msgs_' = Append(write_msgs_, Head(posted))
      BY <2>1, <2>4 DEF RunSend, Enqueue
    <3>2. write_msgs_ \in Seq(0 .. sends) /\ Head(posted) \in 0 .. sends
      <4>1. /\ write_msgs_ \in Seq(1 .. sends) /\ posted \in Seq(0 .. sends)
            /\ 1 .. sends \subseteq 0 .. sends
        BY Lengths DEF IInv, TypeOK
      <4> QED BY <3>1, <4>1, SeqMonotonic, Popping
    <3>3. write_msgs_' # << >>
      BY <3>1, <3>2, Pushing
    <3> QED BY <2>1, <3>1, <3>3 DEF Stuck
  <2>5. CASE OnWritten
    BY <2>1, <2>5 DEF OnWritten
  <2>6. CASE WriteCompletes
    <3>1. DOMAIN writing # {}
      BY <2>6 DEF WriteCompletes
    <3> QED BY <2>1, <3>1
  <2>7. CASE \/ StartTimer \/ Send \/ Quit \/ StopTimer \/ PostClose \/ Join \/ Resolved
             \/ Connected \/ OnRead \/ OnTimer \/ RunReturns \/ ReadCompletes \/ ServerSends
             \/ Expire
    <3>1. UNCHANGED <<write_msgs_, taken, writing, written>>
      BY <2>7 DEF StartTimer, Send, Quit, StopTimer, PostClose, Join, Resolved, Connected, OnRead,
         OnTimer, RunReturns, ReadCompletes, ServerSends, Expire, writeVars
    <3> QED BY <2>1, <3>1 DEF Stuck
  <2> QED BY <2>2, <2>3, <2>4, <2>5, <2>6, <2>7 DEF Next, Handlers, Closing
<1>3. ASSUME ~wedged, wedged' PROVE Stuck'
  <2>1. OnWriteError /\ link = "resolving"
    BY <1>3 DEF Next, Handlers, StartTimer, Send, Quit, StopTimer, PostClose, Join, Resolved,
       Connected, ConnectFails, RunSend, Enqueue, RunClose, OnWritten, OnWriteError, OnRead,
       OnReadError, OnTimer, RunReturns, WriteCompletes, ReadCompletes, ServerSends, PeerCloses,
       Expire, writeVars
  <2>2. /\ written # << >> /\ written' = Tail(written)
        /\ UNCHANGED <<writing, write_msgs_, taken>>
    BY <2>1 DEF OnWriteError
  <2>3. writing = << >> /\ taken = << >> /\ write_msgs_ # << >>
    BY <1>1, <2>1, <2>2 DEF BeforeConnected, Unmade, OneWrite
  <2>4. written' = << >>
    <3>1. Len(written) \in Nat \ {0} /\ Tail(written) \in Seq(BOOLEAN)
          /\ Len(Tail(written)) = Len(written) - 1
      BY <1>1, <2>2, Popping
    <3>2. Len(Tail(written)) = 0
      BY <1>1, <3>1 DEF OneWrite
    <3> QED BY <2>2, <3>1, <3>2, EmptySeq
  <2> QED BY <2>2, <2>3, <2>4 DEF Stuck
<1> QED BY <1>1, <1>2, <1>3 DEF Stuck

-----------------------------------------------------------------------------
(* The reads and the server's text.                                         *)
LEMMA ReadAgain ==
  ASSUME IInv, NEW r, DoRead(r), UNCHANGED <<inbox, chunks, read_buffer_>>,
         \/ r = readDone /\ printed' = printed
         \/ Filled /\ r = Tail(readDone) /\ printed' = Append(printed, read_buffer_)
  PROVE  /\ ReadTypes' /\ TextTypes' /\ ReadOrder'
         /\ Reads' <= Reads + 1
         /\ Filled /\ r = Tail(readDone) => Reads' <= Reads
         /\ ~parallel' => Reads' <= 1
<1>1. /\ readDone \in Seq(BOOLEAN) /\ reading \in Nat /\ Len(readDone) \in Nat
      /\ inbox \in Seq(1 .. chunks) /\ Len(inbox) \in Nat /\ printed \in Seq(0 .. chunks)
      /\ Len(printed) \in Nat /\ read_buffer_ \in 0 .. chunks /\ chunks \in Nat
      /\ chunks \in 0 .. MaxChunks
  BY Lengths DEF IInv, TypeOK
<1>2. ~parallel => Reads <= 1
  BY DEF IInv, ReadCount
<1>3. /\ r \in Seq(BOOLEAN) /\ Len(r) \in Nat
      /\ r = readDone \/ (Filled /\ Len(r) = Len(readDone) - 1)
  <2>1. Filled /\ r = Tail(readDone) => r \in Seq(BOOLEAN) /\ Len(r) = Len(readDone) - 1
    BY <1>1, Popping DEF Filled
  <2>2. r \in Seq(BOOLEAN) /\ (r = readDone \/ (Filled /\ Len(r) = Len(readDone) - 1))
    BY <1>1, <2>1
  <2> QED BY <2>2, LenProperties
<1>4. /\ reading' \in Nat /\ readDone' \in Seq(BOOLEAN) /\ parallel' \in BOOLEAN
      /\ reading' + Len(readDone') = reading + Len(r) + 1
      /\ FirstOf(r, readDone')
      /\ ~parallel' => ~parallel /\ reading' + Len(readDone') <= 1
  BY <1>3, ReadEffect DEF IInv
<1>5. Len(r) <= Len(readDone)
  BY <1>1, <1>3
<1>6. /\ Reads' <= Reads + 1
      /\ Len(r) = Len(readDone) - 1 => Reads' <= Reads
      /\ ~parallel' => Reads' <= 1
  <2>1. Len(readDone') \in Nat
    BY <1>4, LenProperties
  <2> QED BY <1>1, <1>3, <1>4, <1>5, <2>1 DEF Reads
<1>7. Filled /\ r = Tail(readDone) => Reads' <= Reads
  <2>1. Filled /\ r = Tail(readDone) => Len(r) = Len(readDone) - 1
    BY <1>1, Popping DEF Filled
  <2> QED BY <1>6, <2>1
<1>8. ReadTypes'
  BY <1>4 DEF ReadTypes
<1>9. TextTypes'
  <2>1. printed' \in Seq(0 .. chunks)
    <3>1. Append(printed, read_buffer_) \in Seq(0 .. chunks) /\ printed \in Seq(0 .. chunks)
      BY <1>1, AppendProperties
    <3> QED BY <3>1
  <2> QED BY <1>1, <2>1 DEF TextTypes
<1>10. ASSUME ~parallel' PROVE ~parallel /\ r = << >> /\ ~Filled'
  <2>1. Len(r) = 0
    <3>1. Len(readDone') \in Nat
      BY <1>4, LenProperties
    <3> QED BY <1>1, <1>3, <1>4, <1>10, <3>1
  <2>2. r = << >>
    BY <1>3, <2>1, EmptySeq
  <2>3. readDone' # << >> => readDone'[1] = FALSE
    BY <1>4, <2>2, Zenon DEF FirstOf
  <2>4. ~Filled'
    BY <2>3, Zenon DEF Filled
  <2> QED BY <1>4, <1>10, <2>2, <2>4
<1>11. ReadOrder'
  <2>1. \A k \in 1 .. Len(inbox') : inbox'[k] = chunks' - Len(inbox') + k
    BY DEF IInv, ReadOrder
  <2>2. ASSUME ~parallel'
        PROVE  /\ \A k \in 1 .. Len(printed') : printed'[k] = k
               /\ Len(printed') + (IF Filled' THEN 1 ELSE 0) = chunks' - Len(inbox')
               /\ Filled' => read_buffer_' = Len(printed') + 1
    <3>1. ~parallel /\ r = << >> /\ ~Filled'
      BY <1>10, <2>2
    <3>2. /\ \A k \in 1 .. Len(printed) : printed[k] = k
          /\ Len(printed) + (IF Filled THEN 1 ELSE 0) = chunks - Len(inbox)
          /\ Filled => read_buffer_ = Len(printed) + 1
      BY <3>1 DEF IInv, ReadOrder
    <3>3. CASE r = readDone /\ printed' = printed
      <4>1. ~Filled
        BY <3>1, <3>3 DEF Filled
      <4> QED BY <3>1, <3>2, <3>3, <4>1
    <3>4. CASE Filled /\ r = Tail(readDone) /\ printed' = Append(printed, read_buffer_)
      <4>1. /\ Len(printed') = Len(printed) + 1
            /\ \A k \in 1 .. Len(printed) : printed'[k] = printed[k]
            /\ printed'[Len(printed) + 1] = read_buffer_
        BY <1>1, <3>4, AppendProperties
      <4>2. \A k \in 1 .. Len(printed) : printed'[k] = k
        BY <3>2, <4>1
      <4>3. printed'[Len(printed) + 1] = Len(printed) + 1
        BY <3>2, <3>4, <4>1
      <4>4. \A k \in 1 .. Len(printed') : printed'[k] = k
        BY <1>1, <4>1, <4>2, <4>3, LastOrBefore
      <4>5. Len(printed') + 0 = chunks' - Len(inbox')
        BY <1>1, <3>2, <3>4, <4>1
      <4> QED BY <3>1, <4>4, <4>5
    <3> QED BY <3>3, <3>4
  <2> QED BY <2>1, <2>2 DEF ReadOrder
<1> QED BY <1>6, <1>7, <1>8, <1>9, <1>11

LEMMA ReadStep ==
  ASSUME IInv, Next
  PROVE  ReadTypes' /\ TextTypes' /\ ReadCount' /\ ReadOrder'
<1> DEFINE Early(l) == l \in {"resolving", "connecting"}
<1>1. /\ reading \in Nat /\ Len(readDone) \in Nat /\ Len(inbox) \in Nat /\ Len(printed) \in Nat
      /\ chunks \in Nat /\ chunks \in 0 .. MaxChunks /\ drained \in Nat /\ Reads \in Nat
  BY Lengths DEF IInv, TypeOK, Reads
<1>2. ReadTypes /\ TextTypes /\ ReadCount /\ ReadOrder /\ BeforeConnected
  BY TypeParts DEF IInv
<1>3. ASSUME UNCHANGED <<readVars, drained>>, Early(link') => Early(link)
      PROVE  ReadTypes' /\ TextTypes' /\ ReadCount' /\ ReadOrder'
  <2>1. ReadTypes' /\ TextTypes'
    BY <1>2, <1>3 DEF ReadTypes, TextTypes, readVars
  <2>2. Reads' = Reads /\ parallel' = parallel /\ drained' = drained
    BY <1>3 DEF Reads, readVars
  <2>3. ReadCount'
    BY <1>1, <1>2, <1>3, <2>2 DEF ReadCount
  <2>4. ReadOrder'
    BY <1>2, <1>3 DEF ReadOrder, Filled, readVars
  <2> QED BY <2>1, <2>3, <2>4
<1>4. CASE Connected
  <2>1. link' = "connected" /\ DoRead(readDone)
    BY <1>4 DEF Connected
  <2>2. ReadTypes' /\ TextTypes' /\ ReadCount' /\ ReadOrder'
    <3>1. /\ link = "connecting" /\ UNCHANGED <<inbox, chunks, read_buffer_, printed, drained>>
      BY <1>4 DEF Connected, writeVars
    <3>2. /\ ReadTypes' /\ TextTypes' /\ ReadOrder' /\ Reads' <= Reads + 1
          /\ ~parallel' => Reads' <= 1
      BY <2>1, <3>1, ReadAgain
    <3>3. Reads <= 0
      BY <1>1, <1>2, <3>1 DEF ReadCount, BeforeConnected, Unmade
    <3>4. Reads' \in Nat
      <4>1. Len(readDone') \in Nat
        BY <3>2, LenProperties DEF ReadTypes
      <4> QED BY <3>2, <4>1 DEF Reads, ReadTypes
    <3>5. Reads' <= drained' + 1
      BY <1>1, <3>1, <3>2, <3>3, <3>4
    <3> QED BY <2>1, <3>2, <3>5 DEF ReadCount
  <2> QED BY <2>2
<1>5. CASE OnWritten
  <2>1. written # << >> /\ Head(written) /\ link' = link
    BY <1>5 DEF OnWritten
  <2>2. ~Early(link)
    <3>1. FrontTaken
      <4>1. written[1] = TRUE
        BY <2>1, Popping DEF IInv, TypeOK
      <4> QED BY <2>1, <4>1, Zenon DEF FrontTaken
    <3> QED BY <1>2, <3>1 DEF BeforeConnected, Unmade
  <2>3. CASE UNCHANGED <<drained, readVars>>
    BY <1>3, <2>1, <2>3
  <2>4. CASE /\ drained' = drained + 1 /\ DoRead(readDone)
             /\ UNCHANGED <<writing, inbox, chunks, read_buffer_, printed>>
    <3>1. /\ ReadTypes' /\ TextTypes' /\ ReadOrder' /\ Reads' <= Reads + 1
          /\ ~parallel' => Reads' <= 1
      BY <2>4, ReadAgain
    <3>2. Reads <= drained + 1
      BY <1>2, <2>2 DEF ReadCount
    <3>3. Reads' \in Nat
      <4>1. Len(readDone') \in Nat
        BY <3>1, LenProperties DEF ReadTypes
      <4> QED BY <3>1, <4>1 DEF Reads, ReadTypes
    <3>4. Reads' <= drained' + 1
      BY <1>1, <2>4, <3>1, <3>2, <3>3
    <3> QED BY <2>1, <2>2, <3>1, <3>4 DEF ReadCount
  <2> QED BY <1>5, <2>3, <2>4 DEF OnWritten
<1>6. CASE OnRead
  <2>1. /\ readDone # << >> /\ Head(readDone) /\ printed' = Append(printed, read_buffer_)
        /\ link' = link /\ DoRead(Tail(readDone))
        /\ UNCHANGED <<drained, inbox, chunks, read_buffer_>>
    BY <1>6 DEF OnRead, writeVars
  <2>2. Filled
    <3>1. readDone[1] = TRUE
      BY <2>1, Popping DEF IInv, TypeOK
    <3> QED BY <2>1, <3>1, Zenon DEF Filled
  <2>3. /\ ReadTypes' /\ TextTypes' /\ ReadOrder' /\ Reads' <= Reads
        /\ ~parallel' => Reads' <= 1
    BY <2>1, <2>2, ReadAgain
  <2>4. Reads' \in Nat
    <3>1. Len(readDone') \in Nat
      BY <2>3, LenProperties DEF ReadTypes
    <3> QED BY <2>3, <3>1 DEF Reads, ReadTypes
  <2>5. Reads' <= drained' + IF link' \in {"resolving", "connecting"} THEN 0 ELSE 1
    <3>1. Reads <= drained + IF link \in {"resolving", "connecting"} THEN 0 ELSE 1
      BY <1>2 DEF ReadCount
    <3>2. drained' = drained /\ link' = link
      BY <2>1
    <3> QED BY <1>1, <2>3, <2>4, <3>1, <3>2
  <2> QED BY <2>3, <2>5 DEF ReadCount
<1>7. CASE Closing
  <2>1. /\ UNCHANGED <<drained, inbox, chunks, read_buffer_, printed, parallel>>
        /\ link' = link \/ link' = "closed"
    BY <1>7, ClosingWrites
  <2>2. /\ reading' \in Nat /\ readDone' \in Seq(BOOLEAN) /\ Reads' <= Reads
        /\ ~parallel => (Filled' <=> Filled)
    BY <1>7, ClosingReads
  <2>3. ReadTypes' /\ TextTypes'
    BY <1>2, <2>1, <2>2 DEF ReadTypes, TextTypes
  <2>4. Reads' \in Nat
    <3>1. Len(readDone') \in Nat
      BY <2>2, LenProperties
    <3> QED BY <2>2, <3>1 DEF Reads
  <2>5. ReadCount'
    BY <1>1, <1>2, <2>1, <2>2, <2>4 DEF ReadCount
  <2>6. ReadOrder'
    BY <1>2, <2>1, <2>2 DEF ReadOrder
  <2> QED BY <2>3, <2>5, <2>6
<1>8. CASE ReadCompletes
  <2>1. /\ link = "connected" /\ reading > 0 /\ inbox # << >>
        /\ read_buffer_' = Head(inbox) /\ inbox' = Tail(inbox)
        /\ reading' = reading - 1 /\ readDone' = Append(readDone, TRUE)
        /\ UNCHANGED <<link, drained, chunks, printed, parallel>>
    BY <1>8 DEF ReadCompletes, Error, writeVars
  <2>2. /\ inbox \in Seq(1 .. chunks) /\ readDone \in Seq(BOOLEAN)
    BY DEF IInv, TypeOK
  <2>3. /\ Len(inbox) \in Nat \ {0} /\ read_buffer_' = inbox[1] /\ inbox[1] \in 1 .. chunks
        /\ inbox' \in Seq(1 .. chunks) /\ Len(inbox') = Len(inbox) - 1
        /\ \A k \in 1 .. Len(inbox) - 1 : inbox'[k] = inbox[k + 1]
    BY <2>1, <2>2, Popping
  <2>4. /\ readDone' \in Seq(BOOLEAN) /\ Len(readDone') = Len(readDone) + 1 /\ readDone' # << >>
        /\ readDone = << >> => readDone'[1] = TRUE
    <3>1. \A e \in BOOLEAN :
            /\ Append(readDone, e) \in Seq(BOOLEAN)
            /\ Len(Append(readDone, e)) = Len(readDone) + 1 /\ Append(readDone, e) # << >>
            /\ readDone = << >> => Append(readDone, e)[1] = e
      BY <2>2, Pushing
    <3>2. /\ Append(readDone, TRUE) \in Seq(BOOLEAN)
          /\ Len(Append(readDone, TRUE)) = Len(readDone) + 1 /\ Append(readDone, TRUE) # << >>
      BY <3>1, Zenon
    <3>3. readDone = << >> => Append(readDone, TRUE)[1] = TRUE
      BY <3>1
    <3>4. readDone' = Append(readDone, TRUE)
      BY <2>1
    <3> QED BY <3>2, <3>3, <3>4, Zenon
  <2>5. Reads' = Reads
    BY <1>1, <2>1, <2>4 DEF Reads
  <2>6. ReadTypes' /\ TextTypes'
    BY <1>1, <1>2, <2>1, <2>3, <2>4 DEF ReadTypes, TextTypes
  <2>7. ReadCount'
    BY <1>2, <2>1, <2>5 DEF ReadCount
  <2>8. \A k \in 1 .. Len(inbox') : inbox'[k] = chunks' - Len(inbox') + k
    <3> TAKE k \in 1 .. Len(inbox')
    <3>1. k + 1 \in 1 .. Len(inbox) /\ k \in 1 .. Len(inbox) - 1
      BY <2>3
    <3>2. inbox[k + 1] = chunks - Len(inbox) + (k + 1)
      BY <1>2, <3>1 DEF ReadOrder
    <3> QED BY <1>1, <2>1, <2>3, <3>1, <3>2
  <2>9. ASSUME ~parallel'
        PROVE  /\ \A k \in 1 .. Len(printed') : printed'[k] = k
               /\ Len(printed') + (IF Filled' THEN 1 ELSE 0) = chunks' - Len(inbox')
               /\ Filled' => read_buffer_' = Len(printed') + 1
    <3>1. Len(readDone) = 0
      BY <1>1, <1>2, <2>1, <2>9 DEF ReadCount, Reads
    <3>2. readDone = << >>
      BY <2>2, <3>1, EmptySeq
    <3>3. ~Filled
      BY <3>2 DEF Filled
    <3>4. Filled'
      BY <2>4, <3>2, Zenon DEF Filled
    <3>5. (\A k \in 1 .. Len(printed) : printed[k] = k) /\ Len(printed) + 0 = chunks - Len(inbox)
      BY <1>2, <2>1, <2>9, <3>3 DEF ReadOrder
    <3>6. inbox[1] = chunks - Len(inbox) + 1
      <4>1. 1 \in 1 .. Len(inbox)
        BY <2>3
      <4> QED BY <1>2, <4>1 DEF ReadOrder
    <3>7. printed' = printed /\ chunks' = chunks
      BY <2>1
    <3>8. Len(printed') + 1 = chunks' - Len(inbox') /\ read_buffer_' = Len(printed') + 1
      <4>1. Len(inbox') = Len(inbox) - 1 /\ read_buffer_' = chunks - Len(inbox) + 1
        BY <2>3, <3>6
      <4>2. Len(printed) = chunks - Len(inbox)
        BY <1>1, <3>5
      <4> QED BY <1>1, <3>7, <4>1, <4>2
    <3> QED BY <3>4, <3>5, <3>7, <3>8
  <2> QED BY <2>6, <2>7, <2>8, <2>9 DEF ReadOrder
<1>9. CASE ServerSends
  <2>1. /\ chunks < MaxChunks /\ chunks' = chunks + 1 /\ inbox' = Append(inbox, chunks + 1)
        /\ UNCHANGED <<link, drained, reading, readDone, read_buffer_, printed, parallel>>
    BY <1>9 DEF ServerSends, writeVars
  <2>2. /\ inbox \in Seq(1 .. chunks + 1) /\ printed \in Seq(0 .. chunks + 1)
        /\ chunks + 1 \in 1 .. chunks + 1 /\ read_buffer_ \in 0 .. chunks + 1
    <3>1. 1 .. chunks \subseteq 1 .. chunks + 1 /\ 0 .. chunks \subseteq 0 .. chunks + 1
      BY <1>1
    <3> QED BY <1>1, <1>2, <3>1, SeqMonotonic DEF TextTypes
  <2>3. /\ inbox' \in Seq(1 .. chunks + 1) /\ Len(inbox') = Len(inbox) + 1
        /\ \A k \in 1 .. Len(inbox) : inbox'[k] = inbox[k]
        /\ inbox'[Len(inbox) + 1] = chunks + 1
    BY <2>1, <2>2, AppendProperties
  <2>4. ReadTypes' /\ TextTypes'
    <3>1. chunks + 1 \in 0 .. MaxChunks
      BY <1>1, <2>1, AsioAssumption
    <3> QED BY <1>2, <2>1, <2>2, <2>3, <3>1 DEF ReadTypes, TextTypes
  <2>5. Reads' = Reads /\ (Filled' <=> Filled)
    BY <2>1 DEF Reads, Filled
  <2>6. ReadCount'
    BY <1>2, <2>1, <2>5 DEF ReadCount
  <2>7. (chunks + 1) - (Len(inbox) + 1) = chunks - Len(inbox)
    BY <1>1
  <2>8. chunks' - Len(inbox') = chunks - Len(inbox)
    BY <2>1, <2>3, <2>7
  <2>9. \A k \in 1 .. Len(inbox') : inbox'[k] = chunks' - Len(inbox') + k
    <3>1. \A k \in 1 .. Len(inbox) : inbox'[k] = chunks - Len(inbox) + k
      BY <1>2, <2>3 DEF ReadOrder
    <3>2. inbox'[Len(inbox) + 1] = chunks - Len(inbox) + (Len(inbox) + 1)
      BY <1>1, <2>3
    <3> QED BY <1>1, <2>3, <2>8, <3>1, <3>2, LastOrBefore
  <2>10. ReadOrder'
    BY <1>2, <2>1, <2>5, <2>8, <2>9 DEF ReadOrder
  <2> QED BY <2>4, <2>6, <2>10
<1>10. CASE \/ StartTimer \/ Send \/ Quit \/ StopTimer \/ PostClose \/ Join \/ Resolved
            \/ ConnectFails \/ RunSend
            \/ OnTimer \/ RunReturns \/ WriteCompletes \/ Expire
  <2>1. UNCHANGED <<readVars, drained>> /\ (link' = link \/ Early(link))
    BY <1>10 DEF StartTimer, Send, Quit, StopTimer, PostClose, Join, Resolved, ConnectFails, RunSend, Enqueue,
       OnTimer, RunReturns, WriteCompletes, Expire, writeVars
  <2> QED BY <1>3, <2>1
<1> QED BY <1>4, <1>5, <1>6, <1>7, <1>8, <1>9, <1>10 DEF Next, Handlers, Closing

-----------------------------------------------------------------------------
(* The handlers that hold a message are the first Queued ones.              *)
LEMMA QueuedCounts ==
  ASSUME IInv
  PROVE  Cardinality({j \in DOMAIN posted : posted[j] # 0}) = Queued
<1>1. /\ posted \in Seq(0 .. sends) /\ Len(posted) \in Nat /\ DOMAIN posted = 1 .. Len(posted)
      /\ PostOrder
  BY Lengths DEF IInv, TypeOK
<1>2. Queued \in Nat
  BY <1>1, EmptySeq DEF Queued
<1>3. {j \in DOMAIN posted : posted[j] # 0} = 1 .. Queued
  <2>1. CASE posted # << >> /\ posted[Len(posted)] = 0
    <3>1. Queued = Len(posted) - 1
      BY <2>1 DEF Queued
    <3>2. \A j \in 1 .. Len(posted) : posted[j] # 0 <=> j <= Len(posted) - 1
      <4> TAKE j \in 1 .. Len(posted)
      <4>1. posted[j] = 0 <=> j = Len(posted)
        BY <1>1, <2>1 DEF PostOrder
      <4>2. j <= Len(posted) - 1 <=> ~(j = Len(posted))
        <5>1. Len(posted) \in Nat
          BY <1>1
        <5> QED BY <5>1
      <4> QED BY <4>1, <4>2, Zenon
    <3> QED BY <1>1, <3>1, <3>2
  <2>2. CASE ~(posted # << >> /\ posted[Len(posted)] = 0)
    <3>1. Queued = Len(posted)
      BY <2>2 DEF Queued
    <3>2. \A j \in 1 .. Len(posted) : posted[j] # 0
      <4> TAKE j \in 1 .. Len(posted)
      <4>1. posted # << >>
        BY <1>1, EmptySeq
      <4> QED BY <1>1, <2>2, <4>1 DEF PostOrder
    <3> QED BY <1>1, <3>1, <3>2
  <2> QED BY <2>1, <2>2
<1>4. Cardinality(1 .. Queued) = Queued
  BY <1>2, FS_Interval
<1> QED BY <1>3, <1>4

LEMMA InitIInv ==
  ASSUME Init
  PROVE  IInv
<1>1. TypeOK
  <2>1. \A S : << >> \in Seq(S)
    BY EmptySeq
  <2>2. /\ posted \in Seq(0 .. sends) /\ write_msgs_ \in Seq(1 .. sends)
        /\ writing \in Seq(1 .. sends) /\ written \in Seq(BOOLEAN) /\ taken \in Seq(1 .. sends)
        /\ readDone \in Seq(BOOLEAN) /\ inbox \in Seq(1 .. chunks) /\ printed \in Seq(0 .. chunks)
    BY <2>1, Zenon DEF Init
  <2>3. /\ sends \in 0 .. MaxSends /\ chunks \in 0 .. MaxChunks /\ read_buffer_ \in 0 .. chunks
        /\ reading \in Nat /\ drained \in Nat /\ tried \in 0 .. Endpoints
    BY AsioAssumption DEF Init
  <2>4. /\ main \in {"start", "input", "stop", "close", "join", "end"} /\ running \in BOOLEAN
        /\ link \in {"resolving", "connecting", "connected", "failed", "closed"}
        /\ timer \in {"none", "armed", "fired", "cancelled", "off"}
        /\ wedged \in BOOLEAN /\ revived \in BOOLEAN /\ parallel \in BOOLEAN
    BY DEF Init
  <2> QED BY <2>2, <2>3, <2>4 DEF TypeOK
<1>2. /\ Len(posted) = 0 /\ Len(write_msgs_) = 0 /\ Len(writing) = 0 /\ Len(written) = 0
      /\ Len(taken) = 0 /\ Len(readDone) = 0 /\ Len(inbox) = 0 /\ Len(printed) = 0
  <2>1. Len(<< >>) = 0
    BY EmptySeq
  <2> QED BY <2>1, Zenon DEF Init
<1>3. sends = 0 /\ chunks = 0 /\ reading = 0 /\ drained = 0
  BY DEF Init
<1>4. Queued = 0
  <2>1. posted = << >>
    BY DEF Init
  <2> QED BY <1>2, <2>1 DEF Queued
<1>5. Popped = 0
  BY <1>2, <1>3, <1>4 DEF Popped
<1>6. PostOrder /\ OneWrite
  <2>1. writing = << >> /\ written = << >>
    BY DEF Init
  <2> QED BY <1>2, <1>4, <2>1 DEF PostOrder, OneWrite
<1>7. ~FrontTaken /\ ~Filled
  BY DEF Init, FrontTaken, Filled
<1>8. WriteOrder
  BY <1>2, <1>5, <1>7 DEF WriteOrder
<1>9. BeforeConnected /\ Stuck
  BY <1>7, AsioAssumption DEF Init, BeforeConnected, Stuck
<1>10. ReadCount /\ ReadOrder
  <2>1. Reads = 0
    BY <1>2, <1>3 DEF Reads
  <2>2. ReadCount
    BY <1>3, <2>1 DEF ReadCount
  <2>3. ReadOrder
    BY <1>2, <1>3, <1>7 DEF ReadOrder
  <2> QED BY <2>2, <2>3
<1> QED BY <1>1, <1>6, <1>8, <1>9, <1>10 DEF IInv

LEMMA StutterIInv ==
  ASSUME IInv, UNCHANGED vars
  PROVE  IInv'
<1> USE DEF vars, mainVars, writeVars, readVars
<1>1. TypeOK'
  BY DEF IInv, TypeOK
<1>2. Queued' = Queued /\ Popped' = Popped
  BY DEF Queued, Popped
<1>3. PostOrder' /\ OneWrite'
  BY <1>2 DEF IInv, PostOrder, OneWrite
<1>4. (FrontTaken' <=> FrontTaken) /\ (Filled' <=> Filled) /\ Reads' = Reads
  BY DEF FrontTaken, Filled, Reads
<1>5. WriteOrder' /\ BeforeConnected' /\ Stuck'
  BY <1>2, <1>4 DEF IInv, WriteOrder, BeforeConnected, Unmade, Stuck
<1>6. ReadCount' /\ ReadOrder'
  BY <1>4 DEF IInv, ReadCount, ReadOrder
<1> QED BY <1>1, <1>3, <1>5, <1>6 DEF IInv

(* Every reachable state of the client satisfies the inductive invariant.   *)
THEOREM AsioInvariance == Spec => []IInv
<1>1. Init => IInv
  BY InitIInv
<1>2. IInv /\ [Next]_vars => IInv'
  <2> SUFFICES ASSUME IInv, [Next]_vars PROVE IInv'
    OBVIOUS
  <2>1. CASE Next
    <3>1. MainTypes'
      BY <2>1, MainTypesStep, TypeParts DEF IInv
    <3>2. PostOrder' /\ SendTypes'
      BY <2>1, PostStep
    <3>3. WriteTypes' /\ OneWrite' /\ WriteOrder'
      BY <2>1, WriteStep
    <3>4. ReadTypes' /\ TextTypes' /\ ReadCount' /\ ReadOrder'
      BY <2>1, ReadStep
    <3>5. BeforeConnected' /\ Stuck'
      BY <2>1, BeforeConnectedStep, StuckStep
    <3>6. TypeOK'
      BY <3>1, <3>2, <3>3, <3>4 DEF TypeOK, MainTypes, SendTypes, WriteTypes, ReadTypes, TextTypes
    <3> QED BY <3>2, <3>3, <3>4, <3>5, <3>6 DEF IInv
  <2>2. CASE UNCHANGED vars
    BY <2>2, StutterIInv
  <2> QED BY <2>1, <2>2
<1> QED BY <1>1, <1>2, PTL DEF Spec

(* The state stays within its types, whatever main(), the io thread, the    *)
(* kernel and the server do.                                                *)
THEOREM AsioTypeCorrect == Spec => []TypeOK
<1>1. IInv => TypeOK
  BY DEF IInv
<1> QED BY <1>1, AsioInvariance, PTL

(* AsioClient::do_write never has two writes outstanding, and the server    *)
(* gets what send() was called with, in that order and without a gap.       *)
THEOREM AsioSentInOrder == Spec => []SentInOrder
<1>1. IInv => SentInOrder
  <2> SUFFICES ASSUME IInv PROVE SentInOrder
    OBVIOUS
  <2>1. OneWrite /\ WriteOrder /\ Len(write_msgs_) \in Nat /\ sends \in Nat /\ Queued \in Int
    BY Lengths DEF IInv, Queued
  <2>2. DOMAIN taken = 1 .. Len(taken) /\ DOMAIN write_msgs_ = 1 .. Len(write_msgs_)
    BY Lengths DEF IInv
  <2>3. ASSUME NEW k \in DOMAIN write_msgs_
        PROVE  write_msgs_[k] = sends - Len(write_msgs_) + k - Queued
    BY <2>1, <2>2, <2>3 DEF WriteOrder, Popped
  <2>4. \A k \in DOMAIN taken : taken[k] = k
    BY <2>1, <2>2 DEF WriteOrder
  <2>5. wedged => write_msgs_ # << >> /\ writing = << >> /\ taken = << >>
    BY DEF IInv, Stuck
  <2> QED BY <2>1, <2>3, <2>4, <2>5, QueuedCounts DEF SentInOrder, OneWrite
<1> QED BY <1>1, AsioInvariance, PTL

(* AsioClient::do_read is started once for the connection and once for each *)
(* time the write queue drained; until two reads share read_buffer_, cout   *)
(* gets the server's text in order and complete.                            *)
THEOREM AsioOutputIsStream == Spec => []OutputIsStream
<1>1. IInv => OutputIsStream
  <2> SUFFICES ASSUME IInv PROVE OutputIsStream
    OBVIOUS
  <2>1. /\ reading \in Nat /\ Len(readDone) \in Nat /\ drained \in Nat
        /\ DOMAIN printed = 1 .. Len(printed)
    BY Lengths DEF IInv, TypeOK
  <2>2. reading + Len(readDone) <= 1 + drained
    BY <2>1 DEF IInv, ReadCount, Reads
  <2>3. ~parallel => \A k \in DOMAIN printed : printed[k] = k
    BY <2>1 DEF IInv, ReadOrder
  <2> QED BY <2>2, <2>3 DEF OutputIsStream
<1> QED BY <1>1, AsioInvariance, PTL

=============================================================================
