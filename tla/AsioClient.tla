----------------------------- MODULE AsioClient -----------------------------
(***************************************************************************)
(* AsioClient of LibraryUse/AsioUse and its main(): the main thread posts  *)
(* sends and the final close; one thread runs the io_context, so handlers  *)
(* run one at a time while the kernel completes operations in between.     *)
(* An operation is outstanding until it completes, and its handler is      *)
(* ready from then until the io thread runs it; closing the socket makes   *)
(* every outstanding operation complete with an error.                     *)
(***************************************************************************)
EXTENDS Integers, Sequences, FiniteSets

CONSTANTS
  MaxSends,    \* bound: lines typed before "quit"
  MaxChunks,   \* bound: pieces of text the server sends
  Endpoints    \* how many addresses the host's name stands for

ASSUME AsioAssumption ==
  MaxSends \in Nat /\ MaxChunks \in Nat /\ Endpoints \in Nat \ {0}

VARIABLES
  main,        \* main(): "start", "input", "stop", "close", "join", "end"
  sends,       \* messages sent so far, numbered 1, 2, ...
  posted,      \* handlers posted to the io_context: a message, or 0 for close
  running,     \* io_context.run() has not returned
  tried,       \* the addresses that could not be connected to
  link,        \* "resolving", "connecting", "connected", "failed", "closed"
  write_msgs_,
  writing,     \* messages given to async_write and not completed
  written,     \* completed writes whose handler is ready: error or not
  taken,       \* the messages the server's kernel has taken, in order
  reading,     \* number of outstanding async_read_some
  readDone,    \* completed reads whose handler is ready: error or not
  inbox,       \* chunks that have arrived and are not read
  chunks,      \* chunks the server has sent
  read_buffer_,\* the chunk in the buffer all reads share
  printed,     \* chunks the read handler has written to cout
  timer,       \* "none", "armed", "fired", "cancelled", "off"
  drained,     \* history: times the write queue became empty
  wedged,      \* history: a write failed before there was a socket
  revived,     \* history: work began after main had asked for the end
  parallel     \* history: two reads have shared the buffer

writeVars == <<write_msgs_, writing, written, taken, drained, wedged>>
readVars  == <<reading, readDone, inbox, chunks, read_buffer_, printed, parallel>>
mainVars  == <<main, sends>>
vars == <<mainVars, posted, running, tried, link, writeVars, readVars, timer, revived>>

Quitting == main \in {"close", "join", "end"}
Error == FALSE

Init ==
  /\ main = "start" /\ sends = 0 /\ posted = << >> /\ running = TRUE
  /\ link = "resolving" /\ tried = 0
  /\ write_msgs_ = << >> /\ writing = << >> /\ written = << >> /\ taken = << >>
  /\ reading = 0 /\ readDone = << >> /\ inbox = << >> /\ chunks = 0
  /\ read_buffer_ = 0 /\ printed = << >>
  /\ timer = "none" /\ drained = 0 /\ wedged = FALSE /\ revived = FALSE /\ parallel = FALSE

-----------------------------------------------------------------------------
(* main(): start_repeating_timer, the input loop, stop_timer, close, join.  *)
StartTimer ==
  /\ main = "start" /\ main' = "input" /\ timer' = "armed"
  /\ UNCHANGED <<sends, posted, running, tried, link, writeVars, readVars, revived>>

Send ==
  /\ main = "input" /\ sends < MaxSends
  /\ sends' = sends + 1 /\ posted' = Append(posted, sends')
  /\ UNCHANGED <<main, running, tried, link, writeVars, readVars, timer, revived>>

Quit ==
  /\ main = "input" /\ main' = "stop"
  /\ UNCHANGED <<sends, posted, running, tried, link, writeVars, readVars, timer, revived>>

\* cancel() reaches a wait that has not expired, not a handler that is ready.
StopTimer ==
  /\ main = "stop" /\ main' = "close"
  /\ timer' = IF timer = "armed" THEN "cancelled" ELSE timer
  /\ UNCHANGED <<sends, posted, running, tried, link, writeVars, readVars, revived>>

PostClose ==
  /\ main = "close" /\ main' = "join"
  /\ posted' = Append(posted, 0)
  /\ UNCHANGED <<sends, running, tried, link, writeVars, readVars, timer, revived>>

Join ==
  /\ main = "join" /\ ~running /\ main' = "end"
  /\ UNCHANGED <<sends, posted, running, tried, link, writeVars, readVars, timer, revived>>

-----------------------------------------------------------------------------
Errors(n) == [k \in 1 .. n |-> Error]

(* socket_.close(): while resolving there is no socket yet, and no effect.  *)
Close(keep) ==
  IF link = "resolving" THEN UNCHANGED <<link, writing, written, reading, readDone>>
  ELSE /\ link' = "closed"
       /\ writing' = << >> /\ written' = keep.written \o Errors(Len(writing))
       /\ reading' = 0 /\ readDone' = keep.readDone \o Errors(reading)

(* do_read and do_write on a socket that is not open fail at once, and so     *)
(* they do on one that could not be connected.  While the socket is          *)
(* connecting, a write waits behind the connect on the same descriptor.      *)
DoRead(ready) ==
  /\ reading' = IF link' = "connected" THEN reading + 1 ELSE reading
  /\ readDone' = IF link' = "connected" THEN ready ELSE Append(ready, Error)
  /\ parallel' = (parallel \/ reading' + Len(readDone') > 1)

Open == link \in {"connecting", "connected"}

DoWrite(ready) ==
  /\ writing' = IF Open THEN Append(writing, Head(write_msgs_')) ELSE writing
  /\ written' = IF Open THEN ready ELSE Append(ready, Error)

(* The handlers of connect().                                               *)
Resolved ==
  /\ running /\ link = "resolving"
  /\ link' \in {"connecting", "failed"}
  /\ revived' = (revived \/ (Quitting /\ link' = "connecting"))
  /\ UNCHANGED <<mainVars, posted, running, tried, writeVars, readVars, timer>>

Connected ==
  /\ running /\ link = "connecting" /\ link' = "connected"
  /\ DoRead(readDone)
  /\ UNCHANGED <<mainVars, posted, running, tried, writeVars, inbox, chunks, read_buffer_,
                 printed, timer, revived>>

(* The writes that waited for this connection fail with it; async_connect    *)
(* goes on to the next address, with a new socket, while there is one.       *)
ConnectFails ==
  /\ running /\ link = "connecting" /\ tried' = tried + 1
  /\ link' = IF tried' < Endpoints THEN "connecting" ELSE "failed"
  /\ writing' = << >> /\ written' = written \o Errors(Len(writing))
  /\ UNCHANGED <<mainVars, posted, running, write_msgs_, taken, drained, wedged, readVars,
                 timer, revived>>

(* The handler that send() posts.                                           *)
Enqueue(busy) ==
  /\ running /\ posted # << >> /\ Head(posted) # 0
  /\ posted' = Tail(posted)
  /\ write_msgs_' = Append(write_msgs_, Head(posted))
  /\ IF busy THEN UNCHANGED <<writing, written>> ELSE DoWrite(written)
  /\ UNCHANGED <<mainVars, running, tried, link, taken, drained, wedged, readVars, timer, revived>>

EnqueueAlways == Enqueue(FALSE)     \* mutant: does not look for a write in progress

RunSend == Enqueue(write_msgs_ # << >>)

(* The handler that close() posts.                                          *)
RunCloseAsMessage ==     \* mutant: close is an empty message for the queue
  /\ running /\ posted # << >> /\ Head(posted) = 0
  /\ posted' = Tail(posted) /\ write_msgs_' = Append(write_msgs_, 0)
  /\ UNCHANGED <<mainVars, running, tried, link, writing, written, taken, drained, wedged,
                 readVars, timer, revived>>

RunClose ==
  /\ running /\ posted # << >> /\ Head(posted) = 0
  /\ posted' = Tail(posted)
  /\ Close([written |-> written, readDone |-> readDone])
  /\ UNCHANGED <<mainVars, running, tried, write_msgs_, taken, drained, wedged, inbox, chunks,
                 read_buffer_, printed, parallel, timer, revived>>

(* The handler of async_write.                                              *)
OnWrittenStops ==        \* mutant: the next message waits for another send
  /\ running /\ written # << >> /\ Head(written)
  /\ write_msgs_' = Tail(write_msgs_)
  /\ written' = Tail(written)
  /\ UNCHANGED <<mainVars, posted, running, tried, link, writing, taken, drained, wedged, readVars,
                 timer, revived>>

OnWritten ==
  /\ running /\ written # << >> /\ Head(written)
  /\ write_msgs_' = Tail(write_msgs_)
  /\ \/ /\ write_msgs_' # << >>
        /\ DoWrite(Tail(written))
        /\ UNCHANGED <<drained, readVars>>
     \/ /\ write_msgs_' = << >>
        /\ written' = Tail(written)
        /\ drained' = drained + 1
        /\ UNCHANGED link /\ DoRead(readDone)
        /\ UNCHANGED <<writing, inbox, chunks, read_buffer_, printed>>
  /\ UNCHANGED <<mainVars, posted, running, tried, link, taken, wedged, timer, revived>>

OnWriteError ==          \* the message stays at the front of write_msgs_
  /\ running /\ written # << >> /\ ~Head(written)
  /\ IF link = "resolving"
     THEN written' = Tail(written) /\ UNCHANGED <<link, writing, reading, readDone>>
     ELSE Close([written |-> Tail(written), readDone |-> readDone])
  /\ wedged' = (wedged \/ link = "resolving")
  /\ UNCHANGED <<mainVars, posted, running, tried, write_msgs_, taken, drained, inbox, chunks,
                 read_buffer_, printed, parallel, timer, revived>>

(* The handler of async_read_some: prints what the buffer holds NOW.        *)
OnRead ==
  /\ running /\ readDone # << >> /\ Head(readDone)
  /\ printed' = Append(printed, read_buffer_)
  /\ UNCHANGED link /\ DoRead(Tail(readDone))
  /\ UNCHANGED <<mainVars, posted, running, tried, writeVars, inbox, chunks, read_buffer_,
                 timer, revived>>

OnReadErrorPrints ==     \* mutant: looks at the buffer before the error code
  /\ running /\ readDone # << >> /\ ~Head(readDone)
  /\ printed' = Append(printed, read_buffer_)
  /\ Close([written |-> written, readDone |-> Tail(readDone)])
  /\ UNCHANGED <<mainVars, posted, running, tried, write_msgs_, taken, drained, wedged, inbox,
                 chunks, read_buffer_, parallel, timer, revived>>

OnReadError ==
  /\ running /\ readDone # << >> /\ ~Head(readDone)
  /\ Close([written |-> written, readDone |-> Tail(readDone)])
  /\ UNCHANGED <<mainVars, posted, running, tried, write_msgs_, taken, drained, wedged, inbox, chunks,
                 read_buffer_, printed, parallel, timer, revived>>

(* The handler of repeat_timer: callback, then the next wait.               *)
OnTimerRearms ==         \* mutant: ignores the error code
  /\ running /\ timer \in {"fired", "cancelled"} /\ timer' = "armed"
  /\ revived' = (revived \/ (Quitting /\ timer = "fired"))
  /\ UNCHANGED <<mainVars, posted, running, tried, link, writeVars, readVars>>

OnTimer ==
  /\ running /\ timer \in {"fired", "cancelled"}
  /\ timer' = IF timer = "fired" THEN "armed" ELSE "off"
  /\ revived' = (revived \/ (Quitting /\ timer = "fired"))
  /\ UNCHANGED <<mainVars, posted, running, tried, link, writeVars, readVars>>

-----------------------------------------------------------------------------
(* run() returns when nothing is outstanding and no handler is ready.       *)
Work ==
  \/ posted # << >> \/ link \in {"resolving", "connecting"}
  \/ writing # << >> \/ written # << >> \/ reading > 0 \/ readDone # << >>
  \/ timer \in {"armed", "fired", "cancelled"}

RunReturns ==
  /\ running /\ ~Work /\ running' = FALSE
  /\ UNCHANGED <<mainVars, posted, tried, link, writeVars, readVars, timer, revived>>

(* The kernel and the server.                                               *)
WriteCompletes ==
  /\ link = "connected"
  /\ \E k \in DOMAIN writing :
       /\ taken' = Append(taken, writing[k])
       /\ writing' = SubSeq(writing, 1, k - 1) \o SubSeq(writing, k + 1, Len(writing))
  /\ written' = Append(written, ~Error)
  /\ UNCHANGED <<mainVars, posted, running, tried, link, write_msgs_, drained, wedged, readVars,
                 timer, revived>>

ReadCompletes ==
  /\ link = "connected" /\ reading > 0 /\ inbox # << >>
  /\ read_buffer_' = Head(inbox) /\ inbox' = Tail(inbox)
  /\ reading' = reading - 1 /\ readDone' = Append(readDone, ~Error)
  /\ UNCHANGED <<mainVars, posted, running, tried, link, writeVars, chunks, printed, parallel,
                 timer, revived>>

ServerSends ==
  /\ link = "connected" /\ chunks < MaxChunks
  /\ chunks' = chunks + 1 /\ inbox' = Append(inbox, chunks')
  /\ UNCHANGED <<mainVars, posted, running, tried, link, writeVars, reading, readDone,
                 read_buffer_, printed, parallel, timer, revived>>

PeerCloses ==            \* outstanding operations complete with eof or EPIPE
  /\ link = "connected"
  /\ Close([written |-> written, readDone |-> readDone])
  /\ UNCHANGED <<mainVars, posted, running, tried, write_msgs_, taken, drained, wedged, inbox, chunks,
                 read_buffer_, printed, parallel, timer, revived>>

Expire ==
  /\ timer = "armed" /\ timer' = "fired"
  /\ UNCHANGED <<mainVars, posted, running, tried, link, writeVars, readVars, revived>>

Handlers == RunSend \/ RunClose \/ OnWritten \/ OnWriteError \/ OnRead \/ OnReadError

Next ==
  \/ StartTimer \/ Send \/ Quit \/ StopTimer \/ PostClose \/ Join
  \/ Resolved \/ Connected \/ ConnectFails \/ Handlers \/ OnTimer \/ RunReturns
  \/ WriteCompletes \/ ReadCompletes \/ ServerSends \/ PeerCloses \/ Expire

Spec == Init /\ [][Next]_vars

(* The io thread runs every handler that is ready and returns when it is    *)
(* out of work; resolving, connecting and writing end; main() goes on once  *)
(* it has decided to quit.  The server owes no data.                        *)
FairSpec ==
  /\ Spec
  /\ WF_vars(RunSend \/ RunClose) /\ WF_vars(OnWritten \/ OnWriteError)
  /\ WF_vars(OnRead \/ OnReadError) /\ WF_vars(OnTimer) /\ WF_vars(RunReturns)
  /\ WF_vars(Resolved) /\ WF_vars(Connected \/ ConnectFails) /\ WF_vars(WriteCompletes)
  /\ WF_vars(StopTimer \/ PostClose \/ Join)

-----------------------------------------------------------------------------
TypeOK ==
  /\ main \in {"start", "input", "stop", "close", "join", "end"}
  /\ sends \in 0 .. MaxSends /\ posted \in Seq(0 .. sends) /\ running \in BOOLEAN
  /\ tried \in 0 .. Endpoints
  /\ link \in {"resolving", "connecting", "connected", "failed", "closed"}
  /\ write_msgs_ \in Seq(1 .. sends) /\ writing \in Seq(1 .. sends)
  /\ written \in Seq(BOOLEAN) /\ taken \in Seq(1 .. sends)
  /\ reading \in Nat /\ readDone \in Seq(BOOLEAN)
  /\ chunks \in 0 .. MaxChunks /\ inbox \in Seq(1 .. chunks)
  /\ read_buffer_ \in 0 .. chunks /\ printed \in Seq(0 .. chunks)
  /\ timer \in {"none", "armed", "fired", "cancelled", "off"}
  /\ drained \in Nat /\ wedged \in BOOLEAN /\ revived \in BOOLEAN /\ parallel \in BOOLEAN

(* The server gets the messages in the order of the sends, none twice, none *)
(* before an earlier one, and the queue holds the ones after those.  At most*)
(* one async_write is on its way, of the front of the queue, whose buffer is*)
(* not freed meanwhile.  A send that failed because there was no socket yet *)
(* stays at the front of the queue, where no later send starts a write: the *)
(* server never gets anything, though the connection may come up.           *)
SentInOrder ==
  /\ Len(writing) + Len(written) <= 1
  /\ writing # << >> => write_msgs_ # << >> /\ writing[1] = write_msgs_[1]
  /\ \A k \in DOMAIN taken : taken[k] = k
  /\ \A k \in DOMAIN write_msgs_ : write_msgs_[k] = sends - Len(write_msgs_) + k
       - Cardinality({j \in DOMAIN posted : posted[j] # 0})
  /\ wedged => write_msgs_ # << >> /\ writing = << >> /\ taken = << >>

(* Every drained write queue leaves one more read outstanding: the reads    *)
(* number at most one from connecting and one per time it drained.  While   *)
(* there is a single one, cout gets the server's text in order and complete;*)
(* the buffer all reads share is safe only then.                            *)
OutputIsStream ==
  /\ reading + Len(readDone) <= 1 + drained
  /\ ~parallel => \A k \in DOMAIN printed : printed[k] = k

(* What send() queued goes out, also when it was queued while connecting,   *)
(* unless the connection ends or is not made, or a send from before there   *)
(* was a socket blocks the queue (SentInOrder).                             *)
QueueDrains ==
  write_msgs_ # << >> ~>
    \/ write_msgs_ = << >> \/ link \in {"closed", "failed"} \/ wedged \/ ~running

(* After "quit" the program ends, unless the close came before the socket   *)
(* existed or the cancel came after the timer had expired.                  *)
QuitEnds == main = "join" ~> main = "end" \/ revived

=============================================================================
