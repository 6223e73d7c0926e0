# Verification of cpp_code_experiment

The repository is a collection of C++ experiments: a tool library
(`CommonTools`), network programs built on sockets, muduo and asio
(`Network`, `LibraryUse/AsioUse`), and demonstrations of the standard library
and of third-party libraries (`Standard`, the rest of `LibraryUse`). Most of
the demonstrations print what a language feature does and keep no state. The
code whose correctness one can argue about is the connection pool, the clients
and servers, the threads and locks, and the date and text functions; this
project models those. Paths below are relative to `src/`.

## Inventory

| component | state | operations | hard parts | what makes it correct |
|---|---|---|---|---|
| `CommonTools/ConnPool.h` `CConnPool<_Tx>` | stack `m_Conns`, `m_Mtx`, `m_LastCheckTime`, the heap objects | GetConnect, GetConnectWithCheckConnectFlag, PutConnect, ReleaseConnect, CheckConnect, ReleasePool, destructor | threads interleave; the scan deletes and moves entries; connections fail at any time; Create() fails or throws | one owner per connection; nothing deleted is reachable; nothing leaks; the scan sees all; the mutex comes back; LIFO but for the scan |
| `Network/sync_block_client` `SyncBlockedClinet` | `m_Socket`, `m_IsConnected`, `m_CachedBuff`, the TCP streams | CreateConnect, SendAndRecv, RecvData, CloseConnection, IsValid, destructor | timeouts race late answers; send takes a part; recv returns parts or several answers; failed and repeated connects | the answer belongs to the request; descriptors are closed; a call returns |
| `Network/muduo_server/Service.h` `Service` | `m_Conns`, the input buffer of each connection | OnConnection, OnMessage (OnLogin, OnHeart, OnCommonRsp) | a read takes whatever has arrived: several requests, or a part of one | one response per read, of the right kind |
| `Network/muduo_server/MockJsdServer.h` `MockServer` | `m_Conns` | OnConnection, OnMessage, OnTimer | the timer runs on another thread than the callbacks that change `m_Conns`; a read may end inside a ping | a round pushes once to everyone; a ping comes back |
| `Network/muduo_client` `Client`, `two_loop_test.cpp` | `TcpClient`, its loop thread, timers | Client, Start, SendMsg, OnConnect, OnTimer, Close, deletion | sends before the connection exists; deletion while a timer still points to the client; main returns and quits the loop from its own thread | a safe disconnect (the test's stated aim) |
| `LibraryUse/AsioUse` `AsioClient` | `write_msgs_`, `read_buffer_`, timer, socket | send, close, connect, do_read, do_write, repeat_timer, stop_timer, main | handlers and kernel completions interleave; sends before and while connecting; quit at any time | messages go out once, in order; output is what arrived; quit ends |
| `Network/asio_client` `talk_to_svr` | one object per user name | start, on_write, on_read, do_ping | does not compile as it stands (`MEM_FN` is not defined) | - |
| `Network/tiny_server` | `read_fds`, `all_cli_sockets` | select and its errors and timeouts, accept, recv, echo, close | the read set is not rebuilt; erase while iterating; recv of 0; a buffer without an end; a blocking send | a client is lost only where select loses it; the echo is the client's stream; who is not served is known |
| `Network/tiny_client` | a socket | two detached threads, one sends, one receives | both refer to a parameter that is gone | - |
| `CommonTools/ThreadBase` | `m_ShouldRun`, `m_Thread` | Start, Stop, Join, ThreadProc | unsynchronised flag and thread handle; Start after Stop; a thread that cannot be made; the destructor does not join | every loop can be joined; Stop ends the loop; Join returns |
| `CommonTools/PbCachePool.h` | `boost::pool` under a mutex | Allocate, Deallocate | size_t against int | a block goes back where it came from |
| `Standard/std_attri/LockFreeTest.h` | `m_lock`, `geneartor` | lock, try_lock, unlock, myFunc | mutual exclusion by test-and-set | no index twice, no lost increment |
| `Standard/std_attri/TestCondVariable.hpp` | condition variable, mutex | wait, notify | notify without the lock, wait without predicate | the waiter wakes |
| `CommonTools/STD`, `PoboDate.h` dates | a table of month lengths that every call rewrites | GetOtherDay, DateMinus, days_num, getnextdate, getpreviousrq, getweek, Date | month, year and sign boundaries | agrees with the calendar |
| `CommonTools/STD`, `StringFunc` text | - | escapes, Base64, URL encoding, Split, ReplaceStr, GetPara, ... | truncation, terminators, round trips, loops that must end | inverse functions are inverse; buffers are not overrun |
| `PoboTool`, `BoostUse/test_string_ref.cc`, `std_attri/Feature_17.hpp`, `Features.hpp`: text helpers | - | ReadLinesFromFile, GetCheckCode, Split and its five variants, to_utf_8, to_utf_16 | empty and last pieces; odd lengths; the limits of each word size | agree with one another and with STD and StringFunc; can be read back |
| the rest of `Standard`, `LibraryUse/BoostUse`, `MySqlCppUse`, `PoboTool`; `TimerLog` | - | demonstrations, wrappers of libraries | - | not modelled |

How they interact: request threads take a connection from the pool and make
one synchronous call at a time on it; the blocking client and the muduo client
talk to a server over TCP; the muduo and asio clients run callbacks on a loop
thread while `main` posts work from another. The date and text functions are
called by whoever needs them and keep nothing between calls but one table.

## Plan

Done:

1. **ConnPool** with its abstract specification **ConnPoolSpec**, and **ConnPoolProofs**.
2. **SyncBlockedClient** composed with **Service**.
3. **SpinLock** and **SpinLockProofs**.
4. **AsioClient**.
5. **Dates**: **Calendar** (the reference), **StdDate**, **StdTime**, **PoboDate**, **DateWalk**, **DateProofs**.
6. **Text**: **CharBuffer**, **StringFunc**, **TextTools**, **TextWalk**.
7. **MuduoClient** composed with **MockServer**.
8. **SelectServer**: the loop of select against clients that come and go.
9. **ThreadBase**: Start, Stop and Join by several callers against the loops.
10. **ThreadBaseProofs** and **SelectServerProofs**.
11. Proof that **ConnPool** implements **ConnPoolSpec**, and of the order of its stack.
12. **SyncBlockedClientProofs**, **AsioClientProofs** and **MuduoClientProofs**, and
    the streams of **SelectServerProofs**: every safety property of the networked
    components.
13. The sums of **StdDate** in **DateProofs**: differences, days of the week and
    `GetOtherDay`, and with them every property of the dates.

Left, in this order:

14. `CachePool`, the ownership of the buffer in `SString.hpp`'s move-only
    string, and the text functions that are left out.

## Modules

| module | models | run |
|---|---|---|
| `ConnPool` | `CConnPool` and the threads that share it | `connpool_safety` |
| `ConnPoolSpec` | what a pool promises: who owns each connection | refined by `ConnPool` |
| `ConnPoolProofs` | proofs about `ConnPool`, the refinement included | - |
| `Service` | `Service::OnMessage` over TCP links | composed below |
| `SyncBlockedClient`, `SyncBlockedClientProofs` | `SyncBlockedClinet` against `Service` | `sync_client`, `sync_client_mismatch` |
| `SpinLock`, `SpinLockProofs` | the test-and-set lock and `myFunc` | `spinlock` |
| `AsioClient`, `AsioClientProofs` | `AsioClient`, `main()`, the io thread, the kernel | `asio_client` |
| `MockServer` | `MockServer`'s I/O thread and main loop | composed below |
| `MuduoClient`, `MuduoClientProofs` | `Client` in `two_loop_test.cpp`'s `main` against `MockServer` | `muduo_client` |
| `SelectServer`, `SelectServerProofs` | `DoLoopIO` and `HandleData` of `tiny_server` and its clients | `select_server` |
| `ThreadBase`, `ThreadBaseProofs` | `ThreadBase`, its callers and its threads | `thread_base` |
| `Calendar` | the Gregorian calendar, independent of the code | used below |
| `StdDate`, `PoboDate` | the date functions of STD and `pobo::Date` | used below |
| `StdTime` | the clock, and printing and reading of dates and times | used below |
| `DateWalk`, `DateProofs` | a walk through the calendar with both | `dates`, `dates_documented` |
| `CharBuffer` | the text functions of STD on buffers of a given size | used below |
| `StringFunc` | the text functions of `StringFunc.cc` | used below |
| `TextTools` | the splitters, encoders and readers outside the two libraries | used below |
| `TextWalk` | every short text over an alphabet, one character a step | `text`, `text_documented` |

An `MC...` module gives the constants their values for its run.

### ConnPool

A thread is a program counter and the connection it owns. A critical section
that touches only what the mutex guards is one step, enabled while the mutex is
free. `CheckConnect` is the exception: its loop asks sockets whether they are
valid, and a socket may fail in the middle of the loop, so the mutex is held
over many steps, one for each test, deletion and swap. `CreateConn` runs
without the lock and is two steps, `new` and `Create()`, which succeeds, fails,
or throws.

- Objects are addresses, and `new` may return one that was deleted; a stale
  pointer is therefore not merely invalid, it may name another connection.
- `conn[t]` records ownership. After `PutConnect` the caller's variable still
  has the pointer (only `ReleaseConnect` nulls it); a caller that goes on using
  it breaks the pool's contract, which is not modelled.
- `ReleasePool` deletes what the stack holds and leaves the null entries in
  it, as the code does. A later `GetConnect` hands out such a null, and
  `CheckConnect` dereferences it: `CheckNull` ends the process.

### SyncBlockedClient and Service

Requests are numbered and have a kind, and both directions of a connection are streams
of pieces: a request is `Parts` of them, a response as many as its kind fills, and
each names its request. `OnMessage` takes what has arrived (`retrieveAllAsString`),
which may end inside a request, and gives one response to it; so a request that is
read in two gets two, which `cuts` counts. The type it looks for is there when the
read has all the pieces `Mark` says the type is spread over, else the response is the
one for an unknown type. `SO_SNDTIMEO` may end a `send` with only a part of the
request passed on, which `SendAndRecv` takes for success. A `recv` returns any number
of pieces up to the size of the client's buffer. `Lag` is how far the stream of
answers may be ahead of the calls: by those that left theirs unread (`lost`) and by
the requests read in two.

`CreateConnect` asks for nothing: called while connected it overwrites `m_Socket`
(`again`), and called after a failure it does so too (`refused`). A connect that its
timeout ended goes on in the kernel and may come up later (`ConnectsLate`).
`SetOptions`, whose result the code ignores, is assumed to succeed: without the
receive timeout a call may block for ever.

### SpinLock

`++geneartor` is a load and a store, and the value printed is read again; the
lock is one atomic test-and-set. `try_lock`, which the test does not call, is
there beside `lock`.

### AsioClient

Every operation is outstanding until the kernel completes it, and its handler
is ready until the io thread runs it; `cancel` and `close` reach only what is
outstanding. Closing completes every outstanding operation with an error. The
socket exists from the first attempt to connect: a write given to it before that
fails at once, one given to it while it connects waits in the kernel behind the
connect. `async_connect` tries the host's `Endpoints` one after another, and each
attempt that fails closes the socket and fails the writes that waited on it. A
write that failed because there was no socket stays at the front of the queue,
and no later send starts another (`wedged`).
Text is abstracted to message numbers and chunk numbers; the buffer all reads
share holds the chunk that was written to it last. A connection that ends does so
by an abort: nothing of it is delivered afterwards.

### Dates

A caller walks day by day, forward and back, from a starting date. `today` is
where the walk is by the calendar, `rq` what `getnextdate` and `getpreviousrq`
computed, `obj` what `pobo::Date` computed. The years are 1 to 9999, the ones a
YYYYMMDD number can hold with four digits. `getpreviousrq` is the function the
source defines; its definition lacks the `STD::` of the declaration. The
quotient in `from_days` is computed without the code's large product, which
is 64 bits wide there and would not fit TLC's integers; the values are the same.
Every day of the walk also has a time of its own. A `time_t` is modelled by the
`struct tm` that `localtime` makes of it and `mktime` turns back, with UTC as the
local time, and a printed date or time by its numbers and the separators between
them: that is all `GetDateTimeFromString` looks at.

### Text

A text is a sequence of characters, and an alphabet has only the characters the
functions tell apart: `"hi"` is a byte of a double-byte character, `"1"` to
`"6"` the first bytes of UTF-8 words and `"c"` a later one, Base64
letters are the numbers they stand for, the alphabet of lists has the separators
`:` `,` `;` that `TranslateData` escapes and the backslash that `TrimChar` removes,
and a text of code points is one of the numbers at the limits of the word sizes.
`TextWalk` builds every text up to a length; each property says, of the text it is
at, what functions have to do with one another, for every size of a buffer up to
fourteen.

### MuduoClient and MockServer

The main thread starts the clients, sends, closes, deletes them and tells the
loop to quit; the loop thread runs their callbacks and what other threads have
queued. Sleeps bound nothing from above and, in the model, nothing from below:
`SendMsgTooEarly` is what happens if two seconds were not enough. The test's two
loops share nothing, so one is modelled; `main.cpp`'s one client takes a part of
the same steps. `OnTimer` of the server walks `m_Conns` one element a step
while the I/O thread changes the map without a lock, which is undefined: the walk
survives, ends early (`torn`), or the process dies.

`main` returns right after it has queued the quit of the loop. Then the
`EventLoopThread`s are destroyed, and `~EventLoopThread` quits the loop again, at once
and from main's thread (`Return`), and joins it (`Exit`). The loop may end at any time
after that, and the calls still queued are lost: a message, the shutdown of a
connection. The end of the process closes its sockets, and the server may still read
what has arrived or find the connection reset. A timer that uses a connection that is
not there ends the process in the same way; one that uses a deleted client may, or it
finds memory that still passes for a client, without effect. The server goes on after
the clients' process has died, and that after the server's. `MockServer` is the class
of `MockJsdServer.h`; the server's `main.cpp` includes it and instantiates `Service`.
The properties speak of places in the two streams of a connection (`Echoes`, `Pushed`)
and in the I/O thread's queue (`Underway`), so that "in order" and "once" are said of
numbers. The test always makes a client (`SomeClient`).

### SelectServer

One thread is either in `select` or at an index of the loop over `all_cli_sockets`;
the clients and the network move between any two of its steps. `read_fds` goes from
one `select` to the next as the code leaves it. Of Winsock the model has that `select`
keeps the ready sockets, refuses an empty set and one with `INVALID_SOCKET`, and that
`accept` fails for a connection that was aborted while it waited. The accepted sockets
block: `send` holds the thread until the client has read enough for the next piece
(`SendRoom` of them may lie unread, `unread`), and what it still has to send is
`unsent`. A client may send for ever: when all of its pieces have been read and sent
back their numbers start anew. `except_fd` is emptied by the first return and is not
in the model. A client's bytes are numbered pieces, some with a 0 byte at their front;
`RecvMax` pieces fill `recv_buf`, and `Garbage` is what `strlen` finds behind a full
one. `missed` remembers the clients `select` has dropped: nothing puts them back.

### ThreadBase

Any caller may `Start` and `Stop`; the owner also joins, and destroys the object
when no call is in progress. Each access of `m_ShouldRun` and `m_Thread` is a
step. Assigning to a joinable `std::thread` and destroying one end the process
(status `"terminated"`), and so does `Run` once the derived class is gone. Two
`Start`s that overlap may both find `m_Thread` empty; the later write loses the
handle of the earlier (`lost`). What else a torn `std::thread` could do is not
modelled. The flag is a plain `bool`, but the loop calls a virtual function
between two reads of it, so the read cannot be moved out of the loop.

## Runs

| run | bounds | what it shows |
|---|---|---|
| `connpool_safety` | 4 threads, 4 addresses, capacity 3, clock 0..1 | ownership is exclusive, only a throwing `Create()` leaks, the scan covers the pool and ends, the stack keeps its order but for the scan's swap, and the pool implements `ConnPoolSpec` |
| `sync_client` | 3 requests in 2 parts, 2 kinds, 2 sockets, answers of 1 and 2 pieces | a call on a connection that does not lag gets answers to its own request; the stream lags by at most the calls that left their answers and the requests read in two; only a `CreateConnect` on top of a descriptor leaks one; every call returns |
| `sync_client_mismatch` | the same, requests and answers of one piece | violated: a late answer is returned for the next request |
| `spinlock` | 4 threads | no index twice, everyone ends |
| `asio_client` | 3 messages, 3 chunks, 2 addresses | messages leave in order, one write at a time, also when they were sent while connecting; one sent before there was a socket blocks all; a drained queue costs one more read; output is the stream while one read is outstanding; quit ends but for two named races |
| `dates` | walks of 750 days from the month boundaries of 1900, 1979, 2000, 2023 | all date functions agree with the calendar, `GetOtherDay` exactly in the range it names; every form of the date and the time reads back, but times with hundredths |
| `dates_documented` | the same | violated: `GetOtherDay` does not move by its span, and `DateMinus` is no difference |
| `text` | texts of 5 characters (7 bytes for Base64), 8 alphabets, buffers of 1..14 | escapes, encodings, splitters and parsers undo one another or agree, but for the cases each property names |
| `text_documented` | texts of 5 plain characters, buffers of 1..14 | violated: `Base64Filter` leaves the text as long as it was, and `AnsiToURLEncode` writes its terminator behind the buffer |
| `muduo_client` | 2 clients, 1 ping, 1 push round | echoes are what was sent, a round pushes once to everyone it meets, a close ends at both sides, also when `main` returns first or the process dies of a ping |
| `select_server` | 3 clients, who send 3, 1 and 0 pieces as often as they like, sets of 3, reads of 2, room for 1 unread piece | only `select` takes a client out of the set; echoes are the client's own stream but for full buffers and 0 bytes; nobody waits for ever but behind a client that does not read, or, for `accept`, behind clients that send again and again or have closed |
| `thread_base` | 2 callers, 3 threads | a loop without a handle takes two overlapping `Start`s; a destruction leaves none running otherwise; the flag tells the truth but for a failed `Start`; `Stop` ends the loop and `Join` |

Why the bounds are enough: in the pool, two threads and two entries are what a
duplicate owner or a self-swap needs, and from three entries on the swap with the last
changes their order; a fourth thread and address make a pool that is full while somebody still
holds a connection, and an address that is used again; one second is what the throttle
tells apart. Three requests are one that times out, one that gets the late answer, and
one after it; two parts are a request that is sent or read in two, two kinds an answer
that fills the client's buffer and one that does not, and two sockets a connect on top
of another, failed or not. Three messages are one on its way, one in the queue and one
in `posted`; three chunks let two reads share the buffer and a third follow; two
addresses make a connect that fails and goes on. A walk of 750 days passes two year
ends from any start and a leap day where there is one, the times differ from day to
day by an hour and seven seconds and so pass the limit of every unit, and the four
years are a common one, a leap one, a century that is not leap, and one before the day
from which weekdays are counted. The alphabets of the texts have one character for
each case of the functions' loops, and five characters hold two escapes, two fields
with a blank, or a word of UTF-8 with a neighbour. One push round, two connections and
one ping suffice for a connection that comes or goes on either side of the walk's
cursor; two rounds were too many states for a short run. A set of three holds the
listening socket and two clients, so that the third meets it full; three pieces are a
full read with one behind it; three clients put one before and one behind an erased
element; an echo of two pieces and room for one make `send` wait. Three threads are
two of overlapping `Start`s and one after them.

`TypeOK` bounds nothing that the model does not; every other bound (`MaxTime`,
`MaxRequests`, `MaxSockets`, `MaxSends`, `MaxChunks`, `MaxWalk`, `MaxRounds`,
`MaxPings`, `MaxPieces`, `MaxLoops`) is a conjunct of one guard or the range of one
choice. `Parts`, `PerPkgLimit`, `Endpoints`, `FD_SETSIZE`, `RecvMax` and `SendRoom`
are sizes of the real system made small. Where a run says `CHECK_DEADLOCK FALSE` the
system really stops: a destroyed pool, a destructor, ended threads, a process that has
ended or died, a `send` to a client that does not read, the last character of a text.

### Fairness

- `connpool_safety` assumes none: `ScanProgress` says that every step of the
  scan makes a measure smaller, so the scan ends if its thread is run at all.
- `sync_client`: a call inside the kernel returns, because `SO_SNDTIMEO` and
  `SO_RCVTIMEO` are set and positive. The server owes nothing.
- `spinlock`: every thread that can take a step other than spinning takes one.
- `asio_client`: the io thread runs handlers that are ready and returns when
  it is out of work; resolving, connecting and writing end; after "quit" `main`
  goes on. The server owes no data, and nobody has to type.
- `muduo_client`: each I/O thread serves what is ready (poll returns all of it), a
  loop that was told to quit ends, and `main` on its way out goes on. Before that
  `main`, and always the timers and the server's walk, owe nothing.
- `select_server`: the server's thread goes on when it can: `select` has a timeout and
  the sockets it reads are ready. In `send` it waits for room, and the clients, who
  make it by reading, owe nothing.
- `thread_base`: threads that were made run and their `Run` returns; a caller
  inside `Start` or `Join` goes on when it can. Nobody has to call anything.

### Mutants

`PROJECT.json` names for every property a plausible bug (an operator marked as
mutant or bug beside the definition it would replace) under which the property's
run fails. They are used by no specification.

## Findings

Each is a run that is violated, of a property that states what the code says of
itself; of a property of two parts both are false in the state TLC shows.

- `SyncBlockedClient.cpp:123`: after a timeout the connection stays in use and
  answers belong to earlier requests (`AnswerMatchesRequest`).
- `STD.cc:404`: `GetOtherDay` is wrong in January and at month ends
  (`SpansAsDocumented`, `OtherDayMovesBySpan`).
- `STD.cc:534`: `DateMinus(date1, date2)` is not `date1-date2`: it counts both ends
  and has the sign of `date2-date1` (`SpansAsDocumented`, `DateMinusIsDifference`).
- `STD.cc:1298`: `Base64Filter` does not end the text (`EncodersAsDocumented`).
- `STD.cc:1654`: `AnsiToURLEncode` writes the terminator one place behind a buffer that
  the text fills, and cuts a longer text without a word, where `STD.h:295` says that
  the size includes the terminator (`EncodersAsDocumented`).

Other behaviour the properties name as an exception, without a run of its own: the
scan's swap puts the pool's newest connection below older ones (`ConnPool.h:157`),
though the header promises a stack; a `CreateConnect` on top of a failed or a good
connection leaks its descriptor (`SyncBlockedClient.cpp:26`), though the destructor
says it closes the connection; a `send` that took a part of a request passes for
success (line 109); `Service` answers a request twice when it was read in two
(`Service.h:54`); `ReplaceStr` may not end or may leave an occurrence; `EndsWith`
holds of a text one longer; `get_utf8_words` copies up to three bytes from behind a
text that is no UTF-8 and cuts words of five and six bytes, which `CheckTextType`
takes for UTF-8; of the splitters, the string_ref forms lose empty pieces and those of
`Feature_17.hpp` what follows the last separator; `GetCheckCode` does not see the
order of its words; `Base64Encode_WithAdd` puts padding behind missing letters in one
size of buffer; reads of the Asio client multiply and share a buffer, its queue is
stuck after a send before the socket exists, and its `main` may wait for ever after
two races; the muduo client's timer uses a connection that is not there, or a client
that is deleted, and its `main` returns before the loop need have run what it queued
(`two_loop_test.cpp:198`); `FormatTime` prints another hour for a time with hundredths
(`STD.h:178`) than for the same time without; the select server never watches again a
client that was silent when `select` returned (`main.cpp:87`), spins on one that has
closed (line 45), accepts nobody while the watched clients send in every round, stands
still in the `send` to a client that does not read, and sends bytes from behind a full
buffer (both line 53); `ThreadBase` ends the process when it is started again or
destroyed before a `Join`, loses a handle when two `Start`s overlap, and can never be
started again without a `Stop` after a thread could not be made.

## What is proved

TLAPS checks the following for every value of the constants that the named
assumptions of the modules allow.

**ConnPool** (`ConnPoolProofs`; threads and addresses are any sets, the capacity any
number): `PoolTypeCorrect`, `PoolExclusive`, `PoolNoDangling`, `PoolLeaks`,
`PoolScanCovers`, `PoolWithinCapacity`, `PoolScanOwnsMutex`, `PoolScanProgress`,
`PoolImplements`, `PoolIsStack`.
The inductive invariant is `TypeOK /\ Ownership /\ Control`. None of the
properties is inductive alone: that a pop hands out an object of nobody else's
needs the stack to hold each object once; that the swap keeps it so needs the
entry it overwrites to be the freed one, and that needs the scanning thread alone
to hold the mutex; that nothing leaks needs the abandoned objects to stay out of
reach. Lemmas say what a pop, a push and the swap do to the entries and to the
objects in hand; `OwnershipStep` and `ControlStep` go through the actions.
`PoolImplements` is the refinement of `ConnPoolSpec`: `Owner` says who holds each
address, and each action moves one address, or a few of them, as one abstract
step does, or none. It assumes that no thread is called like an abstract owner
(`OwnersAssumption`); that the abstract pool is never over its capacity needs the
objects in the stack to number at most its entries (`PooledIsSmall`), and needs no
bound on the addresses. `PoolIsStack` follows from the same invariant.

**SpinLock** (`SpinLockProofs`; any finite set of threads): `SpinLockTypeCorrect`,
`SpinLockExcludes`, `SpinLockUniqueIndex`, `SpinLockNoLostUpdate`. The strengthening
says that the loaded value is the counter while its thread is inside, and that every
printed index is below or at the counter.

**SyncBlockedClient** with **Service** (`SyncBlockedClientProofs`; any numbers of
sockets, requests, attempts and pieces): `SyncTypeCorrect`, `SyncAnswerIsOwn`,
`SyncBacklogIsLost`, `SyncReconnectsLeak`. The inductive invariant is
`TypeOK /\ Control /\ (\A l : LinkOK(l)) /\ OwnAnswer /\ LeaksCounted`. What
`recv` leaves in the stream decides about the next call: a stream always ends in the
last piece of an answer (`EndsWhole`); its whole answers and the requests not yet
taken number at most `Lag` and the current call's, for which a read that ends inside a
request must leave no request twice in the stream, so requests have to lie in it in
the order of the calls (`Sorted`); and on a connection that did not lag before
the send, all of it belongs to the current call (`IsOfCall`), with the type it
shows if the whole request went out and was read at once. What is returned is
compared with the request after the connection may have been lost (`OwnAnswer`), and
a descriptor leaks only once `m_Socket` is overwritten, so one that no
`CreateConnect` has been counted for is the connected one (`Kept`, `LeaksCounted`).

**AsioClient** (`AsioClientProofs`; any numbers of messages and chunks):
`AsioTypeCorrect`, `AsioSentInOrder`, `AsioOutputIsStream`. The messages are numbered
along their whole way: the handlers still posted (`PostOrder`), the queue and what
the kernel has taken (`WriteOrder`) follow one another without a gap. Whether the
front of the queue is among the taken depends on a completion whose handler has
not run, and `OneWrite` says that there is at most one. Of the reads, `ReadCount`
says that a drained queue is what makes one more, and `ReadOrder` that the printed
chunks, the one in the buffer and those in the inbox follow one another until two
reads share the buffer. `close` completes everything outstanding with an error in
every one of these places. Until the connection is made nothing has gone out, though
a write may wait behind the connect, and only there (`BeforeConnected`); and a write
that failed before there was a socket has been the only one and stays so (`Stuck`).

**MuduoClient** with **MockServer** (`MuduoClientProofs`; any numbers of clients,
pings and rounds, `SomeClient`): `MuduoTypeCorrect`, `MuduoStreamsAgree`,
`MuduoPushesReachAll`. The inductive invariant is `Types /\ Rows /\ Partings /\
PushRows`. `Rows` has what a client sends numbered as it goes and the echoes as
numbers of places in it; that an uncut ping is answered needs its two parts to be
written together, and a read that ended between them to be on record. That the
client's message is read before it is seen to leave is a fact about the queue between
its two threads (`Farewell`): once `main` is past its `SendMsg` and as long as the
process lives (`SendDone`), the message is sent, or the connection gone, or the call
still queued, and a queued shutdown has such a call before it; `Ends` has the two ends
of a connection come and go in step. Where the process ends, with the queue lost and
its sockets closed (`Ended`), and where it only comes nearer to that (`Apart`), no row
grows. `PushRows` follows `OnTimer`'s walk: the pushes sent and those still queued are
exactly the rounds that are past the connection, and the walk ends only when nobody in
`m_Conns` is ahead of it, by the least element of a set of clients (`NextExists`).

**Dates** (`DateProofs`; any starts in the years 1 to 9999, walks of any length):
`DateTypeCorrect`, `WalkFollowsCalendar`, `ObjectFollowsCalendar`,
`ProgramFollowsCalendar` (both at once), `JumpsLand`, `TimesComeBack`,
`DifferencesCount`, `OtherDayMoves`, `SpansCounted` (the last two at once).
The invariant puts the walk (`Placed`), both programs' dates and the count of
days side by side. The weight is in the arithmetic: `FromToDays` proves that
`from_days` undoes `to_days` on every date, over the bounds on the guess of the
year (`GuessBounds`, `Guess`, `Corrected`) and the month of a day
(`MonthOfDay`); `Successor` proves that the count grows by one a day.
`JumpsLand` covers differences, the order of dates, copies and text as well.
`TimesComeBack` adds the clock and its texts: `ThreeFields`, `TwoFields` and
`ReadThree` say which numbers `GetValueInt` and `GetDateTimeFromString` find between
separators (by counting the separators before a place), `Printed` and `PrintedClock`
what the formatting functions print, `MillisecondParts` and `HundredthParts` which
digits of a long time become the hour.

`DifferencesCount` needs what the code sums in loops over months and years. The model
has one recursive function for them, `SumTo`, and `SumIs` says that it is what a closed
form grows by when the summands are the form's differences. A recursive function is a
`CHOOSE`: that one exists and that it is the only one follow from the least place at
which it fails (`Least`, by well-foundedness), so no induction over an operator is
needed. The closed form is the calendar's own: months are numbered in a row (`Place`),
`First` is the day number of a month's first day, and it grows by the month's length
(`NextMonth`). So a day of the year is a difference of two day numbers (`YearDay`,
`DateInYear`), whole years sum to one (`WholeYears`), and `BetweenCounts` puts the three
parts of `DateMinus` together. `WeekdayCounts` shows that the calendar's day of the week,
which comes from a table of months (`ShiftCounts`), goes round with the day numbers.

`OtherDayMoves` says exactly when `GetOtherDay` is right, which the run checks near
the month ends of four years and the proof for every year. `ElapsedIs` and `RewoundIs`
make its two loops differences of `First`; since `First` grows, the loop forward stops
in the month that holds the target (`AheadLands`) and the one backward in the month that
holds the day after (`BackStops`). From there follow both what it gets right
(`BackLands`) and, one by one, what it gets wrong: a target in the date's own
January (`AheadMisses`), the last day of a month of the year before, which is printed as
day 0 (`BackMisses`, `AheadOfNone`), and a January of that year, printed as month 13
(`BackMissesJanuary`). That the loops need no month beyond `Reach` is `TargetInReach`.

**ThreadBase** (`ThreadBaseProofs`; any callers, any number of threads):
`ThreadBaseTypeCorrect`, `ThreadBaseHandles`. The inductive invariant is `TypeOK`
and, while the process has not ended, `Handles`: a live loop is behind a handle
or its handle was written over (`Reachable`); a caller that is about to write
`m_Thread` has found it empty, so what is there now came from an overlapping
`Start` (`WriterAlone`), and two callers behind the test of `Start` have been
remembered as overlapping (`OverlapSeen`); a set flag has a loop behind it or a
`Start` that failed (`FlagMeansLoop`); the object is destroyed when nobody is
inside it (`NobodyInside`).

**SelectServer** (`SelectServerProofs`; any clients, any `FD_SETSIZE` and buffer):
`SelectTypeCorrect`, `SelectDropsOnly`, `SelectStreams`, `SelectEchoes`. The inductive
invariant is `TypeOK /\ Shape /\ Strangers /\ DroppedOnlyBySelect`. The loop erases
one entry of the vector and one socket from the set; that both end the client's
membership needs the vector to hold no client twice (`Once`). A client that is
accepted must not have been dropped before, so those that wait in the backlog, and
those that have not connected, are strangers to the vector and to `missed`
(`Strangers`). Lemmas say what erasing an entry does to a vector (`RemoveEntry`), what
`FD_SET` leaves in a set, and that the least element of a set of naturals is in it
(`MinInSet`, by well-foundedness and without an induction over an operator). On top of
it `EchoInv` has the pieces a client sent be numbered through its answer, which is the
echo and what `send` still holds (`Answered`), and its inbox: those in the inbox are
the latest (`InboxOrder`), the answer has only earlier ones (`OnlyTaken`), in order
(`Increasing`), all of them for a client that sent no 0 byte and filled no buffer
(`Whole`), and garbage only behind a full buffer (`BehindFull`). `EchoEffect` says
what `strlen` makes of a read; `Joined` turns `Whole` into the equality of the streams
(`SelectStreams`).

## What is only model-checked

- Liveness: `CallReturns`, `EveryThreadEnds`, `QueueDrains`, `QuitEnds`,
  `DisconnectCompletes`, `NobodyWaitsForEver`, `StopEndsLoop`; the prover does not reach it.
- Everything about text (`RecordsRead`, `LinesAgree`, `CharactersStayWhole`,
  `EncodingsInvert`): its functions are folds over texts of any length. The sums of the
  dates could be replaced by a closed form; a fold that keeps a state has none,
  and an induction over the text is out of the prover's reach.
- `SpansAsDocumented` and `EncodersAsDocumented`, which are false: for dates
  `OtherDayMoves` and `DifferencesCount` say where, for texts `EncodingsInvert`.

## What is not modelled

- `talk_to_svr` (`Network/asio_client`): it does not compile, so there is no
  behaviour to be faithful to.
- `tiny_client`: its two detached threads use a reference to a parameter of the
  function that has made them and returned; from then on what they do is undefined.
- `CachePool`, `TimerLog` and the rest of `PoboTool`: thin wrappers of system
  calls and libraries, without a state of their own.
- The demonstrations under `Standard`, `LibraryUse/BoostUse` and
  `LibraryUse/MySqlCppUse`, but for the helpers in `TextTools`: they print what a
  feature does. The wait of `TestCondVariable.hpp` has no condition, so a signal that
  comes before it is lost and it waits out its five seconds, which is all there is
  to say of it.
- Of STD and `StringFunc`: the millisecond clocks, time zones, random
  keys, formatting of numbers, the parsers of single typed fields, case and
  character set conversions, console colours, printing.
- Memory below the level of objects: the width of `from_days`' product, the
  terminator `RecvData` writes behind a buffer that one `recv` has filled, and a
  `deadline_timer` used by two threads at once.
