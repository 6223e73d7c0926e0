------------------------------ MODULE ConnPool ------------------------------
(***************************************************************************)
(* CConnPool<_Tx> of CommonTools/ConnPool.h: a stack of connections shared *)
(* by request threads.  A thread takes a connection with GetConnect or     *)
(* GetConnectWithCheckConnectFlag, uses it alone, and gives it back with   *)
(* PutConnect or destroys it with ReleaseConnect.                          *)
(*                                                                         *)
(* A critical section whose body reads and writes only what m_Mtx guards   *)
(* is one step enabled while the mutex is free; CheckConnect, whose loop   *)
(* also observes sockets that fail at any time, holds m_Mtx over many      *)
(* steps.  Objects are addresses: `new' may return one that was deleted.   *)
(***************************************************************************)
EXTENDS Integers, Sequences, FiniteSets

CONSTANTS
  Threads,       \* the request threads that share the pool
  Conns,         \* the addresses a connection object can have
  NoThread,      \* the mutex is free
  NULL,          \* nullptr
  MAX_CONN_NUM,  \* capacity of the stack (8192 in the code)
  MaxTime        \* bound: the clock stops after this many seconds

ASSUME ConnPoolAssumption ==
  /\ NoThread \notin Threads
  /\ NULL \notin Conns
  /\ MAX_CONN_NUM \in Nat
  /\ MaxTime \in Nat

\* The owners of the abstract pool that are no threads.
ASSUME OwnersAssumption == Threads \cap {"pool", "nobody", "lost"} = {}

VARIABLES
  m_Conns,          \* the stack, back() is the last element
  m_Mtx,            \* the thread inside a critical section, or NoThread
  m_LastCheckTime,  \* when CheckConnect last ran to its end
  clock,            \* time(NULL)
  alive,            \* objects made by new and not deleted
  valid,            \* alive objects whose GetSocketValid() is true
  orphaned,         \* alive objects whose only pointer went out of scope
  checked,          \* history: connections the current scan found valid
  pc,               \* where each thread is
  conn,             \* the connection a thread owns (or is creating)
  i,                \* CheckConnect's loop index, counted from 1
  status            \* "up", "crashed" (null dereference), "gone" (destroyed)

vars == <<m_Conns, m_Mtx, m_LastCheckTime, clock, alive, valid, orphaned,
          checked, pc, conn, i, status>>
heap == <<alive, valid, orphaned>>
time == <<m_LastCheckTime, clock>>

Labels == {"idle", "check", "scan", "swap", "get", "create", "connect"}

\* The objects the stack points to, and those the threads have in hand.
Pooled == {m_Conns[k] : k \in DOMAIN m_Conns} \ {NULL}
Held   == {conn[t] : t \in Threads} \ {NULL}

TypeOK ==
  /\ m_Conns \in Seq(Conns \cup {NULL})
  /\ m_Mtx \in Threads \cup {NoThread}
  /\ m_LastCheckTime \in Nat /\ clock \in Nat
  /\ valid \subseteq alive /\ alive \subseteq Conns
  /\ orphaned \subseteq alive /\ checked \subseteq Conns
  /\ pc \in [Threads -> Labels]
  /\ conn \in [Threads -> Conns \cup {NULL}]
  /\ i \in [Threads -> Nat \ {0}]
  /\ status \in {"up", "crashed", "gone"}

Init ==
  /\ m_Conns = << >> /\ m_Mtx = NoThread
  /\ m_LastCheckTime = 0 /\ clock = 0
  /\ alive = {} /\ valid = {} /\ orphaned = {} /\ checked = {}
  /\ pc = [t \in Threads |-> "idle"]
  /\ conn = [t \in Threads |-> NULL]
  /\ i = [t \in Threads |-> 1]
  /\ status = "up"

-----------------------------------------------------------------------------
Goto(t, label) == pc' = [pc EXCEPT ![t] = label]
Own(t, c)      == conn' = [conn EXCEPT ![t] = c]
Delete(S)      == alive' = alive \ S /\ valid' = valid \ S /\ UNCHANGED orphaned

(* GetConnect: pop under the lock, create outside it when the stack is empty. *)
CallGetConnect(t) ==
  /\ pc[t] = "idle" /\ conn[t] = NULL
  /\ Goto(t, "get")
  /\ UNCHANGED <<m_Conns, m_Mtx, time, heap, checked, conn, i, status>>

GetUnlocked(t) ==
  /\ pc[t] = "get"
  /\ \/ /\ m_Conns # << >>
        /\ Own(t, m_Conns[Len(m_Conns)])
        /\ m_Conns' = SubSeq(m_Conns, 1, Len(m_Conns) - 1)
        /\ Goto(t, "idle")
     \/ /\ m_Conns = << >>
        /\ Goto(t, "create")
        /\ UNCHANGED <<m_Conns, conn>>
  /\ UNCHANGED <<m_Mtx, time, heap, checked, i, status>>

GetPop(t) == m_Mtx = NoThread /\ GetUnlocked(t)

(* CreateConn: the object exists while Create() blocks, and no lock is held. *)
NewConn(t) ==
  /\ pc[t] = "create"
  /\ \E c \in Conns \ alive :
       alive' = alive \cup {c} /\ Own(t, c) /\ Goto(t, "connect")
  /\ UNCHANGED <<m_Conns, m_Mtx, time, valid, orphaned, checked, i, status>>

NewThrows(t) ==
  /\ pc[t] = "create"
  /\ Goto(t, "idle")
  /\ UNCHANGED <<m_Conns, m_Mtx, time, heap, checked, conn, i, status>>

CreateSucceeds(t) ==
  /\ pc[t] = "connect"
  /\ valid' = valid \cup {conn[t]}
  /\ Goto(t, "idle")
  /\ UNCHANGED <<m_Conns, m_Mtx, time, alive, orphaned, checked, conn, i, status>>

CreateFails(t) ==
  /\ pc[t] = "connect"
  /\ Delete({conn[t]}) /\ Own(t, NULL) /\ Goto(t, "idle")
  /\ UNCHANGED <<m_Conns, m_Mtx, time, checked, i, status>>

CreateThrows(t) ==       \* the handler returns nullptr and p is forgotten
  /\ pc[t] = "connect"
  /\ orphaned' = orphaned \cup {conn[t]}
  /\ Own(t, NULL) /\ Goto(t, "idle")
  /\ UNCHANGED <<m_Conns, m_Mtx, time, alive, valid, checked, i, status>>

-----------------------------------------------------------------------------
(* GetConnectWithCheckConnectFlag: CheckConnect, then GetConnect; the mutex *)
(* is free in between.                                                      *)
CallGetChecked(t) ==
  /\ pc[t] = "idle" /\ conn[t] = NULL
  /\ Goto(t, "check")
  /\ UNCHANGED <<m_Conns, m_Mtx, time, heap, checked, conn, i, status>>

CheckThrottled(t) ==
  /\ pc[t] = "check" /\ m_Mtx = NoThread
  /\ clock - m_LastCheckTime < 1
  /\ Goto(t, "get")
  /\ UNCHANGED <<m_Conns, m_Mtx, time, heap, checked, conn, i, status>>

CheckBeginBefore(t) ==   \* mutant: the loop starts one entry too early
  /\ pc[t] = "check" /\ m_Mtx = NoThread
  /\ clock - m_LastCheckTime >= 1
  /\ m_Mtx' = t
  /\ i' = [i EXCEPT ![t] = 0] /\ checked' = {}
  /\ Goto(t, "scan")
  /\ UNCHANGED <<m_Conns, time, heap, conn, status>>

CheckBegin(t) ==
  /\ pc[t] = "check" /\ m_Mtx = NoThread
  /\ clock - m_LastCheckTime >= 1
  /\ m_Mtx' = t
  /\ i' = [i EXCEPT ![t] = 1] /\ checked' = {}
  /\ Goto(t, "scan")
  /\ UNCHANGED <<m_Conns, time, heap, conn, status>>

AtEntry(t) == pc[t] = "scan" /\ i[t] <= Len(m_Conns)

CheckStuck(t) ==         \* mutant: a valid entry does not advance the index
  /\ AtEntry(t) /\ m_Conns[i[t]] \in valid
  /\ checked' = checked \cup {m_Conns[i[t]]}
  /\ UNCHANGED <<m_Conns, m_Mtx, time, heap, pc, conn, i, status>>

CheckValid(t) ==
  /\ AtEntry(t) /\ m_Conns[i[t]] \in valid
  /\ i' = [i EXCEPT ![t] = @ + 1]
  /\ checked' = checked \cup {m_Conns[i[t]]}
  /\ UNCHANGED <<m_Conns, m_Mtx, time, heap, pc, conn, status>>

CheckFree(t) ==          \* STD::Free(m_Conns[i]) deletes and nulls the entry
  /\ AtEntry(t) /\ m_Conns[i[t]] # NULL /\ m_Conns[i[t]] \notin valid
  /\ Delete({m_Conns[i[t]]})
  /\ m_Conns' = [m_Conns EXCEPT ![i[t]] = NULL]
  /\ Goto(t, "swap")
  /\ UNCHANGED <<m_Mtx, time, checked, conn, i, status>>

LastOverEntry(t) ==
  m_Conns' = SubSeq([m_Conns EXCEPT ![i[t]] = m_Conns[Len(m_Conns)]],
                    1, Len(m_Conns) - 1)

CheckSwapAdvances(t) ==  \* mutant: skips the entry that was moved here
  /\ pc[t] = "swap" /\ LastOverEntry(t)
  /\ i' = [i EXCEPT ![t] = @ + 1]
  /\ Goto(t, "scan")
  /\ UNCHANGED <<m_Mtx, time, heap, checked, conn, status>>

CheckSwapKeepsLast(t) == \* mutant: forgets pop_back
  /\ pc[t] = "swap"
  /\ m_Conns' = [m_Conns EXCEPT ![i[t]] = m_Conns[Len(m_Conns)]]
  /\ Goto(t, "scan")
  /\ UNCHANGED <<m_Mtx, time, heap, checked, conn, i, status>>

CheckSwapFront(t) ==     \* mutant: takes the oldest entry for the newest
  /\ pc[t] = "swap"
  /\ m_Conns' = Tail([m_Conns EXCEPT ![i[t]] = Head(m_Conns)])
  /\ Goto(t, "scan")
  /\ UNCHANGED <<m_Mtx, time, heap, checked, conn, i, status>>

CheckSwap(t) ==          \* the moved entry is examined next: i stays
  /\ pc[t] = "swap" /\ LastOverEntry(t)
  /\ Goto(t, "scan")
  /\ UNCHANGED <<m_Mtx, time, heap, checked, conn, i, status>>

CheckNull(t) ==          \* m_Conns[i]->GetSocketValid() on a null entry
  /\ AtEntry(t) /\ m_Conns[i[t]] = NULL
  /\ status' = "crashed"
  /\ UNCHANGED <<m_Conns, m_Mtx, time, heap, checked, pc, conn, i>>

CheckEnd(t) ==
  /\ pc[t] = "scan" /\ i[t] > Len(m_Conns)
  /\ m_LastCheckTime' = clock
  /\ m_Mtx' = NoThread
  /\ Goto(t, "get")
  /\ UNCHANGED <<m_Conns, clock, heap, checked, conn, i, status>>

-----------------------------------------------------------------------------
(* PutConnect: push under the lock, or delete when the stack is full.  The  *)
(* caller's pointer survives the push; a caller that obeys the contract     *)
(* no longer owns the connection, which is what `conn' records.             *)
Put(t, room) ==
  /\ pc[t] = "idle" /\ conn[t] # NULL
  /\ \/ /\ room
        /\ m_Conns' = Append(m_Conns, conn[t])
        /\ UNCHANGED heap
     \/ /\ ~room
        /\ Delete({conn[t]})
        /\ UNCHANGED m_Conns
  /\ Own(t, NULL)
  /\ UNCHANGED <<m_Mtx, time, checked, pc, i, status>>

PutForgets(t) ==         \* mutant: the connection of a full pool is not freed
  /\ pc[t] = "idle" /\ conn[t] # NULL /\ m_Mtx = NoThread
  /\ m_Conns' = IF Len(m_Conns) < MAX_CONN_NUM
                THEN Append(m_Conns, conn[t]) ELSE m_Conns
  /\ Own(t, NULL)
  /\ UNCHANGED <<m_Mtx, time, heap, checked, pc, i, status>>

PutConnect(t) == m_Mtx = NoThread /\ Put(t, Len(m_Conns) < MAX_CONN_NUM)

ReleaseKeepsPointer(t) == \* mutant: the caller's pointer is not nulled
  /\ pc[t] = "idle" /\ conn[t] # NULL
  /\ Delete({conn[t]})
  /\ UNCHANGED <<m_Conns, m_Mtx, time, checked, pc, conn, i, status>>

ReleaseConnect(t) ==
  /\ pc[t] = "idle" /\ conn[t] # NULL
  /\ Delete({conn[t]}) /\ Own(t, NULL)
  /\ UNCHANGED <<m_Conns, m_Mtx, time, checked, pc, i, status>>

(* ReleasePool frees every entry and leaves the nulled entries in the stack. *)
FreeAll ==
  /\ Delete(Pooled)
  /\ m_Conns' = [k \in DOMAIN m_Conns |-> NULL]

ReleasePool(t) ==
  /\ pc[t] = "idle" /\ m_Mtx = NoThread
  /\ FreeAll
  /\ UNCHANGED <<m_Mtx, time, checked, pc, conn, i, status>>

Destroy ==               \* ~CConnPool, when no call is in progress
  /\ \A t \in Threads : pc[t] = "idle"
  /\ FreeAll
  /\ status' = "gone"
  /\ UNCHANGED <<m_Mtx, time, checked, pc, conn, i>>

-----------------------------------------------------------------------------
(* Environment: a peer or the network breaks a connection; time passes.     *)
LoseConnection ==
  /\ \E c \in valid : valid' = valid \ {c}
  /\ UNCHANGED <<m_Conns, m_Mtx, time, alive, orphaned, checked, pc, conn, i, status>>

Tick ==
  /\ clock < MaxTime
  /\ clock' = clock + 1
  /\ UNCHANGED <<m_Conns, m_Mtx, m_LastCheckTime, heap, checked, pc, conn, i, status>>

CheckStep(t) == \/ CheckValid(t) \/ CheckFree(t) \/ CheckSwap(t)
                \/ CheckNull(t) \/ CheckEnd(t)

Step(t) ==
  \/ CallGetConnect(t) \/ GetPop(t) \/ NewConn(t) \/ NewThrows(t)
  \/ CreateSucceeds(t) \/ CreateFails(t) \/ CreateThrows(t)
  \/ CallGetChecked(t) \/ CheckThrottled(t) \/ CheckBegin(t) \/ CheckStep(t)
  \/ PutConnect(t) \/ ReleaseConnect(t) \/ ReleasePool(t)

Next ==
  /\ status = "up"
  /\ (\E t \in Threads : Step(t)) \/ Destroy \/ LoseConnection \/ Tick

Spec == Init /\ [][Next]_vars

-----------------------------------------------------------------------------
(* No connection has two owners: two entries of the stack, two threads, or  *)
(* the stack and a thread never hold the same object (GetConnect/PutConnect *)
(* move it, CheckConnect's swap must not duplicate it).                     *)
ExclusiveOwnership ==
  /\ \A j, k \in DOMAIN m_Conns :
       m_Conns[j] = m_Conns[k] /\ m_Conns[j] # NULL => j = k
  /\ \A t, u \in Threads : conn[t] = conn[u] /\ conn[t] # NULL => t = u
  /\ Pooled \cap Held = {}

(* Nobody can reach a deleted object through the stack or its own pointer,  *)
(* although CheckConnect, PutConnect on a full stack and ReleasePool delete *)
(* objects that other threads used before.                                  *)
NoDanglingPointer == Pooled \cup Held \subseteq alive

(* Every object that is not deleted is in the stack, owned by a thread, or  *)
(* was abandoned by an exception of Create(): there is no other leak.       *)
OnlyCreateLeaks == alive = Pooled \cup Held \cup orphaned

(* When the scan of CheckConnect ends it has examined every connection that *)
(* is in the stack, those that the swap moved included.                     *)
ScanCoversPool ==
  \A t \in Threads :
    pc[t] = "scan" /\ i[t] > Len(m_Conns) => Pooled \subseteq checked

(* The stack never exceeds the capacity that the constructor reserved.      *)
WithinCapacity == Len(m_Conns) <= MAX_CONN_NUM

(* Only the thread that holds m_Mtx is in CheckConnect's loop, its index    *)
(* stays in bounds, and the entry it is about to overwrite is freed.        *)
ScanOwnsMutex ==
  \A t \in Threads :
    /\ pc[t] \in {"scan", "swap"} <=> m_Mtx = t
    /\ pc[t] = "scan" => i[t] <= Len(m_Conns) + 1
    /\ pc[t] = "swap" => i[t] <= Len(m_Conns) /\ m_Conns[i[t]] = NULL

(* CheckConnect's loop cannot go on for ever while everybody waits for its  *)
(* mutex: whatever connections fail under it and whatever other threads do, *)
(* each of its steps leaves less to do until it gives the mutex back.       *)
ScanWork(t) ==
  2 * (Len(m_Conns) + 1 - i[t]) - IF pc[t] = "swap" THEN 1 ELSE 0

ScanProgress ==
  [][\A t \in Threads :
        m_Mtx = t /\ m_Mtx' = t =>
          \/ UNCHANGED <<m_Conns, pc[t], i[t], checked>>
          \/ ScanWork(t)' < ScanWork(t) /\ ScanWork(t)' \in Nat]_vars

(* Who owns each connection, as the abstract pool sees it.                  *)
Owner ==
  [c \in Conns |->
     IF c \notin alive THEN "nobody"
     ELSE IF c \in Pooled THEN "pool"
     ELSE IF c \in Held THEN CHOOSE t \in Threads : conn[t] = c
     ELSE "lost"]

Abstract == INSTANCE ConnPoolSpec WITH owner <- Owner, Capacity <- MAX_CONN_NUM

(* The stack with its mutex, scan and exceptions implements the pool that   *)
(* hands every connection to one owner at a time (ConnPoolSpec).            *)
Implements == Abstract!Spec

(* The header promises a stack, last in first out, so that the most recent  *)
(* connections stay in use.  Two connections that stay in the pool keep     *)
(* their order and the one that is handed out was the last, but for one     *)
(* case: CheckConnect's swap brings the most recent connection forward to   *)
(* the place of one that has failed.                                        *)
Below(s, a, b) == \E j, k \in DOMAIN s : j < k /\ s[j] = a /\ s[k] = b
KeepsOrder ==
  LET last == m_Conns[Len(m_Conns)]
  IN /\ \A a, b \in Pooled \cap Pooled' :
          Below(m_Conns, a, b) =>
            \/ Below(m_Conns', a, b)
            \/ b = last /\ \E t \in Threads : pc[t] = "swap" /\ m_Conns'[i[t]] = b
     /\ \A c \in Pooled : c \in Held' => c = last
     /\ \A c \in Held : c \in Pooled' => c = m_Conns'[Len(m_Conns')]
LifoButForSwap == [][KeepsOrder]_vars

=============================================================================
