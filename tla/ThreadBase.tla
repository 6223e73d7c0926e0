----------------------------- MODULE ThreadBase -----------------------------
(***************************************************************************)
(* ThreadBase of CommonTools/ThreadBase.cc: an object that runs a loop of  *)
(* its own on a std::thread.  Any caller may Start and Stop it; one owner  *)
(* joins and destroys it.  m_ShouldRun is a plain bool and m_Thread a      *)
(* plain member, so each read and each write of them is a step; two Starts *)
(* that overlap may both find m_Thread empty and write it.                 *)
(*                                                                         *)
(* A std::thread that still has a thread behind it ("joinable") ends the   *)
(* process when it is assigned to or destroyed: status "terminated".       *)
(***************************************************************************)
EXTENDS Integers, FiniteSets

CONSTANTS
  Callers,    \* the threads that call Start and Stop
  Owner,      \* the caller that also calls Join and deletes the object
  MaxLoops,   \* bound: the threads the system can make
  NoLoop      \* a std::thread that is not joinable

Loops == 1 .. MaxLoops

ASSUME ThreadBaseAssumption ==
  Owner \in Callers /\ MaxLoops \in Nat /\ NoLoop \notin Loops

VARIABLES
  m_ShouldRun,  \* the flag the loop runs under
  m_Thread,     \* the thread behind the member, or NoLoop
  loop,         \* where each thread's ThreadProc is
  pc,           \* where each caller is
  made,         \* the thread a caller has made and not yet assigned, or waits for
  overlap,      \* history: two Starts were behind their test at a time
  lost,         \* history: threads whose handle was written over
  failed,       \* history: since the last Stop a Start could not make its thread
  status        \* "up", "dying" (~derived class has run), "gone", "terminated"

vars == <<m_ShouldRun, m_Thread, loop, pc, made, overlap, lost, failed, status>>
hist == <<overlap, lost>>

LoopLabels   == {"unused", "begin", "test", "run", "done"}
CallerLabels == {"idle", "set", "spawn", "assign", "write", "join"}

\* The threads that are in ThreadProc.
Live == {l \in Loops : loop[l] \in {"begin", "test", "run"}}

TypeOK ==
  /\ m_ShouldRun \in BOOLEAN /\ failed \in BOOLEAN
  /\ m_Thread \in Loops \cup {NoLoop}
  /\ loop \in [Loops -> LoopLabels]
  /\ pc \in [Callers -> CallerLabels]
  /\ made \in [Callers -> Loops \cup {NoLoop}]
  /\ \A c \in Callers : pc[c] \in {"assign", "write", "join"} <=> made[c] # NoLoop
  /\ overlap \in BOOLEAN /\ lost \subseteq Loops
  /\ status \in {"up", "dying", "gone", "terminated"}

Init ==
  /\ m_ShouldRun = FALSE /\ m_Thread = NoLoop /\ failed = FALSE
  /\ overlap = FALSE /\ lost = {}
  /\ loop = [l \in Loops |-> "unused"]
  /\ pc = [c \in Callers |-> "idle"]
  /\ made = [c \in Callers |-> NoLoop]
  /\ status = "up"

-----------------------------------------------------------------------------
Goto(c, from, to) == pc[c] = from /\ pc' = [pc EXCEPT ![c] = to]
LoopGoto(l, from, to) == loop[l] = from /\ loop' = [loop EXCEPT ![l] = to]

(* Start(): read the flag, set it, make a thread, assign it to m_Thread.  A *)
(* Start that finds the flag set returns and changes nothing.               *)
InsideStart == {"set", "spawn", "assign", "write"}

StartTest(c) ==
  /\ Goto(c, "idle", "set") /\ ~m_ShouldRun
  /\ overlap' = (overlap \/ \E d \in Callers : pc[d] \in InsideStart)
  /\ UNCHANGED <<m_ShouldRun, m_Thread, loop, made, lost, failed, status>>

StartSet(c) ==
  /\ Goto(c, "set", "spawn")
  /\ m_ShouldRun' = TRUE
  /\ UNCHANGED <<m_Thread, loop, made, hist, failed, status>>

StartSpawn(c) ==
  /\ Goto(c, "spawn", "assign")
  /\ \E l \in Loops : /\ LoopGoto(l, "unused", "begin")
                      /\ made' = [made EXCEPT ![c] = l]
  /\ UNCHANGED <<m_ShouldRun, m_Thread, hist, failed, status>>

StartThrows(c) ==        \* no thread to be had: Start leaves with the flag set
  /\ Goto(c, "spawn", "idle")
  /\ failed' = TRUE
  /\ UNCHANGED <<m_ShouldRun, m_Thread, loop, made, hist, status>>

(* The assignment asks whether m_Thread is joinable, which ends the process, *)
(* and then writes it.                                                       *)
StartOverwrites(c) ==    \* mutant: the thread that was there is detached
  /\ Goto(c, "assign", "write")
  /\ UNCHANGED <<m_ShouldRun, m_Thread, loop, made, hist, failed, status>>

StartAssign(c) ==
  /\ Goto(c, "assign", "write")
  /\ status' = IF m_Thread = NoLoop THEN status ELSE "terminated"
  /\ UNCHANGED <<m_ShouldRun, m_Thread, loop, made, hist, failed>>

StartKeepsTemporary(c) == \* mutant: writes a copy, so two handles name the thread
  /\ Goto(c, "write", "idle")
  /\ m_Thread' = made[c]
  /\ UNCHANGED <<m_ShouldRun, loop, made, hist, failed, status>>

StartWrite(c) ==
  /\ Goto(c, "write", "idle")
  /\ m_Thread' = made[c] /\ made' = [made EXCEPT ![c] = NoLoop]
  /\ lost' = lost \cup ({m_Thread} \ {NoLoop})
  /\ UNCHANGED <<m_ShouldRun, loop, overlap, failed, status>>

Stop(c) ==
  /\ pc[c] = "idle"
  /\ m_ShouldRun' = FALSE /\ failed' = FALSE
  /\ UNCHANGED <<m_Thread, loop, pc, made, hist, status>>

(* Join(): returns at once when there is nothing to join, otherwise when    *)
(* the thread it found in m_Thread has ended, and leaves m_Thread empty.    *)
JoinBegin(c) ==
  /\ Goto(c, "idle", "join") /\ m_Thread # NoLoop
  /\ made' = [made EXCEPT ![c] = m_Thread]
  /\ UNCHANGED <<m_ShouldRun, m_Thread, loop, hist, failed, status>>

JoinEnd(c) ==
  /\ Goto(c, "join", "idle")
  /\ loop[made[c]] = "done"
  /\ m_Thread' = NoLoop /\ made' = [made EXCEPT ![c] = NoLoop]
  /\ lost' = lost \cup ({m_Thread} \ {made[c], NoLoop})
  /\ UNCHANGED <<m_ShouldRun, loop, overlap, failed, status>>

(* The owner deletes the object when no other call is in progress: first    *)
(* the derived class is gone, then m_Thread's destructor runs.              *)
Derived(c) ==
  /\ status = "up" /\ \A d \in Callers : pc[d] = "idle"
  /\ status' = "dying"
  /\ UNCHANGED <<m_ShouldRun, m_Thread, loop, pc, made, hist, failed>>

Destroy(c) ==
  /\ status = "dying"
  /\ status' = IF m_Thread = NoLoop THEN "gone" ELSE "terminated"
  /\ UNCHANGED <<m_ShouldRun, m_Thread, loop, pc, made, hist, failed>>

-----------------------------------------------------------------------------
(* ThreadProc: InitThread, then Run as often as the flag is found set.      *)
InitThread(l) ==
  /\ LoopGoto(l, "begin", "test")
  /\ UNCHANGED <<m_ShouldRun, m_Thread, pc, made, hist, failed, status>>

LoopIgnoresFlag(l) ==    \* mutant: the flag was read once, before the loop
  /\ LoopGoto(l, "test", "run")
  /\ UNCHANGED <<m_ShouldRun, m_Thread, pc, made, hist, failed, status>>

LoopTest(l) ==
  /\ LoopGoto(l, "test", IF m_ShouldRun THEN "run" ELSE "done")
  /\ UNCHANGED <<m_ShouldRun, m_Thread, pc, made, hist, failed, status>>

Run(l) ==                \* after ~derived Run is pure virtual: it ends the process
  /\ LoopGoto(l, "run", "test")
  /\ status' = IF status = "up" THEN "up" ELSE "terminated"
  /\ UNCHANGED <<m_ShouldRun, m_Thread, pc, made, hist, failed>>

ThreadProc(l) == InitThread(l) \/ LoopTest(l) \/ Run(l)

(* The part of Start behind its test.                                       *)
InStart(c) ==
  StartSet(c) \/ StartSpawn(c) \/ StartThrows(c) \/ StartAssign(c) \/ StartWrite(c)
Start(c) == StartTest(c) \/ InStart(c)
Join(c) == JoinBegin(c) \/ JoinEnd(c)

Next ==
  \/ status = "up" /\ \E c \in Callers : Start(c) \/ Stop(c)
  \/ status = "up" /\ (Join(Owner) \/ Derived(Owner))
  \/ Destroy(Owner)
  \/ status \in {"up", "dying", "gone"} /\ \E l \in Loops : ThreadProc(l)

Spec == Init /\ [][Next]_vars

(* A thread that was made is scheduled and its Run returns; a caller inside *)
(* Start or Join goes on.  Nobody has to call anything.                     *)
FairSpec ==
  /\ Spec
  /\ \A l \in Loops : WF_vars(status \in {"up", "dying"} /\ ThreadProc(l))
  /\ \A c \in Callers : WF_vars(status = "up" /\ InStart(c))
  /\ WF_vars(status = "up" /\ JoinEnd(Owner))
  /\ WF_vars(Destroy(Owner))

-----------------------------------------------------------------------------
(* No loop runs on unseen: each live one is behind m_Thread or in the hands *)
(* of the caller that is about to assign it, so that a Join which returned  *)
(* or a destruction which did not end the process left nothing running.     *)
(* The exception is a handle that was written over, which takes two Starts  *)
(* that overlapped.  And the flag says what Start's comment takes it to     *)
(* say, that the loop has been started ("说明已经启动了"), but for a Start   *)
(* that has failed.                                                         *)
EveryLoopHasHandle ==
  status # "terminated" =>
    /\ Live \subseteq {m_Thread} \cup {made[c] : c \in Callers} \cup lost
    /\ lost # {} => overlap
    /\ status = "gone" => Live \subseteq lost
    /\ m_ShouldRun /\ (\A c \in Callers : pc[c] \notin InsideStart \ {"set"}) =>
         Live # {} \/ failed

(* Stop reaches the loop and the owner waiting in Join: once the flag is    *)
(* clear the loop ends.  A Start that comes between Stop and the loop's     *)
(* next look at the flag does not make it go on unseen: the thread is still *)
(* to be joined and the assignment ends the process, unless the Start could *)
(* not make its thread and left the flag set, or a handle was written over. *)
StopEndsLoop ==
  /\ \A l \in Loops :
       (~m_ShouldRun /\ l \in Live) ~>
         (l \notin Live \/ lost # {} \/ status # "up" \/ failed)
  /\ (pc[Owner] = "join" /\ ~m_ShouldRun) ~>
       (pc[Owner] = "idle" \/ status # "up" \/ failed)

=============================================================================
