-------------------------- MODULE ThreadBaseProofs --------------------------
(***************************************************************************)
(* Proofs about ThreadBase for any callers and any number of threads.  That *)
(* a handle is written over only when two Starts overlapped is not          *)
(* inductive: a caller that is about to write m_Thread has found it empty,  *)
(* so whatever is there now was put there by another Start meanwhile, and   *)
(* the same goes for the owner that comes back from a Join.                 *)
(***************************************************************************)
EXTENDS ThreadBase, TLAPS

(* Two callers behind the test of Start are remembered as an overlap.       *)
OverlapSeen ==
  \A c, d \in Callers :
    c # d /\ pc[c] \in InsideStart /\ pc[d] \in InsideStart => overlap

(* What m_Thread is to a caller that is about to write it.                  *)
WriterAlone ==
  /\ \A c \in Callers : pc[c] = "write" /\ m_Thread # NoLoop => overlap
  /\ \A c \in Callers : pc[c] = "join" => c = Owner /\ (m_Thread # made[c] => overlap)

(* A live loop has a handle, or its handle was written over.                *)
Reachable ==
  /\ Live \subseteq {m_Thread} \cup {made[c] : c \in Callers} \cup lost
  /\ lost # {} => overlap
  /\ status = "gone" => Live \subseteq lost

(* The flag is set while a thread is being made, runs, or could not be made. *)
FlagMeansLoop ==
  m_ShouldRun => Live # {} \/ failed \/ \E c \in Callers : pc[c] = "spawn"

(* The object is destroyed when nobody uses it.                             *)
NobodyInside ==
  status \in {"dying", "gone"} => \A c \in Callers : pc[c] = "idle"

Handles == Reachable /\ OverlapSeen /\ WriterAlone /\ FlagMeansLoop /\ NobodyInside

IInv == TypeOK /\ (status # "terminated" => Handles)

-----------------------------------------------------------------------------
LEMMA InitIInv == Init => IInv
<1> SUFFICES ASSUME Init PROVE IInv
  OBVIOUS
<1>1. TypeOK
  BY DEF Init, TypeOK, LoopLabels, CallerLabels
<1>2. Live = {}
  BY DEF Init, Live
<1>3. Handles
  BY <1>2 DEF Init, Handles, Reachable, OverlapSeen, WriterAlone, FlagMeansLoop,
     NobodyInside, InsideStart
<1> QED BY <1>1, <1>3 DEF IInv

(* What a caller's step leaves of the types.                                *)
LEMMA StartTypes ==
  ASSUME TypeOK, NEW c \in Callers, Start(c)
  PROVE  TypeOK'
<1> USE ThreadBaseAssumption DEF TypeOK, CallerLabels, LoopLabels, Goto, LoopGoto, hist
<1>1. CASE StartTest(c)
  BY <1>1 DEF StartTest
<1>2. CASE StartSet(c)
  BY <1>2 DEF StartSet
<1>3. CASE StartSpawn(c)
  BY <1>3 DEF StartSpawn
<1>4. CASE StartThrows(c)
  BY <1>4 DEF StartThrows
<1>5. CASE StartAssign(c)
  BY <1>5 DEF StartAssign
<1>6. CASE StartWrite(c)
  BY <1>6 DEF StartWrite
<1> QED BY <1>1, <1>2, <1>3, <1>4, <1>5, <1>6 DEF Start, InStart

LEMMA CallTypes ==
  ASSUME TypeOK, NEW c \in Callers, Stop(c) \/ Join(c) \/ Derived(c) \/ Destroy(c)
  PROVE  TypeOK'
<1> USE ThreadBaseAssumption DEF TypeOK, CallerLabels, LoopLabels, Goto, hist
<1>1. CASE Stop(c)
  BY <1>1 DEF Stop
<1>2. CASE JoinBegin(c)
  BY <1>2 DEF JoinBegin
<1>3. CASE JoinEnd(c)
  BY <1>3 DEF JoinEnd
<1>4. CASE Derived(c) \/ Destroy(c)
  BY <1>4 DEF Derived, Destroy
<1> QED BY <1>1, <1>2, <1>3, <1>4 DEF Join

LEMMA LoopTypes ==
  ASSUME TypeOK, NEW l \in Loops, ThreadProc(l)
  PROVE  TypeOK'
<1> USE DEF TypeOK, LoopLabels, LoopGoto, hist
<1>1. CASE InitThread(l)
  BY <1>1 DEF InitThread
<1>2. CASE LoopTest(l)
  BY <1>2 DEF LoopTest
<1>3. CASE Run(l)
  BY <1>3 DEF Run
<1> QED BY <1>1, <1>2, <1>3 DEF ThreadProc

-----------------------------------------------------------------------------
(* Start sees another Start that is behind its test, takes its new thread   *)
(* in hand before it runs and, when it writes m_Thread, gives the handle    *)
(* away for the one that was there.                                         *)
LEMMA StartHandles ==
  ASSUME TypeOK, Handles, status = "up", NEW c \in Callers, Start(c), status' # "terminated"
  PROVE  Handles'
<1> USE ThreadBaseAssumption DEF TypeOK, Handles, Goto, hist
<1>1. CASE StartTest(c)
  <2>1. OverlapSeen'
    BY <1>1 DEF StartTest, OverlapSeen
  <2>2. Live' = Live
    BY <1>1 DEF StartTest, Live
  <2>3. Reachable' /\ WriterAlone' /\ FlagMeansLoop' /\ NobodyInside'
    BY <1>1, <2>2 DEF StartTest, Reachable, WriterAlone, FlagMeansLoop, NobodyInside
  <2> QED BY <2>1, <2>3
<1>2. CASE StartSet(c)
  <2>1. Live' = Live /\ pc'[c] = "spawn"
    BY <1>2 DEF StartSet, Live
  <2>2. Reachable' /\ OverlapSeen' /\ WriterAlone' /\ FlagMeansLoop' /\ NobodyInside'
    BY <1>2, <2>1 DEF StartSet, Reachable, OverlapSeen, InsideStart, WriterAlone,
       FlagMeansLoop, NobodyInside
  <2> QED BY <2>2
<1>3. CASE StartSpawn(c)
  <2>1. PICK l \in Loops : LoopGoto(l, "unused", "begin") /\ made' = [made EXCEPT ![c] = l]
    BY <1>3 DEF StartSpawn
  <2>2. Live' = Live \cup {l}
    BY <1>3, <2>1 DEF StartSpawn, LoopGoto, Live
  <2>3. made[c] = NoLoop /\ made'[c] = l /\ \A d \in Callers \ {c} : made'[d] = made[d]
    BY <1>3, <2>1 DEF StartSpawn
  <2>4. Reachable'
    BY <1>3, <2>2, <2>3 DEF StartSpawn, Reachable, Live
  <2>5. OverlapSeen' /\ WriterAlone' /\ FlagMeansLoop' /\ NobodyInside'
    BY <1>3, <2>2, <2>3 DEF StartSpawn, OverlapSeen, InsideStart, WriterAlone,
       FlagMeansLoop, NobodyInside
  <2> QED BY <2>4, <2>5
<1>4. CASE StartThrows(c)
  <2>1. Live' = Live
    BY <1>4 DEF StartThrows, Live
  <2>2. Reachable' /\ OverlapSeen' /\ WriterAlone' /\ FlagMeansLoop' /\ NobodyInside'
    BY <1>4, <2>1 DEF StartThrows, Reachable, OverlapSeen, InsideStart, WriterAlone,
       FlagMeansLoop, NobodyInside
  <2> QED BY <2>2
<1>5. CASE StartAssign(c)
  <2>1. Live' = Live /\ m_Thread = NoLoop
    BY <1>5 DEF StartAssign, Live
  <2>2. Reachable' /\ OverlapSeen' /\ WriterAlone' /\ FlagMeansLoop' /\ NobodyInside'
    BY <1>5, <2>1 DEF StartAssign, Reachable, OverlapSeen, InsideStart, WriterAlone,
       FlagMeansLoop, NobodyInside
  <2> QED BY <2>2
<1>6. CASE StartWrite(c)
  <2>1. Live' = Live
    BY <1>6 DEF StartWrite, Live
  <2>2. m_Thread # NoLoop => overlap
    BY <1>6 DEF StartWrite, WriterAlone
  <2>3. Reachable'
    <3>1. \A d \in Callers \ {c} : made'[d] = made[d]
      BY <1>6 DEF StartWrite
    <3>2. ASSUME NEW l \in Live
          PROVE  l \in {m_Thread'} \cup {made'[d] : d \in Callers} \cup lost'
      BY <1>6, <3>1 DEF StartWrite, Reachable, Live
    <3> QED BY <1>6, <2>1, <2>2, <3>2 DEF StartWrite, Reachable
  <2>4. WriterAlone'
    BY <1>6, <2>2 DEF StartWrite, WriterAlone, OverlapSeen, InsideStart
  <2>5. OverlapSeen' /\ FlagMeansLoop' /\ NobodyInside'
    BY <1>6, <2>1 DEF StartWrite, OverlapSeen, InsideStart, FlagMeansLoop, NobodyInside
  <2> QED BY <2>3, <2>4, <2>5
<1> QED BY <1>1, <1>2, <1>3, <1>4, <1>5, <1>6 DEF Start, InStart

(* The other calls touch a handle only in Join, when its loop has ended.    *)
LEMMA CallHandles ==
  ASSUME TypeOK, Handles, NEW c \in Callers, status' # "terminated",
         \/ status = "up" /\ Stop(c)
         \/ status = "up" /\ c = Owner /\ Join(c)
         \/ Derived(c)
         \/ Destroy(c)
  PROVE  Handles'
<1> USE ThreadBaseAssumption DEF TypeOK, Handles, Goto, hist
<1>1. CASE status = "up" /\ Stop(c)
  BY <1>1 DEF Stop, Live, Reachable, OverlapSeen, WriterAlone, FlagMeansLoop, NobodyInside
<1>2. CASE status = "up" /\ c = Owner /\ JoinBegin(c)
  <2>1. Live' = Live
    BY <1>2 DEF JoinBegin, Live
  <2>2. made[c] = NoLoop /\ \A d \in Callers \ {c} : made'[d] = made[d]
    BY <1>2 DEF JoinBegin
  <2>3. Reachable'
    BY <1>2, <2>1, <2>2 DEF JoinBegin, Reachable, Live
  <2>4. OverlapSeen' /\ WriterAlone' /\ FlagMeansLoop' /\ NobodyInside'
    BY <1>2, <2>1, <2>2 DEF JoinBegin, OverlapSeen, InsideStart, WriterAlone,
       FlagMeansLoop, NobodyInside
  <2> QED BY <2>3, <2>4
<1>3. CASE status = "up" /\ c = Owner /\ JoinEnd(c)
  <2>1. Live' = Live /\ made[c] \notin Live
    BY <1>3 DEF JoinEnd, Live
  <2>2. m_Thread # made[c] => overlap
    BY <1>3 DEF JoinEnd, WriterAlone
  <2>3. \A d \in Callers \ {c} : made'[d] = made[d] /\ pc'[d] = pc[d]
    BY <1>3 DEF JoinEnd
  <2>4. Reachable'
    BY <1>3, <2>1, <2>2, <2>3 DEF JoinEnd, Reachable, Live
  <2>5. OverlapSeen' /\ WriterAlone' /\ FlagMeansLoop' /\ NobodyInside'
    BY <1>3, <2>1, <2>3 DEF JoinEnd, OverlapSeen, InsideStart, WriterAlone,
       FlagMeansLoop, NobodyInside
  <2> QED BY <2>4, <2>5
<1>4. CASE Derived(c)
  BY <1>4 DEF Derived, Live, Reachable, OverlapSeen, WriterAlone, FlagMeansLoop, NobodyInside
<1>5. CASE Destroy(c)
  <2>1. m_Thread = NoLoop /\ \A d \in Callers : made[d] = NoLoop
    BY <1>5 DEF Destroy, NobodyInside
  <2>2. Live \subseteq lost
    BY <2>1 DEF Reachable, Live
  <2> QED BY <1>5, <2>2 DEF Destroy, Live, Reachable, OverlapSeen, WriterAlone,
          FlagMeansLoop, NobodyInside
<1> QED BY <1>1, <1>2, <1>3, <1>4, <1>5 DEF Join

(* A loop ends only when it finds the flag clear, and no step of it makes a  *)
(* loop live.                                                               *)
LEMMA LoopHandles ==
  ASSUME TypeOK, Handles, NEW l \in Loops, ThreadProc(l), status' # "terminated"
  PROVE  Handles'
<1> USE DEF TypeOK, Handles, LoopGoto, hist
<1>1. /\ UNCHANGED <<m_ShouldRun, m_Thread, pc, made, overlap, lost, failed>>
      /\ status' = status
  BY DEF ThreadProc, InitThread, LoopTest, Run
<1>2. Live' \subseteq Live /\ (m_ShouldRun => Live' = Live)
  BY DEF ThreadProc, InitThread, LoopTest, Run, Live
<1> QED BY <1>1, <1>2 DEF Reachable, OverlapSeen, WriterAlone, FlagMeansLoop, NobodyInside

-----------------------------------------------------------------------------
(* The inductive invariant of the handles.                                  *)
THEOREM ThreadBaseInvariance == Spec => []IInv
<1>1. IInv /\ [Next]_vars => IInv'
  <2> SUFFICES ASSUME IInv, [Next]_vars PROVE IInv'
    OBVIOUS
  <2>1. CASE UNCHANGED vars
    BY <2>1 DEF vars, IInv, TypeOK, Handles, Live, Reachable, OverlapSeen, WriterAlone,
       FlagMeansLoop, NobodyInside
  <2>2. CASE status = "up" /\ \E c \in Callers : Start(c) \/ Stop(c)
    BY <2>2, StartTypes, CallTypes, StartHandles, CallHandles DEF IInv
  <2>3. CASE (status = "up" /\ (Join(Owner) \/ Derived(Owner))) \/ Destroy(Owner)
    <3>1. status # "terminated"
      BY <2>3 DEF Destroy
    <3> QED BY <2>3, <3>1, ThreadBaseAssumption, CallTypes, CallHandles DEF IInv
  <2>4. CASE status \in {"up", "dying", "gone"} /\ \E l \in Loops : ThreadProc(l)
    BY <2>4, LoopTypes, LoopHandles DEF IInv
  <2> QED BY <2>1, <2>2, <2>3, <2>4 DEF Next
<1> QED BY InitIInv, <1>1, PTL DEF Spec

(* Every variable keeps its type, and a thread is in a caller's hands        *)
(* exactly between making and writing it or while the caller waits for it.  *)
THEOREM ThreadBaseTypeCorrect == Spec => []TypeOK
<1>1. IInv => TypeOK
  BY DEF IInv
<1> QED BY ThreadBaseInvariance, <1>1, PTL

(* Whatever callers do with Start, Stop, Join and the destruction, a loop    *)
(* that nobody can join takes two Starts that overlapped, a destruction that *)
(* does not end the process leaves only such loops, and the flag is set for  *)
(* a loop or for a Start that has failed.                                    *)
THEOREM ThreadBaseHandles == Spec => []EveryLoopHasHandle
<1>1. IInv => EveryLoopHasHandle
  BY DEF IInv, Handles, Reachable, FlagMeansLoop, EveryLoopHasHandle, InsideStart
<1> QED BY ThreadBaseInvariance, <1>1, PTL
=============================================================================
