--------------------------- MODULE SpinLockProofs ---------------------------
(***************************************************************************)
(* Proofs about SpinLock for any finite set of threads.  That no increment *)
(* is lost and no index printed twice rests on the lock: the value loaded  *)
(* is still the counter's when it is stored, and every index printed       *)
(* before lies below the counter while a new one is being made.            *)
(***************************************************************************)
EXTENDS SpinLock, FiniteSetTheorems, TLAPS

(* What a thread inside the lock knows about the counter. *)
CounterLocal ==
  \A t \in Threads :
    /\ pc[t] = "store" => reg[t] = geneartor
    /\ pc[t] \in {"print", "unlock"} => geneartor > 0

(* The indices printed so far, against the counter. *)
IndexBelow ==
  /\ \A t \in Threads : index[t] <= geneartor
  /\ \A t \in Threads : pc[t] \in {"lock", "load", "store", "print"} => index[t] = 0
  /\ \A t, u \in Threads : pc[t] = "print" => index[u] < geneartor

IInv ==
  /\ TypeOK /\ MutualExclusion /\ CounterLocal /\ IndexBelow
  /\ UniqueIndex /\ NoLostUpdate

\* The threads whose increment has been stored.
Counted == {t \in Threads : index[t] # 0 \/ pc[t] = "print"}

-----------------------------------------------------------------------------
LEMMA InitIInv == Init => IInv
<1> SUFFICES ASSUME Init PROVE IInv
  OBVIOUS
<1>1. Counted = {}
  BY DEF Init, Counted
<1>2. NoLostUpdate
  BY <1>1, FS_EmptySet DEF Init, NoLostUpdate, Counted
<1>3. MutualExclusion
  BY DEF Init, MutualExclusion, Inside
<1>4. TypeOK
  BY DEF Init, TypeOK, Inside
<1>5. CounterLocal /\ IndexBelow /\ UniqueIndex
  BY DEF Init, CounterLocal, IndexBelow, UniqueIndex
<1> QED BY <1>2, <1>3, <1>4, <1>5 DEF IInv

(* Nobody enters while somebody is inside, and leaving clears the flag. *)
LEMMA ExclusionStep ==
  ASSUME IInv, NEW t \in Threads, Step(t) \/ TryLock(t)
  PROVE  TypeOK' /\ MutualExclusion'
<1> USE DEF IInv, TypeOK, MutualExclusion, Inside, Goto
<1>1. CASE Lock(t)
  BY <1>1 DEF Lock, TestAndSet
<1>2. CASE m_lock /\ Goto(t, "lock", "done") /\ UNCHANGED <<m_lock, geneartor, reg, index>>
  BY <1>2
<1>3. CASE Load(t)
  BY <1>3 DEF Load
<1>4. CASE Store(t)
  BY <1>4 DEF Store
<1>5. CASE PrintIndex(t)
  BY <1>5 DEF PrintIndex
<1>6. CASE Unlock(t)
  BY <1>6 DEF Unlock
<1> QED BY <1>1, <1>2, <1>3, <1>4, <1>5, <1>6 DEF Step, TryLock

LEMMA CounterStep ==
  ASSUME IInv, NEW t \in Threads, Step(t) \/ TryLock(t)
  PROVE  CounterLocal' /\ IndexBelow' /\ UniqueIndex'
<1> USE DEF IInv, TypeOK, MutualExclusion, Inside, Goto, CounterLocal, IndexBelow, UniqueIndex
<1>1. CASE Lock(t)
  BY <1>1 DEF Lock, TestAndSet
<1>2. CASE m_lock /\ Goto(t, "lock", "done") /\ UNCHANGED <<m_lock, geneartor, reg, index>>
  BY <1>2
<1>3. CASE Load(t)
  BY <1>3 DEF Load
<1>4. CASE Store(t)
  BY <1>4 DEF Store
<1>5. CASE PrintIndex(t)
  BY <1>5 DEF PrintIndex
<1>6. CASE Unlock(t)
  BY <1>6 DEF Unlock
<1> QED BY <1>1, <1>2, <1>3, <1>4, <1>5, <1>6 DEF Step, TryLock

(* Only a store adds a thread to those counted, and it adds one to the counter. *)
LEMMA NoLostUpdateStep ==
  ASSUME IInv, NEW t \in Threads, Step(t) \/ TryLock(t)
  PROVE  NoLostUpdate'
<1> USE DEF IInv, TypeOK, Goto
<1>1. geneartor = Cardinality(Counted)
  BY DEF NoLostUpdate, Counted
<1>2. CASE Store(t)
  <2>1. Counted' = Counted \cup {t} /\ t \notin Counted
    BY <1>2 DEF Store, Counted, IndexBelow
  <2>2. IsFiniteSet(Counted)
    BY SpinLockAssumption, FS_Subset DEF Counted
  <2>3. Cardinality(Counted') = Cardinality(Counted) + 1
    BY <2>1, <2>2, FS_AddElement
  <2>4. geneartor' = geneartor + 1
    BY <1>2 DEF Store, CounterLocal
  <2> QED BY <1>1, <2>3, <2>4 DEF NoLostUpdate, Counted
<1>3. CASE PrintIndex(t)
  <2>1. Counted' = Counted /\ geneartor' = geneartor
    BY <1>3 DEF PrintIndex, Counted, CounterLocal
  <2> QED BY <1>1, <2>1 DEF NoLostUpdate, Counted
<1>4. CASE UNCHANGED <<geneartor, index>> /\ pc[t] # "print" /\ pc'[t] # "print"
           /\ \A u \in Threads \ {t} : pc'[u] = pc[u]
  <2>1. Counted' = Counted
    BY <1>4 DEF Counted
  <2> QED BY <1>1, <1>4, <2>1 DEF NoLostUpdate, Counted
<1> QED
  BY <1>2, <1>3, <1>4 DEF Step, TryLock, Lock, TestAndSet, Load, Unlock

-----------------------------------------------------------------------------
(* The inductive invariant of the lock and the counter it protects. *)
THEOREM SpinLockInvariance == Spec => []IInv
<1>1. IInv /\ [Next]_vars => IInv'
  <2> SUFFICES ASSUME IInv, [Next]_vars PROVE IInv'
    OBVIOUS
  <2>1. CASE UNCHANGED vars
    BY <2>1 DEF vars, IInv, TypeOK, MutualExclusion, CounterLocal, IndexBelow,
       UniqueIndex, NoLostUpdate
  <2>2. CASE Next
    BY <2>2, ExclusionStep, CounterStep, NoLostUpdateStep DEF Next, IInv
  <2> QED BY <2>1, <2>2
<1> QED BY InitIInv, <1>1, PTL DEF Spec

(* Every variable keeps its type, for any finite set of threads. *)
THEOREM SpinLockTypeCorrect == Spec => []TypeOK
<1>1. IInv => TypeOK
  BY DEF IInv
<1> QED BY SpinLockInvariance, <1>1, PTL

(* At most one thread runs the code between lock() and unlock(). *)
THEOREM SpinLockExcludes == Spec => []MutualExclusion
<1>1. IInv => MutualExclusion
  BY DEF IInv
<1> QED BY SpinLockInvariance, <1>1, PTL

(* No two threads ever print the same index. *)
THEOREM SpinLockUniqueIndex == Spec => []UniqueIndex
<1>1. IInv => UniqueIndex
  BY DEF IInv
<1> QED BY SpinLockInvariance, <1>1, PTL

(* However many threads increment the plain int, no increment is lost. *)
THEOREM SpinLockNoLostUpdate == Spec => []NoLostUpdate
<1>1. IInv => NoLostUpdate
  BY DEF IInv
<1> QED BY SpinLockInvariance, <1>1, PTL

=============================================================================
