------------------------------ MODULE SpinLock ------------------------------
(***************************************************************************)
(* The test-and-set lock of std_attri/LockFreeTest.h and the threads that  *)
(* use it to number themselves: myFunc locks, increments `geneartor' (a    *)
(* plain int: a load and a store), prints the result and unlocks.          *)
(***************************************************************************)
EXTENDS Integers, FiniteSets

CONSTANT Threads   \* the threads of test_use_spinlock (20 in the code)

ASSUME SpinLockAssumption == IsFiniteSet(Threads)

VARIABLES
  m_lock,      \* the atomic_flag
  geneartor,   \* the shared counter (the source's spelling)
  pc,          \* "lock", "load", "store", "print", "unlock", "done"
  reg,         \* the value a thread has loaded
  index        \* the number a thread has printed, 0 before

vars == <<m_lock, geneartor, pc, reg, index>>

Inside == {"load", "store", "print", "unlock"}

TypeOK ==
  /\ m_lock \in BOOLEAN /\ geneartor \in Nat
  /\ pc \in [Threads -> Inside \cup {"lock", "done"}]
  /\ reg \in [Threads -> Nat] /\ index \in [Threads -> Nat]

Init ==
  /\ m_lock = FALSE /\ geneartor = 0
  /\ pc = [t \in Threads |-> "lock"]
  /\ reg = [t \in Threads |-> 0] /\ index = [t \in Threads |-> 0]

-----------------------------------------------------------------------------
Goto(t, from, to) == pc[t] = from /\ pc' = [pc EXCEPT ![t] = to]

(* lock(): test_and_set returns the old value; a set flag means spinning.   *)
TestAndSet(t) ==
  /\ ~m_lock /\ m_lock' = TRUE
  /\ Goto(t, "lock", "load")
  /\ UNCHANGED <<geneartor, reg, index>>

(* Testing and setting in two steps, both of which another thread may       *)
(* interleave: what an ordinary bool would give (a mutant).                 *)
TestThenSet(t) ==
  /\ Goto(t, "lock", "load")
  /\ m_lock' \in {m_lock, TRUE}
  /\ UNCHANGED <<geneartor, reg, index>>

Lock(t) == TestAndSet(t)

(* try_lock(): the caller gives up when the flag was set.                   *)
TryLock(t) ==
  \/ Lock(t)
  \/ m_lock /\ Goto(t, "lock", "done") /\ UNCHANGED <<m_lock, geneartor, reg, index>>

Load(t) ==
  /\ Goto(t, "load", "store")
  /\ reg' = [reg EXCEPT ![t] = geneartor]
  /\ UNCHANGED <<m_lock, geneartor, index>>

StoreDecrements(t) == \* mutant: --geneartor
  /\ Goto(t, "store", "print")
  /\ geneartor' = reg[t] - 1
  /\ UNCHANGED <<m_lock, reg, index>>

Store(t) ==
  /\ Goto(t, "store", "print")
  /\ geneartor' = reg[t] + 1
  /\ UNCHANGED <<m_lock, reg, index>>

PrintIndex(t) ==     \* ++geneartor is an lvalue: it is read again
  /\ Goto(t, "print", "unlock")
  /\ index' = [index EXCEPT ![t] = geneartor]
  /\ UNCHANGED <<m_lock, geneartor, reg>>

NoUnlock(t) ==       \* mutant: returns without clear()
  /\ Goto(t, "unlock", "done")
  /\ UNCHANGED <<m_lock, geneartor, reg, index>>

Unlock(t) ==
  /\ Goto(t, "unlock", "done")
  /\ m_lock' = FALSE
  /\ UNCHANGED <<geneartor, reg, index>>

Step(t) == Lock(t) \/ Load(t) \/ Store(t) \/ PrintIndex(t) \/ Unlock(t)

Next == \E t \in Threads : Step(t) \/ TryLock(t)

Spec == Init /\ [][Next]_vars

(* Every started thread is scheduled; spinning itself needs no fairness.    *)
FairSpec == Spec /\ \A t \in Threads : WF_vars(Step(t))

-----------------------------------------------------------------------------
(* At most one thread is between lock() and unlock(), and only with the     *)
(* flag set.                                                                *)
MutualExclusion ==
  /\ \A t, u \in Threads : pc[t] \in Inside /\ pc[u] \in Inside => t = u
  /\ (\E t \in Threads : pc[t] \in Inside) <=> m_lock

(* No two threads print the same index.                                     *)
UniqueIndex ==
  \A t, u \in Threads : index[t] = index[u] /\ index[t] # 0 => t = u

(* No increment is lost: the counter is the number of stores that were done.*)
NoLostUpdate ==
  geneartor = Cardinality({t \in Threads : index[t] # 0 \/ pc[t] = "print"})

(* Every thread gets through lock() and ends: a thread that spins is passed *)
(* by each other thread at most once.                                       *)
EveryThreadEnds == \A t \in Threads : <>(pc[t] = "done")

=============================================================================
