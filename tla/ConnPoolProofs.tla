--------------------------- MODULE ConnPoolProofs ---------------------------
(***************************************************************************)
(* Proofs about ConnPool for every set of threads and addresses and every  *)
(* capacity.  The safety properties are not inductive one by one: that a   *)
(* pop hands out an object nobody else owns needs the stack to hold each   *)
(* object once, that the swap keeps it so needs the freed entry to be the  *)
(* one under the index, and that needs the scanning thread to hold m_Mtx.  *)
(***************************************************************************)
EXTENDS ConnPool, SequenceTheorems, FiniteSetTheorems, TLAPS

(* What a thread has in hand, by where it is. *)
HandsByLabel ==
  \A t \in Threads :
    /\ pc[t] = "connect" => conn[t] # NULL
    /\ pc[t] \notin {"idle", "connect"} => conn[t] = NULL

(* An abandoned object is out of everybody's reach. *)
OrphansUnreachable == orphaned \cap (Pooled \cup Held) = {}

(* The entries below the index of a scan were found valid by that scan. *)
ScannedPrefix ==
  \A t \in Threads :
    pc[t] \in {"scan", "swap"} => \A k \in 1 .. i[t] - 1 : m_Conns[k] \in checked

(* Who owns what, and where the threads are. *)
Ownership ==
  /\ ExclusiveOwnership
  /\ NoDanglingPointer
  /\ OnlyCreateLeaks
  /\ OrphansUnreachable
  /\ WithinCapacity

Control == HandsByLabel /\ ScanOwnsMutex /\ ScannedPrefix

IInv == TypeOK /\ Ownership /\ Control

Entries == Conns \cup {NULL}

-----------------------------------------------------------------------------
(* Popping the stack keeps every other entry where it is. *)
LEMMA PopEntries ==
  ASSUME NEW S, NEW s \in Seq(S), s # << >>
  PROVE  LET p == SubSeq(s, 1, Len(s) - 1)
         IN /\ p \in Seq(S) /\ Len(p) = Len(s) - 1
            /\ \A k \in 1 .. Len(s) - 1 : p[k] = s[k]
<1> DEFINE p == SubSeq(s, 1, Len(s) - 1)
<1>1. Len(s) \in Nat /\ Len(s) > 0
  BY EmptySeq, LenProperties
<1>2. \A k \in 1 .. Len(s) - 1 : s[k] \in S
  BY <1>1, ElementOfSeq
<1>3. /\ p \in Seq(S)
      /\ Len(p) = IF 1 <= Len(s) - 1 THEN Len(s) - 1 - 1 + 1 ELSE 0
      /\ \A k \in 1 .. Len(s) - 1 - 1 + 1 : p[k] = s[1 + k - 1]
  BY <1>1, <1>2, SubSeqProperties
<1> HIDE DEF p
<1>4. \A k \in 1 .. Len(s) - 1 : p[k] = s[k]
  <2> SUFFICES ASSUME NEW k \in 1 .. Len(s) - 1 PROVE p[k] = s[k]
    OBVIOUS
  <2>1. k \in 1 .. Len(s) - 1 - 1 + 1 /\ 1 + k - 1 = k
    BY <1>1
  <2>2. p[k] = s[1 + k - 1]
    BY <1>3, <2>1
  <2> QED BY <2>1, <2>2
<1>5. p \in Seq(S)
  BY <1>3
<1>6. Len(p) = Len(s) - 1
  <2>1. CASE 1 <= Len(s) - 1
    BY <1>1, <1>3, <2>1
  <2>2. CASE Len(s) = 1
    BY <1>1, <1>3, <2>2
  <2>3. \A l \in Nat : l > 0 => 1 <= l - 1 \/ l = 1
    OBVIOUS
  <2>4. 1 <= Len(s) - 1 \/ Len(s) = 1
    BY <1>1, <2>3, Zenon
  <2> QED BY <2>1, <2>2, <2>4
<1> QED BY <1>4, <1>5, <1>6 DEF p

(* Pushing adds one entry at the end. *)
LEMMA PushEntry ==
  ASSUME NEW S, NEW s \in Seq(S), NEW e \in S
  PROVE  /\ Append(s, e) \in Seq(S) /\ Len(Append(s, e)) = Len(s) + 1
         /\ \A k \in 1 .. Len(s) + 1 :
              Append(s, e)[k] = IF k = Len(s) + 1 THEN e ELSE s[k]
BY AppendProperties, LenProperties

(* CheckConnect's removal: the last entry moves over entry n. *)
LEMMA SwapEntries ==
  ASSUME NEW S, NEW s \in Seq(S), NEW n \in 1 .. Len(s)
  PROVE  LET p == SubSeq([s EXCEPT ![n] = s[Len(s)]], 1, Len(s) - 1)
         IN /\ p \in Seq(S) /\ Len(p) = Len(s) - 1
            /\ \A k \in 1 .. Len(s) - 1 : p[k] = IF k = n THEN s[Len(s)] ELSE s[k]
<1> DEFINE r == [s EXCEPT ![n] = s[Len(s)]]
<1>1. Len(s) \in Nat /\ Len(s) > 0
  BY LenProperties
<1>2. s[Len(s)] \in S
  BY <1>1, ElementOfSeq
<1>3. /\ r \in Seq(S) /\ Len(r) = Len(s)
      /\ \A k \in 1 .. Len(s) : r[k] = IF k = n THEN s[Len(s)] ELSE s[k]
  BY <1>2, ExceptSeq
<1>4. r # << >>
  BY <1>1, <1>3, EmptySeq
<1> HIDE DEF r
<1>5. LET p == SubSeq(r, 1, Len(r) - 1)
      IN /\ p \in Seq(S) /\ Len(p) = Len(r) - 1
         /\ \A k \in 1 .. Len(r) - 1 : p[k] = r[k]
  BY <1>3, <1>4, PopEntries
<1>6. \A k \in 1 .. Len(s) - 1 : k \in 1 .. Len(s)
  BY <1>1
<1>7. /\ SubSeq(r, 1, Len(s) - 1) \in Seq(S)
      /\ Len(SubSeq(r, 1, Len(s) - 1)) = Len(s) - 1
      /\ \A k \in 1 .. Len(s) - 1 :
           SubSeq(r, 1, Len(s) - 1)[k] = IF k = n THEN s[Len(s)] ELSE s[k]
  BY <1>3, <1>5, <1>6
<1> QED BY <1>7 DEF r

-----------------------------------------------------------------------------
(* How the operations move objects between the stack and the threads. *)
LEMMA HeldGains ==
  ASSUME TypeOK, NEW t \in Threads, NEW c \in Conns, conn[t] = NULL, Own(t, c)
  PROVE  Held' = Held \cup {c}
BY ConnPoolAssumption DEF TypeOK, Own, Held

LEMMA HeldDrops ==
  ASSUME TypeOK, ExclusiveOwnership, NEW t \in Threads, conn[t] # NULL, Own(t, NULL)
  PROVE  Held' = Held \ {conn[t]}
BY DEF TypeOK, ExclusiveOwnership, Own, Held

LEMMA HandUnchanged ==
  ASSUME TypeOK, NEW t \in Threads, conn[t] = NULL, Own(t, NULL)
  PROVE  conn' = conn
BY DEF TypeOK, Own

(* The stack's entries as a set, read off its indices. *)
LEMMA PooledDef ==
  ASSUME TypeOK
  PROVE  \A c : c \in Pooled <=> c # NULL /\ \E k \in 1 .. Len(m_Conns) : m_Conns[k] = c
<1>1. DOMAIN m_Conns = 1 .. Len(m_Conns)
  BY LenProperties DEF TypeOK
<1> QED BY <1>1 DEF Pooled

(* A step that moves no object preserves who owns what. *)
LEMMA OwnershipFrame ==
  ASSUME Ownership, UNCHANGED <<m_Conns, conn, alive, orphaned>>
  PROVE  Ownership'
BY DEF Ownership, ExclusiveOwnership, NoDanglingPointer, OnlyCreateLeaks,
       OrphansUnreachable, WithinCapacity, Pooled, Held

(* GetConnect: the popped entry leaves the stack as it enters one hand. *)
LEMMA GetUnlockedOwnership ==
  ASSUME IInv, NEW t \in Threads, GetUnlocked(t)
  PROVE  Ownership'
<1>1. CASE m_Conns = << >>
  BY <1>1, OwnershipFrame DEF IInv, GetUnlocked, heap
<1>2. CASE m_Conns # << >>
  <2> DEFINE top == m_Conns[Len(m_Conns)]
  <2>1. /\ Own(t, top) /\ m_Conns' = SubSeq(m_Conns, 1, Len(m_Conns) - 1)
        /\ UNCHANGED <<alive, orphaned>>
    BY <1>2 DEF GetUnlocked, heap
  <2>2. m_Conns \in Seq(Entries) /\ Len(m_Conns) \in Nat /\ Len(m_Conns) > 0
    BY <1>2, EmptySeq, LenProperties DEF IInv, TypeOK, Entries
  <2>3. /\ m_Conns' \in Seq(Entries) /\ Len(m_Conns') = Len(m_Conns) - 1
        /\ \A k \in 1 .. Len(m_Conns) - 1 : m_Conns'[k] = m_Conns[k]
    BY <2>1, <2>2, <1>2, PopEntries
  <2>4. DOMAIN m_Conns = 1 .. Len(m_Conns) /\ DOMAIN m_Conns' = 1 .. Len(m_Conns) - 1
    BY <2>2, <2>3, LenProperties
  <2>5. conn[t] = NULL /\ top \in Entries
    BY <2>2, ElementOfSeq DEF IInv, Control, HandsByLabel, GetUnlocked
  <2>6. \A j, k \in DOMAIN m_Conns' :
          m_Conns'[j] = m_Conns'[k] /\ m_Conns'[j] # NULL => j = k
    BY <2>2, <2>3, <2>4 DEF IInv, Ownership, ExclusiveOwnership
  <2>7. WithinCapacity'
    BY <2>2, <2>3, ConnPoolAssumption DEF IInv, Ownership, WithinCapacity
  <2>8. Pooled' = Pooled \ {top}
    BY <2>2, <2>3, <2>4 DEF Pooled, IInv, Ownership, ExclusiveOwnership
  <2>9. CASE top = NULL
    <3>1. conn' = conn
      BY <2>1, <2>5, <2>9, HandUnchanged DEF IInv
    <3>2. Held' = Held /\ Pooled' = Pooled
      BY <3>1, <2>8, <2>9 DEF Held, Pooled
    <3> QED
      BY <3>1, <3>2, <2>1, <2>6, <2>7
      DEF IInv, Ownership, ExclusiveOwnership, NoDanglingPointer, OnlyCreateLeaks,
          OrphansUnreachable
  <2>10. CASE top # NULL
    <3>1. top \in Conns /\ top \in Pooled
      BY <2>2, <2>4, <2>5, <2>10 DEF Entries, Pooled
    <3>2. Held' = Held \cup {top}
      BY <3>1, <2>1, <2>5, HeldGains DEF IInv
    <3>3. \A u, v \in Threads : conn'[u] = conn'[v] /\ conn'[u] # NULL => u = v
      BY <3>1, <2>1, <2>5 DEF IInv, TypeOK, Ownership, ExclusiveOwnership, Own, Held
    <3>4. Pooled' \cap Held' = {}
      BY <3>2, <2>8 DEF IInv, Ownership, ExclusiveOwnership
    <3> QED
      BY <3>1, <3>2, <3>3, <3>4, <2>1, <2>6, <2>7, <2>8
      DEF IInv, Ownership, ExclusiveOwnership, NoDanglingPointer, OnlyCreateLeaks,
          OrphansUnreachable
  <2> QED BY <2>9, <2>10
<1> QED BY <1>1, <1>2

(* CreateConn's `new': the address is nobody's. *)
LEMMA NewConnOwnership ==
  ASSUME IInv, NEW t \in Threads, NewConn(t)
  PROVE  Ownership'
<1>1. PICK c \in Conns \ alive : alive' = alive \cup {c} /\ Own(t, c)
  BY DEF NewConn
<1>2. conn[t] = NULL /\ UNCHANGED <<m_Conns, orphaned>>
  BY DEF NewConn, IInv, Control, HandsByLabel
<1>3. Held' = Held \cup {c}
  BY <1>1, <1>2, HeldGains DEF IInv
<1>4. Pooled' = Pooled
  BY <1>2 DEF Pooled
<1>5. \A u, v \in Threads : conn'[u] = conn'[v] /\ conn'[u] # NULL => u = v
  BY <1>1, <1>2 DEF IInv, TypeOK, Ownership, ExclusiveOwnership, NoDanglingPointer, Own, Held
<1>6. c \notin Pooled \cup Held \cup orphaned
  BY <1>1 DEF IInv, Ownership, OnlyCreateLeaks
<1> QED
  BY <1>1, <1>2, <1>3, <1>4, <1>5, <1>6
  DEF IInv, Ownership, ExclusiveOwnership, NoDanglingPointer, OnlyCreateLeaks,
      OrphansUnreachable, WithinCapacity

(* The two ways a thread loses its object without the stack: it is deleted   *)
(* (Create() failed, ReleaseConnect, PutConnect on a full stack) or abandoned. *)
LEMMA LetGoOwnership ==
  ASSUME IInv, NEW t \in Threads, conn[t] # NULL, Own(t, NULL), m_Conns' = m_Conns,
         \/ alive' = alive \ {conn[t]} /\ orphaned' = orphaned
         \/ alive' = alive /\ orphaned' = orphaned \cup {conn[t]}
  PROVE  Ownership'
<1>1. Held' = Held \ {conn[t]} /\ conn[t] \in Held
  BY HeldDrops DEF IInv, Ownership, Held
<1>2. Pooled' = Pooled
  BY DEF Pooled
<1>3. \A u, v \in Threads : conn'[u] = conn'[v] /\ conn'[u] # NULL => u = v
  BY DEF IInv, TypeOK, Ownership, ExclusiveOwnership, Own
<1>4. conn[t] \notin Pooled /\ conn[t] \notin orphaned /\ conn[t] \in alive
  BY <1>1 DEF IInv, Ownership, ExclusiveOwnership, OrphansUnreachable, NoDanglingPointer
<1> QED
  BY <1>1, <1>2, <1>3, <1>4
  DEF IInv, Ownership, ExclusiveOwnership, NoDanglingPointer, OnlyCreateLeaks,
      OrphansUnreachable, WithinCapacity

(* PutConnect with room: the object moves from the hand to the top. *)
LEMMA PushOwnership ==
  ASSUME IInv, NEW t \in Threads, conn[t] # NULL, Own(t, NULL),
         m_Conns' = Append(m_Conns, conn[t]), Len(m_Conns) < MAX_CONN_NUM,
         UNCHANGED <<alive, orphaned>>
  PROVE  Ownership'
<1> DEFINE c == conn[t]
<1>1. /\ m_Conns \in Seq(Entries) /\ Len(m_Conns) \in Nat /\ c \in Entries
      /\ DOMAIN m_Conns = 1 .. Len(m_Conns)
  BY LenProperties DEF IInv, TypeOK, Entries
<1>2. /\ m_Conns' \in Seq(Entries) /\ Len(m_Conns') = Len(m_Conns) + 1
      /\ \A k \in 1 .. Len(m_Conns) + 1 :
           m_Conns'[k] = IF k = Len(m_Conns) + 1 THEN c ELSE m_Conns[k]
  BY <1>1, PushEntry
<1>3. DOMAIN m_Conns' = 1 .. Len(m_Conns) + 1
  BY <1>1, <1>2, LenProperties
<1>4. Held' = Held \ {c} /\ c \in Held
  BY HeldDrops DEF IInv, Ownership, Held
<1>5. c \notin Pooled
  BY <1>4 DEF IInv, Ownership, ExclusiveOwnership
<1>6. Pooled' = Pooled \cup {c}
  BY <1>1, <1>2, <1>3 DEF Pooled
<1>7. \A j, k \in DOMAIN m_Conns' :
        m_Conns'[j] = m_Conns'[k] /\ m_Conns'[j] # NULL => j = k
  <2> SUFFICES ASSUME NEW j \in DOMAIN m_Conns', NEW k \in DOMAIN m_Conns',
                      m_Conns'[j] = m_Conns'[k], m_Conns'[j] # NULL
               PROVE  j = k
    OBVIOUS
  <2>1. \A n \in 1 .. Len(m_Conns) : m_Conns[n] # c
    BY <1>1, <1>5 DEF Pooled
  <2> QED
    BY <2>1, <1>1, <1>2, <1>3 DEF IInv, Ownership, ExclusiveOwnership
<1>8. \A u, v \in Threads : conn'[u] = conn'[v] /\ conn'[u] # NULL => u = v
  BY DEF IInv, TypeOK, Ownership, ExclusiveOwnership, Own
<1>9. WithinCapacity'
  BY <1>1, <1>2, ConnPoolAssumption DEF WithinCapacity
<1> QED
  BY <1>4, <1>5, <1>6, <1>7, <1>8, <1>9
  DEF IInv, Ownership, ExclusiveOwnership, NoDanglingPointer, OnlyCreateLeaks,
      OrphansUnreachable

(* CheckConnect frees the entry under the index and leaves a null there. *)
LEMMA CheckFreeOwnership ==
  ASSUME IInv, NEW t \in Threads, CheckFree(t)
  PROVE  Ownership'
<1> DEFINE n == i[t]
           c == m_Conns[n]
<1>1. /\ m_Conns \in Seq(Entries) /\ Len(m_Conns) \in Nat /\ n \in 1 .. Len(m_Conns)
      /\ NULL \in Entries
  BY LenProperties DEF IInv, TypeOK, Entries, CheckFree, AtEntry
<1>2. /\ m_Conns' = [m_Conns EXCEPT ![n] = NULL] /\ c # NULL /\ conn' = conn
      /\ alive' = alive \ {c} /\ orphaned' = orphaned
  BY DEF CheckFree, Delete
<1>3. /\ m_Conns' \in Seq(Entries) /\ Len(m_Conns') = Len(m_Conns)
      /\ \A k \in 1 .. Len(m_Conns) : m_Conns'[k] = IF k = n THEN NULL ELSE m_Conns[k]
  BY <1>1, <1>2, ExceptSeq
<1>4. DOMAIN m_Conns = 1 .. Len(m_Conns) /\ DOMAIN m_Conns' = 1 .. Len(m_Conns)
  BY <1>1, <1>3, LenProperties
<1>5. \A j, k \in DOMAIN m_Conns' :
        m_Conns'[j] = m_Conns'[k] /\ m_Conns'[j] # NULL => j = k
  BY <1>3, <1>4 DEF IInv, Ownership, ExclusiveOwnership
<1>6. Pooled' = Pooled \ {c} /\ c \in Pooled
  BY <1>1, <1>2, <1>3, <1>4 DEF Pooled, IInv, Ownership, ExclusiveOwnership
<1>7. Held' = Held
  BY <1>2 DEF Held
<1>8. WithinCapacity'
  BY <1>3 DEF IInv, Ownership, WithinCapacity
<1> QED
  BY <1>2, <1>5, <1>6, <1>7, <1>8
  DEF IInv, Ownership, ExclusiveOwnership, NoDanglingPointer, OnlyCreateLeaks,
      OrphansUnreachable

(* Moving the last entry over the freed one moves no object out of the stack. *)
LEMMA CheckSwapOwnership ==
  ASSUME IInv, NEW t \in Threads, CheckSwap(t)
  PROVE  Ownership'
<1> DEFINE n == i[t]
           L == Len(m_Conns)
<1>1. /\ m_Conns \in Seq(Entries) /\ L \in Nat /\ n \in 1 .. L /\ m_Conns[n] = NULL
      /\ conn' = conn /\ UNCHANGED <<alive, orphaned>>
  BY LenProperties
  DEF IInv, TypeOK, Control, ScanOwnsMutex, Entries, CheckSwap, heap
<1>2. /\ m_Conns' \in Seq(Entries) /\ Len(m_Conns') = L - 1
      /\ \A k \in 1 .. L - 1 : m_Conns'[k] = IF k = n THEN m_Conns[L] ELSE m_Conns[k]
  BY <1>1, SwapEntries DEF CheckSwap, LastOverEntry
<1>3. DOMAIN m_Conns = 1 .. L /\ DOMAIN m_Conns' = 1 .. L - 1
  BY <1>1, <1>2, LenProperties
<1>4. \A j, k \in DOMAIN m_Conns' :
        m_Conns'[j] = m_Conns'[k] /\ m_Conns'[j] # NULL => j = k
  BY <1>1, <1>2, <1>3 DEF IInv, Ownership, ExclusiveOwnership
<1>5. Pooled' = Pooled
  <2>1. \A c : c \in Pooled => c \in Pooled'
    <3> SUFFICES ASSUME NEW k \in 1 .. L, m_Conns[k] # NULL PROVE m_Conns[k] \in Pooled'
      BY <1>3 DEF Pooled
    <3>1. CASE k = L
      BY <3>1, <1>1, <1>2, <1>3 DEF Pooled
    <3>2. CASE k < L
      <4>1. k \in 1 .. L - 1 /\ k # n
        BY <3>2, <1>1
      <4>2. m_Conns'[k] = m_Conns[k]
        BY <4>1, <1>2
      <4> QED BY <4>1, <4>2, <1>3 DEF Pooled
    <3> QED BY <1>1, <3>1, <3>2
  <2>2. \A c : c \in Pooled' => c \in Pooled
    BY <1>1, <1>2, <1>3 DEF Pooled
  <2> QED BY <2>1, <2>2
<1>6. Held' = Held
  BY <1>1 DEF Held
<1>7. WithinCapacity'
  BY <1>1, <1>2, ConnPoolAssumption DEF IInv, Ownership, WithinCapacity
<1> QED
  BY <1>1, <1>4, <1>5, <1>6, <1>7
  DEF IInv, Ownership, ExclusiveOwnership, NoDanglingPointer, OnlyCreateLeaks,
      OrphansUnreachable

(* ReleasePool and the destructor delete every pooled object. *)
LEMMA FreeAllOwnership ==
  ASSUME IInv, FreeAll, conn' = conn
  PROVE  Ownership'
<1>1. /\ m_Conns \in Seq(Entries) /\ Len(m_Conns) \in Nat
      /\ DOMAIN m_Conns = 1 .. Len(m_Conns)
  BY LenProperties DEF IInv, TypeOK, Entries
<1>2. m_Conns' = [k \in 1 .. Len(m_Conns) |-> NULL] /\ Len(m_Conns') = Len(m_Conns)
  BY <1>1 DEF FreeAll
<1>3. Pooled' = {}
  BY <1>2 DEF Pooled
<1>4. Held' = Held /\ alive' = alive \ Pooled /\ orphaned' = orphaned
  BY DEF Held, FreeAll, Delete
<1> QED
  BY <1>2, <1>3, <1>4
  DEF IInv, Ownership, ExclusiveOwnership, NoDanglingPointer, OnlyCreateLeaks,
      OrphansUnreachable, WithinCapacity

(* Every step preserves who owns what: one lemma above per kind of move. *)
LEMMA OwnershipStep ==
  ASSUME IInv, [Next]_vars
  PROVE  Ownership'
<1>0. Ownership
  BY DEF IInv
<1>1. CASE UNCHANGED vars
  BY <1>0, <1>1, OwnershipFrame DEF vars, heap
<1>2. CASE Destroy \/ LoseConnection \/ Tick
  BY <1>0, <1>2, OwnershipFrame, FreeAllOwnership DEF Destroy, LoseConnection, Tick, heap
<1>3. ASSUME NEW t \in Threads, Step(t) PROVE Ownership'
  <2>1. CASE GetPop(t)
    BY <2>1, GetUnlockedOwnership DEF GetPop
  <2>2. CASE NewConn(t)
    BY <2>2, NewConnOwnership
  <2>3. CASE CreateFails(t)
    BY <2>3, LetGoOwnership DEF CreateFails, Delete, IInv, Control, HandsByLabel
  <2>4. CASE CreateThrows(t)
    BY <2>4, LetGoOwnership DEF CreateThrows, IInv, Control, HandsByLabel
  <2>5. CASE PutConnect(t)
    BY <2>5, LetGoOwnership, PushOwnership DEF PutConnect, Put, Delete, heap
  <2>6. CASE ReleaseConnect(t)
    BY <2>6, LetGoOwnership DEF ReleaseConnect, Delete
  <2>7. CASE ReleasePool(t)
    BY <2>7, FreeAllOwnership DEF ReleasePool
  <2>8. CASE CheckFree(t)
    BY <2>8, CheckFreeOwnership
  <2>9. CASE CheckSwap(t)
    BY <2>9, CheckSwapOwnership
  <2>10. CASE CallGetConnect(t) \/ NewThrows(t) \/ CreateSucceeds(t)
    BY <1>0, <2>10, OwnershipFrame DEF CallGetConnect, NewThrows, CreateSucceeds, heap
  <2>11. CASE CallGetChecked(t) \/ CheckThrottled(t) \/ CheckBegin(t)
    BY <1>0, <2>11, OwnershipFrame DEF CallGetChecked, CheckThrottled, CheckBegin, heap
  <2>12. CASE CheckValid(t) \/ CheckNull(t) \/ CheckEnd(t)
    BY <1>0, <2>12, OwnershipFrame DEF CheckValid, CheckNull, CheckEnd, heap
  <2> QED
    BY <1>3, <2>1, <2>2, <2>3, <2>4, <2>5, <2>6, <2>7, <2>8, <2>9, <2>10, <2>11, <2>12
    DEF Step, CheckStep
<1> QED BY <1>1, <1>2, <1>3 DEF Next

-----------------------------------------------------------------------------
(* The mutex and the labels say the same thing about who is in the loop. *)
LEMMA ScanIsAlone ==
  ASSUME IInv
  PROVE  /\ m_Mtx = NoThread => \A u \in Threads : pc[u] \notin {"scan", "swap"}
         /\ \A t, u \in Threads :
              pc[t] \in {"scan", "swap"} /\ u # t => pc[u] \notin {"scan", "swap"}
BY ConnPoolAssumption DEF IInv, Control, ScanOwnsMutex

(* Steps outside the loop while somebody may be inside leave it alone; steps *)
(* that change the stack find nobody inside.                                 *)
LEMMA ControlStep ==
  ASSUME IInv, [Next]_vars
  PROVE  Control'
<1> USE DEF IInv, Control
<1>0. TypeOK /\ HandsByLabel /\ ScanOwnsMutex /\ ScannedPrefix
  OBVIOUS
<1>1. CASE UNCHANGED vars
  BY <1>0, <1>1 DEF vars, HandsByLabel, ScanOwnsMutex, ScannedPrefix
<1>2. CASE LoseConnection \/ Tick
  BY <1>0, <1>2 DEF LoseConnection, Tick, HandsByLabel, ScanOwnsMutex, ScannedPrefix
<1>3. CASE Destroy
  BY <1>0, <1>3 DEF Destroy, HandsByLabel, ScanOwnsMutex, ScannedPrefix
<1>4. ASSUME NEW t \in Threads, Step(t) PROVE Control'
  <2>1. CASE CallGetConnect(t) \/ NewThrows(t) \/ CreateSucceeds(t) \/ CallGetChecked(t)
             \/ CheckThrottled(t)
    <3>1. HandsByLabel'
      BY <1>0, <2>1 DEF CallGetConnect, NewThrows, CreateSucceeds, CallGetChecked,
         CheckThrottled, Goto, TypeOK, HandsByLabel
    <3>2. ScanOwnsMutex' /\ ScannedPrefix'
      BY <1>0, <2>1 DEF CallGetConnect, NewThrows, CreateSucceeds, CallGetChecked,
         CheckThrottled, Goto, TypeOK, ScanOwnsMutex, ScannedPrefix
    <3> QED BY <3>1, <3>2
  <2>2. CASE NewConn(t) \/ CreateFails(t) \/ CreateThrows(t)
    <3>1. /\ UNCHANGED <<m_Conns, m_Mtx, checked, i>>
          /\ \E c \in Entries, l \in {"idle", "connect"} :
               Own(t, c) /\ Goto(t, l) /\ (l = "connect" => c # NULL)
      BY <2>2, ConnPoolAssumption DEF NewConn, CreateFails, CreateThrows, Entries
    <3>2. pc[t] \in {"create", "connect"}
      BY <2>2 DEF NewConn, CreateFails, CreateThrows
    <3>3. HandsByLabel'
      BY <1>0, <3>1, <3>2 DEF Goto, Own, TypeOK, HandsByLabel
    <3>4. ScanOwnsMutex' /\ ScannedPrefix'
      BY <1>0, <3>1, <3>2 DEF Goto, TypeOK, ScanOwnsMutex, ScannedPrefix
    <3> QED BY <3>3, <3>4
  <2>3. CASE GetPop(t)
    <3>1. HandsByLabel'
      BY <1>0, <2>3 DEF GetPop, GetUnlocked, Goto, Own, TypeOK, HandsByLabel
    <3>2. ScanOwnsMutex' /\ ScannedPrefix'
      BY <1>0, <2>3, ScanIsAlone DEF GetPop, GetUnlocked, Goto, TypeOK, ScanOwnsMutex, ScannedPrefix
    <3> QED BY <3>1, <3>2
  <2>4. CASE PutConnect(t) \/ ReleasePool(t) \/ ReleaseConnect(t)
    BY <1>0, <2>4, ScanIsAlone DEF PutConnect, Put, ReleasePool, ReleaseConnect, Own,
       TypeOK, HandsByLabel, ScanOwnsMutex, ScannedPrefix
  <2>5. CASE CheckBegin(t)
    BY <1>0, <2>5, ScanIsAlone, ConnPoolAssumption, LenProperties
    DEF CheckBegin, Goto, TypeOK, HandsByLabel, ScanOwnsMutex, ScannedPrefix
  <2>6. CASE CheckValid(t)
    BY <1>0, <2>6, ScanIsAlone, LenProperties
    DEF CheckValid, AtEntry, TypeOK, HandsByLabel, ScanOwnsMutex, ScannedPrefix
  <2>7. CASE CheckFree(t)
    BY <1>0, <2>7, ScanIsAlone, LenProperties, ExceptSeq
    DEF CheckFree, AtEntry, Goto, TypeOK, HandsByLabel, ScanOwnsMutex, ScannedPrefix
  <2>8. CASE CheckSwap(t)
    BY <1>0, <2>8, ScanIsAlone, LenProperties, SwapEntries
    DEF CheckSwap, LastOverEntry, Goto, TypeOK, HandsByLabel, ScanOwnsMutex, ScannedPrefix
  <2>9. CASE CheckNull(t) \/ CheckEnd(t)
    BY <1>0, <2>9, ScanIsAlone, ConnPoolAssumption
    DEF CheckNull, CheckEnd, Goto, TypeOK, HandsByLabel, ScanOwnsMutex, ScannedPrefix
  <2> QED
    BY <1>4, <2>1, <2>2, <2>3, <2>4, <2>5, <2>6, <2>7, <2>8, <2>9 DEF Step, CheckStep
<1> QED BY <1>1, <1>2, <1>3, <1>4 DEF Next

-----------------------------------------------------------------------------
(* The heap's sets stay subsets of one another whatever is deleted. *)
LEMMA HeapTypes ==
  ASSUME IInv, [Next]_vars
  PROVE  valid' \subseteq alive' /\ alive' \subseteq Conns /\ orphaned' \subseteq alive'
<1>0. /\ valid \subseteq alive /\ alive \subseteq Conns /\ orphaned \subseteq alive
      /\ orphaned \cap (Pooled \cup Held) = {}
      /\ conn \in [Threads -> Entries] /\ Held \subseteq alive
  BY DEF IInv, TypeOK, Ownership, OrphansUnreachable, NoDanglingPointer, Entries
<1>1. ASSUME NEW t \in Threads, Step(t)
      PROVE  valid' \subseteq alive' /\ alive' \subseteq Conns /\ orphaned' \subseteq alive'
  <2>1. conn[t] # NULL => conn[t] \in Held
    BY DEF Held
  <2>2. CASE CheckFree(t)
    <3>1. m_Conns[i[t]] \in Pooled
      BY <2>2, LenProperties DEF CheckFree, AtEntry, Pooled, IInv, TypeOK
    <3> QED BY <1>0, <3>1, <2>2 DEF CheckFree, Delete
  <2>3. CASE CreateSucceeds(t) \/ CreateFails(t) \/ CreateThrows(t)
    <3>1. conn[t] \in Held
      BY <2>1, <2>3 DEF CreateSucceeds, CreateFails, CreateThrows, IInv, Control, HandsByLabel
    <3> QED BY <1>0, <2>3, <3>1 DEF CreateSucceeds, CreateFails, CreateThrows, Delete
  <2>4. CASE PutConnect(t) \/ ReleaseConnect(t) \/ ReleasePool(t)
    BY <1>0, <2>1, <2>4 DEF PutConnect, Put, ReleaseConnect, ReleasePool, FreeAll, Delete, heap
  <2>5. CASE NewConn(t)
    BY <1>0, <2>5 DEF NewConn
  <2>6. CASE UNCHANGED heap
    BY <1>0, <2>6 DEF heap
  <2> QED
    BY <1>1, <2>2, <2>3, <2>4, <2>5, <2>6
    DEF Step, CheckStep, CallGetConnect, GetPop, GetUnlocked, NewThrows, CallGetChecked,
        CheckThrottled, CheckBegin, CheckValid, CheckSwap, CheckNull, CheckEnd
<1>2. CASE UNCHANGED vars
  BY <1>0, <1>2 DEF vars, heap
<1>3. CASE Destroy \/ LoseConnection \/ Tick
  BY <1>0, <1>3 DEF Destroy, LoseConnection, Tick, FreeAll, Delete, heap
<1> QED BY <1>1, <1>2, <1>3 DEF Next

(* The stack stays a sequence of pointers. *)
LEMMA StackType ==
  ASSUME IInv, [Next]_vars
  PROVE  m_Conns' \in Seq(Entries)
<1>0. /\ m_Conns \in Seq(Entries) /\ Len(m_Conns) \in Nat /\ NULL \in Entries
      /\ DOMAIN m_Conns = 1 .. Len(m_Conns) /\ conn \in [Threads -> Entries]
  BY LenProperties DEF IInv, TypeOK, Entries
<1>1. CASE FreeAll
  <2>1. m_Conns' \in [1 .. Len(m_Conns) -> Entries]
    BY <1>0, <1>1 DEF FreeAll
  <2> QED BY <1>0, <2>1, SeqDef
<1>2. ASSUME NEW t \in Threads, Step(t) PROVE m_Conns' \in Seq(Entries)
  <2>1. CASE GetPop(t)
    BY <1>0, <2>1, PopEntries DEF GetPop, GetUnlocked
  <2>2. CASE PutConnect(t)
    BY <1>0, <2>2, PushEntry DEF PutConnect, Put
  <2>3. CASE CheckFree(t)
    BY <1>0, <2>3, ExceptSeq DEF CheckFree, AtEntry, IInv, TypeOK
  <2>4. CASE CheckSwap(t)
    BY <1>0, <2>4, SwapEntries
    DEF CheckSwap, LastOverEntry, IInv, TypeOK, Control, ScanOwnsMutex
  <2>5. CASE ReleasePool(t)
    BY <1>1, <2>5 DEF ReleasePool
  <2>6. CASE UNCHANGED m_Conns
    BY <1>0, <2>6
  <2> QED
    BY <1>2, <2>1, <2>2, <2>3, <2>4, <2>5, <2>6
    DEF Step, CheckStep, CallGetConnect, NewConn, NewThrows, CreateSucceeds, CreateFails,
        CreateThrows, CallGetChecked, CheckThrottled, CheckBegin, CheckValid, CheckNull,
        CheckEnd, ReleaseConnect
<1>3. CASE UNCHANGED vars \/ Destroy \/ LoseConnection \/ Tick
  BY <1>0, <1>1, <1>3 DEF vars, Destroy, LoseConnection, Tick
<1> QED BY <1>2, <1>3 DEF Next

LEMMA TypeStep ==
  ASSUME IInv, [Next]_vars
  PROVE  TypeOK'
<1>0. TypeOK
  BY DEF IInv
<1>1. /\ m_Conns' \in Seq(Entries)
      /\ valid' \subseteq alive' /\ alive' \subseteq Conns /\ orphaned' \subseteq alive'
  BY StackType, HeapTypes
<1>2. ASSUME NEW t \in Threads, Step(t) PROVE TypeOK'
  <2>1. CASE CallGetConnect(t) \/ NewThrows(t) \/ CallGetChecked(t) \/ CheckThrottled(t)
             \/ CheckNull(t) \/ CreateSucceeds(t)
    BY <1>0, <1>1, <2>1 DEF CallGetConnect, NewThrows, CallGetChecked, CheckThrottled,
       CheckNull, CreateSucceeds, Goto, TypeOK, Labels, time, Entries
  <2>2. CASE GetPop(t)
    <3>1. m_Conns # << >> => m_Conns[Len(m_Conns)] \in Entries
      BY <1>0, EmptySeq, LenProperties, ElementOfSeq DEF TypeOK, Entries
    <3> QED
      BY <1>0, <1>1, <2>2, <3>1 DEF GetPop, GetUnlocked, Goto, Own, TypeOK, Labels, time, Entries
  <2>3. CASE NewConn(t) \/ CreateFails(t) \/ CreateThrows(t)
    BY <1>0, <1>1, <2>3 DEF NewConn, CreateFails, CreateThrows, Goto, Own, TypeOK, Labels,
       time, Entries
  <2>4. CASE PutConnect(t) \/ ReleaseConnect(t) \/ ReleasePool(t)
    BY <1>0, <1>1, <2>4 DEF PutConnect, Put, ReleaseConnect, ReleasePool, Own, TypeOK, Labels,
       time, Entries
  <2>5. CASE CheckBegin(t)
    BY <1>0, <1>1, <2>5 DEF CheckBegin, Goto, TypeOK, Labels, time, heap, Entries
  <2>7. CASE CheckEnd(t)
    BY <1>0, <1>1, <2>7 DEF CheckEnd, Goto, TypeOK, Labels, heap, Entries
  <2>8. CASE CheckFree(t) \/ CheckSwap(t)
    BY <1>0, <1>1, <2>8 DEF CheckFree, CheckSwap, Goto, TypeOK, Labels, time, heap, Entries
  <2>6. CASE CheckValid(t)
    BY <1>0, <1>1, <2>6 DEF CheckValid, AtEntry, TypeOK, time, heap, Entries
  <2> QED BY <1>2, <2>1, <2>2, <2>3, <2>4, <2>5, <2>6, <2>7, <2>8 DEF Step, CheckStep
<1>3. CASE UNCHANGED vars \/ Destroy \/ LoseConnection \/ Tick
  BY <1>0, <1>1, <1>3 DEF vars, Destroy, LoseConnection, Tick, TypeOK, time, heap, Entries
<1> QED BY <1>2, <1>3 DEF Next

-----------------------------------------------------------------------------
LEMMA InitIInv == Init => IInv
<1> SUFFICES ASSUME Init PROVE IInv
  OBVIOUS
<1>1. TypeOK
  BY EmptySeq DEF Init, TypeOK, Labels
<1>2. Pooled = {} /\ Held = {}
  BY DEF Init, Pooled, Held
<1>3. Ownership
  BY <1>2, EmptySeq, ConnPoolAssumption DEF Init, Ownership, ExclusiveOwnership,
     NoDanglingPointer, OnlyCreateLeaks, OrphansUnreachable, WithinCapacity
<1>4. Control
  BY ConnPoolAssumption DEF Init, Control, HandsByLabel, ScanOwnsMutex, ScannedPrefix
<1> QED BY <1>1, <1>3, <1>4 DEF IInv

(* The inductive invariant: ownership, the labels and the mutex together.   *)
THEOREM Invariance == Spec => []IInv
<1>1. IInv /\ [Next]_vars => IInv'
  BY OwnershipStep, ControlStep, TypeStep DEF IInv
<1> QED BY InitIInv, <1>1, PTL DEF Spec

(* Every variable of the pool keeps its type.                               *)
THEOREM PoolTypeCorrect == Spec => []TypeOK
<1>1. IInv => TypeOK
  BY DEF IInv
<1> QED BY Invariance, <1>1, PTL

(* No connection is ever in two threads' hands, in a hand and the stack, or *)
(* twice in the stack, for any number of threads and connections.           *)
THEOREM PoolExclusive == Spec => []ExclusiveOwnership
<1>1. IInv => ExclusiveOwnership
  BY DEF IInv, Ownership
<1> QED BY Invariance, <1>1, PTL

(* No thread or stack entry ever points to a deleted connection.            *)
THEOREM PoolNoDangling == Spec => []NoDanglingPointer
<1>1. IInv => NoDanglingPointer
  BY DEF IInv, Ownership
<1> QED BY Invariance, <1>1, PTL

(* The only connections that are lost are those whose Create() threw.       *)
THEOREM PoolLeaks == Spec => []OnlyCreateLeaks
<1>1. IInv => OnlyCreateLeaks
  BY DEF IInv, Ownership
<1> QED BY Invariance, <1>1, PTL

(* Whatever CheckConnect moved, when its loop ends it has seen every entry. *)
THEOREM PoolScanCovers == Spec => []ScanCoversPool
<1>1. IInv => ScanCoversPool
  <2> SUFFICES ASSUME IInv, NEW t \in Threads, pc[t] = "scan", i[t] > Len(m_Conns),
                      NEW c \in Pooled
               PROVE  c \in checked
    BY DEF ScanCoversPool
  <2>1. PICK k \in 1 .. Len(m_Conns) : m_Conns[k] = c
    BY PooledDef DEF IInv
  <2>2. k \in 1 .. i[t] - 1
    BY <2>1, LenProperties DEF IInv, TypeOK
  <2> QED BY <2>1, <2>2 DEF IInv, Control, ScannedPrefix
<1> QED BY Invariance, <1>1, PTL

(* The stack never holds more than the constructor reserved room for.       *)
THEOREM PoolWithinCapacity == Spec => []WithinCapacity
<1>1. IInv => WithinCapacity
  BY DEF IInv, Ownership
<1> QED BY Invariance, <1>1, PTL

(* While a thread is in the loop only its own steps touch the stack, the    *)
(* index and what has been checked, and each leaves less to do.             *)
LEMMA ScanStepsDown ==
  ASSUME IInv, [Next]_vars, NEW t \in Threads, m_Mtx = t, m_Mtx' = t
  PROVE  \/ UNCHANGED <<m_Conns, pc[t], i[t], checked>>
         \/ ScanWork(t)' < ScanWork(t) /\ ScanWork(t)' \in Nat
<1>1. /\ TypeOK /\ pc[t] \in {"scan", "swap"} /\ t # NoThread
      /\ pc[t] = "scan" => i[t] <= Len(m_Conns) + 1
      /\ pc[t] = "swap" => i[t] <= Len(m_Conns)
  BY ConnPoolAssumption DEF IInv, Control, ScanOwnsMutex
<1>2. Len(m_Conns) \in Nat /\ i[t] \in Nat /\ pc \in [Threads -> Labels]
  BY <1>1, LenProperties DEF TypeOK
<1>3. CASE UNCHANGED vars \/ LoseConnection \/ Tick
  BY <1>3 DEF vars, LoseConnection, Tick
<1>4. CASE Destroy
  BY <1>1, <1>4 DEF Destroy
<1>5. ASSUME NEW u \in Threads, u # t, Step(u)
      PROVE  UNCHANGED <<m_Conns, pc[t], i[t], checked>>
  <2>1. pc[u] \notin {"scan", "swap"}
    BY <1>1, <1>5, ScanIsAlone
  <2>2. CASE CallGetConnect(u) \/ NewConn(u) \/ NewThrows(u) \/ CreateSucceeds(u)
             \/ CreateFails(u) \/ CreateThrows(u) \/ CallGetChecked(u)
    BY <1>2, <1>5, <2>2 DEF CallGetConnect, NewConn, NewThrows, CreateSucceeds,
       CreateFails, CreateThrows, CallGetChecked, Goto
  <2>3. CASE ReleaseConnect(u)
    BY <2>3 DEF ReleaseConnect
  <2>4. CASE GetPop(u) \/ CheckThrottled(u) \/ CheckBegin(u) \/ PutConnect(u) \/ ReleasePool(u)
    BY <1>1, <2>4 DEF GetPop, CheckThrottled, CheckBegin, PutConnect, ReleasePool
  <2>5. CASE CheckStep(u)
    BY <2>1, <2>5 DEF CheckStep, CheckValid, CheckFree, CheckSwap, CheckNull, CheckEnd, AtEntry
  <2> QED BY <1>5, <2>2, <2>3, <2>4, <2>5 DEF Step
<1>6. ASSUME Step(t)
      PROVE  \/ UNCHANGED <<m_Conns, pc[t], i[t], checked>>
             \/ ScanWork(t)' < ScanWork(t) /\ ScanWork(t)' \in Nat
  <2>1. CheckStep(t)
    BY <1>1, <1>6 DEF Step, CallGetConnect, GetPop, GetUnlocked, NewConn, NewThrows,
       CreateSucceeds, CreateFails, CreateThrows, CallGetChecked, CheckThrottled,
       CheckBegin, PutConnect, Put, ReleaseConnect, ReleasePool
  <2>2. CASE CheckValid(t)
    <3>1. /\ m_Conns' = m_Conns /\ pc' = pc /\ i'[t] = i[t] + 1
          /\ pc[t] = "scan" /\ i[t] <= Len(m_Conns)
      BY <1>1, <2>2 DEF CheckValid, AtEntry, TypeOK
    <3>2. /\ ScanWork(t) = 2 * (Len(m_Conns) + 1 - i[t])
          /\ ScanWork(t)' = 2 * (Len(m_Conns) + 1 - (i[t] + 1))
      BY <1>2, <3>1 DEF ScanWork
    <3> QED BY <1>2, <3>1, <3>2
  <2>3. CASE CheckFree(t)
    <3>1. /\ Len(m_Conns') = Len(m_Conns) /\ pc'[t] = "swap" /\ i' = i
          /\ pc[t] = "scan" /\ i[t] <= Len(m_Conns)
      BY <1>1, <1>2, <2>3, ExceptSeq, LenProperties DEF CheckFree, AtEntry, Goto, TypeOK
    <3> QED BY <1>2, <3>1 DEF ScanWork
  <2>4. CASE CheckSwap(t)
    <3>1. /\ Len(m_Conns') = Len(m_Conns) - 1 /\ pc'[t] = "scan" /\ i' = i /\ pc[t] = "swap"
      BY <1>1, <1>2, <2>4, SwapEntries, LenProperties
      DEF CheckSwap, LastOverEntry, Goto, TypeOK
    <3> QED BY <1>1, <1>2, <3>1 DEF ScanWork
  <2>5. CASE CheckNull(t)
    BY <2>5 DEF CheckNull
  <2>6. CASE CheckEnd(t)
    BY <1>1, <2>6 DEF CheckEnd
  <2> QED BY <2>1, <2>2, <2>3, <2>4, <2>5, <2>6 DEF CheckStep
<1> QED BY <1>3, <1>4, <1>5, <1>6 DEF Next

(* CheckConnect's loop comes to its end whatever happens around it.         *)
THEOREM PoolScanProgress == Spec => ScanProgress
<1>1. IInv /\ [Next]_vars =>
        [\A t \in Threads :
           m_Mtx = t /\ m_Mtx' = t =>
             \/ UNCHANGED <<m_Conns, pc[t], i[t], checked>>
             \/ ScanWork(t)' < ScanWork(t) /\ ScanWork(t)' \in Nat]_vars
  BY ScanStepsDown
<1> QED BY Invariance, <1>1, PTL DEF Spec, ScanProgress

(* CheckConnect's index is in bounds and its loop excludes every operation  *)
(* that changes the stack.                                                  *)
THEOREM PoolScanOwnsMutex == Spec => []ScanOwnsMutex
<1>1. IInv => ScanOwnsMutex
  BY DEF IInv, Control
<1> QED BY Invariance, <1>1, PTL

-----------------------------------------------------------------------------
(* The abstract pool's view, read off the heap and the hands alone: what is  *)
(* alive and neither abandoned nor in a hand is in the stack.                *)
OwnerFacts ==
  /\ Owner = [c \in Conns |-> Owner[c]]
  /\ \A c \in Conns :
       /\ Owner[c] = "nobody" <=> c \notin alive
       /\ Owner[c] = "lost" <=> c \in orphaned
       /\ Owner[c] = "pool" <=> c \in alive \ orphaned /\ \A t \in Threads : conn[t] # c
       /\ Owner[c] = "pool" <=> c \in Pooled
       /\ \A t \in Threads : Owner[c] = t <=> conn[t] = c
       /\ Owner[c] \in Threads \cup {"pool", "nobody", "lost"}
  /\ orphaned \subseteq alive
  /\ \A t \in Threads : conn[t] # NULL => conn[t] \in alive \ orphaned

LEMMA OwnerView == IInv => OwnerFacts
<1> SUFFICES ASSUME IInv PROVE OwnerFacts
  OBVIOUS
<1>1. /\ Pooled \cap Held = {} /\ alive = Pooled \cup Held \cup orphaned
      /\ orphaned \cap (Pooled \cup Held) = {}
      /\ \A t, u \in Threads : conn[t] = conn[u] /\ conn[t] # NULL => t = u
  BY DEF IInv, Ownership, ExclusiveOwnership, OnlyCreateLeaks, OrphansUnreachable
<1>2. /\ NULL \notin Conns /\ Threads \cap {"pool", "nobody", "lost"} = {}
      /\ conn \in [Threads -> Entries]
  BY ConnPoolAssumption, OwnersAssumption DEF IInv, TypeOK, Entries
<1>3. ASSUME NEW c \in Conns
      PROVE  /\ Owner[c] = "nobody" <=> c \notin alive
             /\ Owner[c] = "lost" <=> c \in orphaned
             /\ Owner[c] = "pool" <=> c \in alive \ orphaned /\ \A t \in Threads : conn[t] # c
             /\ Owner[c] = "pool" <=> c \in Pooled
             /\ \A t \in Threads : Owner[c] = t <=> conn[t] = c
             /\ Owner[c] \in Threads \cup {"pool", "nobody", "lost"}
  <2>1. c \in Held <=> \E t \in Threads : conn[t] = c
    BY <1>2, <1>3 DEF Held
  <2>2. CASE c \in Held
    <3>1. PICK t \in Threads : conn[t] = c
      BY <2>1, <2>2
    <3>2. \A u \in Threads : conn[u] = c <=> u = t
      BY <1>1, <1>2, <1>3, <3>1
    <3>3. (CHOOSE u \in Threads : conn[u] = c) = t
      BY <3>1, <3>2
    <3>4. Owner[c] = t
      BY <1>1, <1>3, <2>2, <3>3 DEF Owner
    <3> QED BY <1>1, <1>2, <2>2, <3>1, <3>2, <3>4
  <2>3. CASE c \notin Held
    <3>1. Owner[c] = IF c \notin alive THEN "nobody" ELSE IF c \in Pooled THEN "pool" ELSE "lost"
      BY <1>3, <2>3 DEF Owner
    <3> QED BY <1>1, <1>2, <2>1, <2>3, <3>1
  <2> QED BY <2>2, <2>3
<1>4. Owner = [c \in Conns |-> Owner[c]]
  BY DEF Owner
<1>5. \A t \in Threads : conn[t] # NULL => conn[t] \in alive \ orphaned
  BY <1>1 DEF Held
<1>6. orphaned \subseteq alive
  BY <1>1
<1> QED BY <1>3, <1>4, <1>5, <1>6 DEF OwnerFacts

(* There are no more objects in the stack than entries.                      *)
LEMMA PooledIsSmall ==
  ASSUME IInv
  PROVE  IsFiniteSet(Pooled) /\ Cardinality(Pooled) <= Len(m_Conns)
<1> DEFINE K == {k \in 1 .. Len(m_Conns) : m_Conns[k] # NULL}
           f == [k \in K |-> m_Conns[k]]
<1>1. Len(m_Conns) \in Nat
  BY LenProperties DEF IInv, TypeOK
<1>2. IsFiniteSet(1 .. Len(m_Conns)) /\ Cardinality(1 .. Len(m_Conns)) = Len(m_Conns)
  <2>1. 1 \in Int /\ Len(m_Conns) \in Int
    BY <1>1
  <2>2. IsFiniteSet(1 .. Len(m_Conns)) /\ Cardinality(1 .. Len(m_Conns)) =
          IF 1 > Len(m_Conns) THEN 0 ELSE Len(m_Conns) - 1 + 1
    BY <2>1, FS_Interval
  <2> QED BY <1>1, <2>2
<1>3. IsFiniteSet(K) /\ Cardinality(K) <= Len(m_Conns)
  BY <1>2, FS_Subset
<1>4. f \in Surjection(K, Pooled)
  BY PooledDef DEF Surjection, IInv
<1>5. IsFiniteSet(Pooled) /\ Cardinality(Pooled) <= Cardinality(K)
  BY <1>3, <1>4, FS_Surjection
<1>6. Cardinality(Pooled) \in Nat /\ Cardinality(K) \in Nat
  BY <1>3, <1>5, FS_CardinalityType
<1> QED BY <1>1, <1>3, <1>5, <1>6

(* A connection that is as alive, as abandoned and in the same hands as      *)
(* before has the owner it had.                                              *)
LEMMA SameOwner ==
  ASSUME OwnerFacts, OwnerFacts', NEW c \in Conns,
         c \in alive <=> c \in alive', c \in orphaned <=> c \in orphaned',
         \A t \in Threads : conn[t] = c <=> conn'[t] = c
  PROVE  Owner'[c] = Owner[c]
<1>1. CASE Owner[c] \in Threads
  BY <1>1 DEF OwnerFacts
<1>2. CASE Owner[c] \in {"pool", "nobody", "lost"}
  BY <1>2 DEF OwnerFacts
<1> QED BY <1>1, <1>2 DEF OwnerFacts

(* A set of connections goes from one owner to another.                      *)
LEMMA OwnerMoves ==
  ASSUME OwnerFacts, OwnerFacts', NEW S \in SUBSET Conns, NEW from, NEW to,
         \A c \in S : Owner[c] = from /\ Owner'[c] = to,
         \A c \in Conns \ S : /\ c \in alive <=> c \in alive'
                              /\ c \in orphaned <=> c \in orphaned'
                              /\ \A t \in Threads : conn[t] = c <=> conn'[t] = c
  PROVE  Abstract!Move(S, from, to)
<1>1. \A c \in Conns \ S : Owner'[c] = Owner[c]
  BY SameOwner
<1>2. Owner' = [c \in Conns |-> Owner'[c]]
  BY DEF OwnerFacts
<1>3. \A c \in Conns : Owner'[c] = IF c \in S THEN to ELSE Owner[c]
  BY <1>1
<1> HIDE DEF Owner
<1>4. Owner' = [c \in Conns |-> IF c \in S THEN to ELSE Owner[c]]
  BY <1>2, <1>3
<1> QED BY <1>4 DEF Abstract!Move

\* ConnPoolSpec's Cardinality is the one of FiniteSets.
LEMMA SameCardinality == \A S : Abstract!Cardinality(S) = Cardinality(S)
BY Zenon DEF Abstract!Cardinality, Cardinality, Abstract!IsFiniteSet, IsFiniteSet

LEMMA AbstractStutter ==
  ASSUME OwnerFacts, OwnerFacts', UNCHANGED <<alive, orphaned, conn>>
  PROVE  UNCHANGED Owner
<1>1. \A c \in Conns : Owner'[c] = Owner[c]
  BY SameOwner
<1>2. Owner = [c \in Conns |-> Owner[c]] /\ Owner' = [c \in Conns |-> Owner'[c]]
  BY DEF OwnerFacts
<1> QED BY <1>1, <1>2

(* The thread that takes, makes or gives up its object: one move each.       *)
LEMMA HandMoves ==
  ASSUME IInv, IInv', OwnerFacts, OwnerFacts', NEW t \in Threads,
         \/ NewConn(t) \/ CreateFails(t) \/ CreateThrows(t) \/ ReleaseConnect(t)
         \/ GetPop(t) \/ PutConnect(t)
  PROVE  Abstract!Next \/ UNCHANGED Owner
<1>1. /\ conn \in [Threads -> Entries] /\ NULL \notin Conns
      /\ orphaned \subseteq alive /\ alive \subseteq Conns
  BY ConnPoolAssumption DEF IInv, TypeOK, Entries
<1>2. ASSUME NEW c \in Conns, conn[t] = c, Own(t, NULL), NEW to,
             \A d \in Conns \ {c} : d \in alive <=> d \in alive',
             \A d \in Conns \ {c} : d \in orphaned <=> d \in orphaned',
             Owner'[c] = to
      PROVE  Abstract!Move({c}, t, to)
  <2>1. Owner[c] = t
    BY <1>2 DEF OwnerFacts
  <2>2. \A d \in Conns \ {c} : \A u \in Threads : conn[u] = d <=> conn'[u] = d
    BY <1>1, <1>2 DEF Own
  <2> QED BY <1>2, <2>1, <2>2, OwnerMoves
<1>3. ASSUME NEW c \in Conns, conn[t] = NULL, Own(t, c), NEW from, Owner[c] = from,
             \A d \in Conns \ {c} : d \in alive <=> d \in alive',
             orphaned' = orphaned
      PROVE  Abstract!Idle(t) /\ Abstract!Move({c}, from, t)
  <2>1. Owner'[c] = t
    BY <1>1, <1>3 DEF OwnerFacts, Own
  <2>2. \A d \in Conns \ {c} : \A u \in Threads : conn[u] = d <=> conn'[u] = d
    BY <1>1, <1>3 DEF Own
  <2>3. Abstract!Move({c}, from, t)
    BY <1>3, <2>1, <2>2, OwnerMoves
  <2>4. Abstract!Idle(t)
    BY <1>1, <1>3 DEF Abstract!Idle, OwnerFacts
  <2> QED BY <2>3, <2>4
<1>4. CASE NewConn(t)
  <2>1. PICK c \in Conns \ alive : alive' = alive \cup {c} /\ Own(t, c)
    BY <1>4 DEF NewConn
  <2>2. conn[t] = NULL /\ orphaned' = orphaned
    BY <1>4 DEF NewConn, IInv, Control, HandsByLabel
  <2>3. Owner[c] = "nobody"
    BY <2>1 DEF OwnerFacts
  <2>4. Abstract!Make(t, c)
    BY <1>3, <2>1, <2>2, <2>3 DEF Abstract!Make
  <2> QED BY <2>4 DEF Abstract!Next
<1>5. CASE conn[t] # NULL /\ Own(t, NULL) /\ Delete({conn[t]})
  <2>1. conn[t] \in Conns /\ alive' = alive \ {conn[t]} /\ orphaned' = orphaned
    BY <1>1, <1>5 DEF Delete, Entries
  <2>2. Owner'[conn[t]] = "nobody"
    BY <2>1 DEF OwnerFacts
  <2>3. Abstract!Drop(t, conn[t])
    BY <1>2, <1>5, <2>1, <2>2 DEF Abstract!Drop
  <2> QED BY <2>1, <2>3 DEF Abstract!Next
<1>6. CASE CreateThrows(t)
  <2>1. /\ conn[t] \in Conns /\ Own(t, NULL)
        /\ alive' = alive /\ orphaned' = orphaned \cup {conn[t]}
    BY <1>1, <1>6 DEF CreateThrows, IInv, Control, HandsByLabel, Entries
  <2>2. Owner'[conn[t]] = "lost"
    BY <2>1 DEF OwnerFacts
  <2>3. Abstract!Abandon(t, conn[t])
    BY <1>2, <2>1, <2>2 DEF Abstract!Abandon
  <2> QED BY <2>1, <2>3 DEF Abstract!Next
<1>7. CASE GetPop(t)
  <2> DEFINE top == m_Conns[Len(m_Conns)]
  <2>1. alive' = alive /\ orphaned' = orphaned /\ conn[t] = NULL
    BY <1>7 DEF GetPop, GetUnlocked, heap, IInv, Control, HandsByLabel
  <2>2. CASE conn' = conn
    BY <2>1, <2>2, AbstractStutter
  <2>3. CASE conn' # conn
    <3>1. m_Conns # << >> /\ Own(t, top)
      BY <1>7, <2>3 DEF GetPop, GetUnlocked
    <3>2. Len(m_Conns) \in 1 .. Len(m_Conns) /\ top \in Entries
      BY <3>1, EmptySeq, LenProperties, ElementOfSeq DEF IInv, TypeOK, Entries
    <3>3. top # NULL
      BY <1>1, <2>1, <2>3, <3>1 DEF Own
    <3>4. top \in Conns /\ Owner[top] = "pool"
      BY <3>2, <3>3, PooledDef DEF OwnerFacts, Entries, IInv
    <3>5. Abstract!Lend(t, top)
      BY <1>3, <2>1, <3>1, <3>4 DEF Abstract!Lend
    <3> QED BY <3>4, <3>5 DEF Abstract!Next
  <2> QED BY <2>2, <2>3
<1>8. CASE PutConnect(t) /\ Len(m_Conns) < MAX_CONN_NUM
  <2>1. /\ conn[t] \in Conns /\ Own(t, NULL) /\ UNCHANGED <<alive, orphaned>>
    BY <1>1, <1>8 DEF PutConnect, Put, heap, Entries
  <2>2. Owner'[conn[t]] = "pool"
    <3>1. conn[t] \in alive \ orphaned
      BY <1>1, <2>1 DEF OwnerFacts
    <3>2. \A u \in Threads : conn'[u] # conn[t]
      BY <1>1, <2>1 DEF Own, IInv, Ownership, ExclusiveOwnership
    <3> QED BY <2>1, <3>1, <3>2 DEF OwnerFacts
  <2>3. Cardinality({d \in Conns : Owner[d] = "pool"}) < MAX_CONN_NUM
    <3>1. {d \in Conns : Owner[d] = "pool"} = Pooled
      BY <1>1 DEF OwnerFacts, IInv, Ownership, NoDanglingPointer
    <3>2. Len(m_Conns) \in Nat /\ MAX_CONN_NUM \in Nat /\ Cardinality(Pooled) \in Nat
      BY LenProperties, ConnPoolAssumption, PooledIsSmall, FS_CardinalityType DEF IInv, TypeOK
    <3>3. Cardinality(Pooled) < MAX_CONN_NUM
      BY <1>8, <3>2, PooledIsSmall
    <3> QED BY <3>1, <3>3, Zenon
  <2>4. Abstract!Move({conn[t]}, t, "pool")
    BY <1>2, <2>1, <2>2
  <2>5. Abstract!Return(t, conn[t])
    BY <2>3, <2>4, SameCardinality, Zenon DEF Abstract!Return
  <2> QED BY <2>1, <2>5 DEF Abstract!Next
<1> QED BY <1>4, <1>5, <1>6, <1>7, <1>8 DEF CreateFails, ReleaseConnect, PutConnect, Put,
     IInv, Control, HandsByLabel

(* Every step of the program is a move of the abstract pool or invisible.    *)
LEMMA AbstractStep ==
  ASSUME IInv, IInv', OwnerFacts, OwnerFacts', [Next]_vars
  PROVE  [Abstract!Next]_Owner
<1>1. ASSUME NEW S \in SUBSET Pooled, Delete(S), conn' = conn
      PROVE  Abstract!Next
  <2>1. S \in SUBSET Conns /\ alive' = alive \ S /\ orphaned' = orphaned
    BY <1>1 DEF Delete, IInv, TypeOK, Ownership, NoDanglingPointer
  <2>2. \A c \in S : Owner[c] = "pool" /\ Owner'[c] = "nobody"
    BY <1>1, <2>1 DEF OwnerFacts
  <2>3. Abstract!Evict(S)
    BY <1>1, <2>1, <2>2, OwnerMoves DEF Abstract!Evict
  <2> QED BY <2>1, <2>3 DEF Abstract!Next
<1>2. CASE Destroy
  BY <1>1, <1>2 DEF Destroy, FreeAll
<1>3. CASE UNCHANGED vars \/ LoseConnection \/ Tick
  BY <1>3, AbstractStutter DEF vars, LoseConnection, Tick, heap
<1>4. ASSUME NEW t \in Threads, Step(t) PROVE Abstract!Next \/ UNCHANGED Owner
  <2>1. CASE ReleasePool(t)
    BY <1>1, <2>1 DEF ReleasePool, FreeAll
  <2>2. CASE CheckFree(t)
    <3>1. i[t] \in 1 .. Len(m_Conns) /\ m_Conns[i[t]] # NULL
      BY <2>2, LenProperties DEF CheckFree, AtEntry, IInv, TypeOK
    <3>2. m_Conns[i[t]] \in Pooled
      BY <3>1, PooledDef DEF IInv
    <3>3. {m_Conns[i[t]]} \in SUBSET Pooled
      BY <3>2
    <3>4. Delete({m_Conns[i[t]]}) /\ conn' = conn
      BY <2>2 DEF CheckFree
    <3> HIDE DEF Delete
    <3> QED BY <1>1, <3>3, <3>4
  <2>3. CASE UNCHANGED <<alive, orphaned, conn>>
    BY <2>3, AbstractStutter
  <2> QED
    BY <1>4, <2>1, <2>2, <2>3, HandMoves DEF Step, CheckStep, CallGetConnect, NewThrows,
       CreateSucceeds, CallGetChecked, CheckThrottled, CheckBegin, CheckValid, CheckSwap,
       CheckNull, CheckEnd, heap
<1> QED BY <1>2, <1>3, <1>4 DEF Next

(* CConnPool implements the abstract pool that hands every connection to one *)
(* owner at a time, for any threads, addresses and capacity.                 *)
THEOREM PoolImplements == Spec => Implements
<1>1. Init => Abstract!Init
  BY DEF Init, Abstract!Init, Owner
<1>2. IInv => OwnerFacts
  BY OwnerView
<1>3. IInv /\ IInv' /\ OwnerFacts /\ OwnerFacts' /\ [Next]_vars => [Abstract!Next]_Owner
  BY AbstractStep
<1> QED BY Invariance, <1>1, <1>2, <1>3, PTL DEF Spec, Implements, Abstract!Spec

-----------------------------------------------------------------------------
(* The order of the stack.                                                   *)
LEMMA StackEntries ==
  ASSUME TypeOK
  PROVE  /\ m_Conns \in Seq(Entries) /\ Len(m_Conns) \in Nat
         /\ DOMAIN m_Conns = 1 .. Len(m_Conns)
BY LenProperties DEF TypeOK, Entries

LEMMA GetKeepsOrder ==
  ASSUME IInv, IInv', NEW t \in Threads, GetPop(t)
  PROVE  KeepsOrder
<1> DEFINE L == Len(m_Conns)
<1>1. /\ m_Conns \in Seq(Entries) /\ L \in Nat /\ DOMAIN m_Conns = 1 .. L
      /\ Pooled \cap Held = {} /\ Pooled' \cap Held' = {}
      /\ \A j, k \in 1 .. L : m_Conns[j] = m_Conns[k] /\ m_Conns[j] # NULL => j = k
  BY StackEntries DEF IInv, Ownership, ExclusiveOwnership
<1>2. CASE m_Conns' = m_Conns
  BY <1>1, <1>2 DEF KeepsOrder, Pooled
<1>3. CASE m_Conns' # m_Conns
  <2>1. m_Conns # << >> /\ m_Conns' = SubSeq(m_Conns, 1, L - 1)
    BY <1>3 DEF GetPop, GetUnlocked
  <2>2. /\ m_Conns' \in Seq(Entries) /\ Len(m_Conns') = L - 1
        /\ \A k \in 1 .. L - 1 : m_Conns'[k] = m_Conns[k]
    BY <1>1, <2>1, PopEntries
  <2>3. DOMAIN m_Conns' = 1 .. L - 1
    BY <1>1, <2>2, LenProperties
  <2>4. Pooled' \subseteq Pooled /\ \A c \in Pooled : c \notin Pooled' => c = m_Conns[L]
    BY <1>1, <2>2, <2>3 DEF Pooled
  <2>5. ASSUME NEW a \in Pooled \cap Pooled', NEW b \in Pooled \cap Pooled', Below(m_Conns, a, b)
        PROVE  Below(m_Conns', a, b)
    <3>1. PICK j \in 1 .. L, k \in 1 .. L : j < k /\ m_Conns[j] = a /\ m_Conns[k] = b
      BY <1>1, <2>5 DEF Below
    <3>2. PICK m \in 1 .. L - 1 : m_Conns'[m] = b /\ b # NULL
      BY <2>3, <2>5 DEF Pooled
    <3>3. m_Conns[m] = b /\ m \in 1 .. L
      BY <1>1, <2>2, <3>2
    <3>4. k = m
      BY <1>1, <3>1, <3>2, <3>3
    <3> QED BY <1>1, <2>2, <2>3, <3>1, <3>2, <3>4 DEF Below
  <2> QED BY <1>1, <2>4, <2>5 DEF KeepsOrder
<1> QED BY <1>2, <1>3

LEMMA PushKeepsOrder ==
  ASSUME IInv, IInv', NEW t \in Threads, PutConnect(t)
  PROVE  KeepsOrder
<1> DEFINE L == Len(m_Conns)
<1>1. /\ m_Conns \in Seq(Entries) /\ L \in Nat /\ DOMAIN m_Conns = 1 .. L
      /\ Pooled \cap Held = {} /\ Pooled' \cap Held' = {} /\ conn[t] \in Entries
  BY StackEntries DEF IInv, Ownership, ExclusiveOwnership, TypeOK, Entries
<1>2. CASE m_Conns' = m_Conns
  BY <1>1, <1>2 DEF KeepsOrder, Pooled
<1>3. CASE m_Conns' = Append(m_Conns, conn[t])
  <2>1. /\ Len(m_Conns') = L + 1 /\ \A k \in 1 .. L : m_Conns'[k] = m_Conns[k]
        /\ DOMAIN m_Conns' = 1 .. L + 1
    BY <1>1, <1>3, PushEntry, LenProperties
  <2>2. Pooled \subseteq Pooled' /\ \A c \in Pooled' : c \notin Pooled => c = m_Conns'[L + 1]
    BY <1>1, <2>1 DEF Pooled
  <2>3. \A a, b : Below(m_Conns, a, b) => Below(m_Conns', a, b)
    BY <1>1, <2>1 DEF Below
  <2> QED BY <1>1, <2>1, <2>2, <2>3 DEF KeepsOrder
<1> QED BY <1>2, <1>3 DEF PutConnect, Put

LEMMA FreeKeepsOrder ==
  ASSUME IInv, IInv', NEW t \in Threads, CheckFree(t)
  PROVE  KeepsOrder
<1> DEFINE L == Len(m_Conns)
           n == i[t]
<1>1. /\ m_Conns \in Seq(Entries) /\ L \in Nat /\ DOMAIN m_Conns = 1 .. L
      /\ Pooled \cap Held = {} /\ n \in 1 .. L /\ NULL \in Entries
      /\ \A j, k \in 1 .. L : m_Conns[j] = m_Conns[k] /\ m_Conns[j] # NULL => j = k
  BY StackEntries DEF IInv, Ownership, ExclusiveOwnership, CheckFree, AtEntry, TypeOK, Entries
<1>2. m_Conns' = [m_Conns EXCEPT ![n] = NULL] /\ Held' = Held
  BY DEF CheckFree, Held
<1>3. /\ Len(m_Conns') = L /\ DOMAIN m_Conns' = 1 .. L
      /\ \A k \in 1 .. L : m_Conns'[k] = IF k = n THEN NULL ELSE m_Conns[k]
  BY <1>1, <1>2, ExceptSeq, LenProperties
<1>4. Pooled' \subseteq Pooled
  BY <1>1, <1>3 DEF Pooled
<1>5. \A c \in Pooled' : \A k \in 1 .. L : m_Conns[k] = c => m_Conns'[k] = c
  <2> SUFFICES ASSUME NEW c \in Pooled', NEW k \in 1 .. L, m_Conns[k] = c PROVE m_Conns'[k] = c
    OBVIOUS
  <2>1. PICK m \in 1 .. L : m_Conns'[m] = c /\ c # NULL
    BY <1>3 DEF Pooled
  <2>2. m_Conns[m] = c
    BY <1>3, <2>1
  <2>3. m = k
    BY <1>1, <2>1, <2>2
  <2> QED BY <2>1, <2>3
<1>6. \A a, b \in Pooled' : Below(m_Conns, a, b) => Below(m_Conns', a, b)
  BY <1>1, <1>3, <1>5 DEF Below
<1> QED BY <1>1, <1>2, <1>4, <1>6 DEF KeepsOrder

LEMMA SwapKeepsOrder ==
  ASSUME IInv, IInv', NEW t \in Threads, CheckSwap(t)
  PROVE  KeepsOrder
<1> DEFINE L == Len(m_Conns)
           n == i[t]
<1>1. /\ m_Conns \in Seq(Entries) /\ L \in Nat /\ DOMAIN m_Conns = 1 .. L
      /\ Pooled \cap Held = {} /\ Pooled' \cap Held' = {} /\ Held' = Held
      /\ n \in 1 .. L /\ m_Conns[n] = NULL /\ pc[t] = "swap"
  BY StackEntries DEF IInv, Ownership, ExclusiveOwnership, Control, ScanOwnsMutex, CheckSwap,
     TypeOK, Held
<1>2. /\ m_Conns' \in Seq(Entries) /\ Len(m_Conns') = L - 1
      /\ \A k \in 1 .. L - 1 : m_Conns'[k] = IF k = n THEN m_Conns[L] ELSE m_Conns[k]
  BY <1>1, SwapEntries DEF CheckSwap, LastOverEntry
<1>3. DOMAIN m_Conns' = 1 .. L - 1
  BY <1>1, <1>2, LenProperties
<1>4. Pooled' \subseteq Pooled
  <2> SUFFICES ASSUME NEW k \in 1 .. L - 1, m_Conns'[k] # NULL PROVE m_Conns'[k] \in Pooled
    BY <1>3 DEF Pooled
  <2>1. L \in 1 .. L /\ k \in 1 .. L
    BY <1>1
  <2> QED BY <1>1, <1>2, <2>1 DEF Pooled
<1>5. ASSUME NEW a \in Pooled, NEW b \in Pooled, Below(m_Conns, a, b)
      PROVE  Below(m_Conns', a, b) \/ (b = m_Conns[L] /\ m_Conns'[n] = b)
  <2>1. PICK j \in 1 .. L, k \in 1 .. L : j < k /\ m_Conns[j] = a /\ m_Conns[k] = b
    BY <1>1, <1>5 DEF Below
  <2>2. j # n /\ k # n
    BY <1>1, <1>5, <2>1 DEF Pooled
  <2>3. CASE k = L
    <3>1. n \in 1 .. L - 1
      BY <1>1, <2>2, <2>3
    <3> QED BY <1>2, <2>1, <2>3, <3>1
  <2>4. CASE k < L
    <3>1. j \in 1 .. L - 1 /\ k \in 1 .. L - 1
      BY <1>1, <2>1, <2>4
    <3> QED BY <1>2, <1>3, <2>1, <2>2, <3>1 DEF Below
  <2>5. k = L \/ k < L
    <3>1. L \in Nat /\ k \in 1 .. L
      BY <1>1
    <3> HIDE DEF L
    <3> QED BY <3>1
  <2> QED BY <2>3, <2>4, <2>5, Zenon
<1>6. ASSUME NEW a \in Pooled \cap Pooled', NEW b \in Pooled \cap Pooled',
             Below(m_Conns, a, b), ~Below(m_Conns', a, b)
      PROVE  pc[t] = "swap" /\ b = m_Conns[L] /\ m_Conns'[n] = b
  BY <1>1, <1>5, <1>6
<1> QED BY <1>1, <1>4, <1>6 DEF KeepsOrder

LEMMA OrderStep ==
  ASSUME IInv, IInv', [Next]_vars
  PROVE  [KeepsOrder]_vars
<1>1. /\ Pooled \cap Held = {} /\ Pooled' \cap Held' = {}
  BY DEF IInv, Ownership, ExclusiveOwnership
<1>2. ASSUME m_Conns' = m_Conns PROVE KeepsOrder
  BY <1>1, <1>2 DEF KeepsOrder, Pooled
<1>3. ASSUME FreeAll, conn' = conn PROVE KeepsOrder
  <2>1. Pooled' = {} /\ Held' = Held
    BY <1>3 DEF FreeAll, Pooled, Held
  <2> QED BY <1>1, <2>1 DEF KeepsOrder
<1>4. CASE Destroy
  BY <1>3, <1>4 DEF Destroy
<1>5. ASSUME NEW t \in Threads, Step(t) PROVE KeepsOrder
  <2>1. CASE GetPop(t) \/ PutConnect(t) \/ CheckFree(t) \/ CheckSwap(t)
    BY <2>1, GetKeepsOrder, PushKeepsOrder, FreeKeepsOrder, SwapKeepsOrder
  <2>2. CASE ReleasePool(t)
    BY <1>3, <2>2 DEF ReleasePool
  <2>3. CASE m_Conns' = m_Conns
    BY <1>2, <2>3
  <2> QED
    BY <1>5, <2>1, <2>2, <2>3 DEF Step, CheckStep, CallGetConnect, NewConn, NewThrows,
       CreateSucceeds, CreateFails, CreateThrows, CallGetChecked, CheckThrottled, CheckBegin,
       CheckValid, CheckNull, CheckEnd, ReleaseConnect
<1> QED BY <1>2, <1>4, <1>5 DEF Next, vars, LoseConnection, Tick

(* The pool is a stack, but for the connection that CheckConnect's swap      *)
(* brings forward.                                                           *)
THEOREM PoolIsStack == Spec => LifoButForSwap
<1>1. IInv /\ IInv' /\ [Next]_vars => [KeepsOrder]_vars
  BY OrderStep
<1> QED BY Invariance, <1>1, PTL DEF Spec, LifoButForSwap
=============================================================================
