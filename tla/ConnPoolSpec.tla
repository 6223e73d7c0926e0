---------------------------- MODULE ConnPoolSpec ----------------------------
(***************************************************************************)
(* What a connection pool promises, without stack, mutex or scan: every    *)
(* connection has exactly one owner, and ownership moves only along a few  *)
(* edges.  CConnPool implements it (ConnPool, property Implements).        *)
(***************************************************************************)
EXTENDS Integers, FiniteSets

CONSTANTS Threads, Conns, Capacity

VARIABLE owner   \* of each connection: a thread, "pool", "nobody" or "lost"

Owners == Threads \cup {"pool", "nobody", "lost"}

Init == owner = [c \in Conns |-> "nobody"]

Move(S, from, to) ==
  /\ \A c \in S : owner[c] = from
  /\ owner' = [c \in Conns |-> IF c \in S THEN to ELSE owner[c]]

Idle(t) == \A c \in Conns : owner[c] # t

Make(t, c)    == Move({c}, "nobody", t) /\ Idle(t)
Lend(t, c)    == Move({c}, "pool", t) /\ Idle(t)
Return(t, c)  ==
  /\ Move({c}, t, "pool")
  /\ Cardinality({d \in Conns : owner[d] = "pool"}) < Capacity
Drop(t, c)    == Move({c}, t, "nobody")
Abandon(t, c) == Move({c}, t, "lost")
Evict(S)      == Move(S, "pool", "nobody")

Next ==
  \/ \E S \in SUBSET Conns : Evict(S)
  \/ \E t \in Threads, c \in Conns :
       Make(t, c) \/ Lend(t, c) \/ Return(t, c) \/ Drop(t, c) \/ Abandon(t, c)

Spec == Init /\ [][Next]_owner

=============================================================================
