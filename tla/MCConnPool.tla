------------------------------ MODULE MCConnPool ------------------------------
(* The pool on small sets of threads and addresses. *)
EXTENDS ConnPool, TLC

Symmetry == Permutations(Threads) \cup Permutations(Conns)

=============================================================================
