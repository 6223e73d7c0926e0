----------------------------- MODULE MCSpinLock -----------------------------
(* The spin lock with a handful of its threads. *)
EXTENDS SpinLock
=============================================================================
