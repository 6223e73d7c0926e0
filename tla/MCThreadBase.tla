----------------------------- MODULE MCThreadBase -----------------------------
(* An object with its owner and one other caller. *)
EXTENDS ThreadBase
===============================================================================
