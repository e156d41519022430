----------------------------- MODULE MCSpinlock -----------------------------
(* As many CPUs as half a lock word has values: the tightest case.         *)
EXTENDS Spinlock
=============================================================================
