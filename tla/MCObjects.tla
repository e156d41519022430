----------------------------- MODULE MCObjects ------------------------------
(* Two processes, two threads and one endpoint: a parent that creates,     *)
(* starts and outlives, or does not outlive, a child.                      *)
EXTENDS Objects
=============================================================================
