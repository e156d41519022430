------------------------------- MODULE MCIpc --------------------------------
(* Three threads and two endpoints: a client, a server, and a third party  *)
(* that is now one, now the other.  Threads other than Boot are alike, and *)
(* so are the endpoints.                                                   *)
EXTENDS Ipc, TLC

Symmetry == Permutations(Threads \ {Boot}) \cup Permutations(Endpoints)
=============================================================================
