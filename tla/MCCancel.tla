------------------------------ MODULE MCCancel ------------------------------
(***************************************************************************)
(* The main thread and one more, an ordinary signal and SIGCANCEL, which   *)
(* is in the second word of a signal set.  The applications checked: one   *)
(* whose threads use the FPU and signal each other, on every kind of CPU;  *)
(* two that cancel threads; and one that blocks signals and moves its      *)
(* stack.                                                                  *)
(***************************************************************************)
EXTENDS Cancel

MCSystems ==
    [cpu : CpuTypes,
     app : {{"sigaction", "create", "kill", "compute", "edit"}}]
      \cup
    [cpu : {[fxsr |-> TRUE, cve |-> TRUE]},
     app : {{"create", "join", "cancel", "setcancel"},
            {"detach", "cancel", "testcancel"},
            {"sigaction", "create", "killproc", "cancel", "sigmask", "movestack"}}]
=============================================================================
