------------------------------ MODULE FifoLock ------------------------------
(***************************************************************************)
(* What a spinlock_t promises its users: CPUs are granted the lock one at  *)
(* a time, in the order in which they asked for it.  This is the abstract  *)
(* specification that the ticket lock of spinlock.asm is shown to          *)
(* implement.                                                              *)
(***************************************************************************)
EXTENDS Naturals, Sequences

CONSTANT CPUs

VARIABLES line,  \* the CPUs that asked for the lock, oldest request first
          held   \* the CPUs that have the lock: none, or one

vars == <<line, held>>

InLine(c) == \E i \in 1..Len(line) : line[i] = c

Init ==
    /\ line = <<>>
    /\ held = {}

Ask(c) ==
    /\ ~InLine(c)
    /\ line' = Append(line, c)
    /\ UNCHANGED held

Grant ==
    /\ line # <<>>
    /\ held = {}
    /\ held' = {Head(line)}
    /\ UNCHANGED line

Release ==
    /\ held # {}
    /\ line' = Tail(line)
    /\ held' = {}

Next == (\E c \in CPUs : Ask(c)) \/ Grant \/ Release

Spec == Init /\ [][Next]_vars
=============================================================================
