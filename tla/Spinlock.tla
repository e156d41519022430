------------------------------ MODULE Spinlock ------------------------------
(***************************************************************************)
(* The kernel's ticket lock (kernel/infrastructure/i686/atomic/            *)
(* spinlock.asm).  A lock is one 32-bit word: the low half is the "now     *)
(* serving" number, the high half the next ticket.  Each half wraps at W   *)
(* (2^16 in the code) and no carry leaves it.                              *)
(*                                                                         *)
(* spin_lock takes a ticket with one locked xadd on the whole word and     *)
(* then polls the low half.  spin_unlock increments the low half with an   *)
(* instruction that carries no lock prefix, so its read and its write are  *)
(* two memory accesses here: another CPU may take a ticket between them.   *)
(***************************************************************************)
EXTENDS Naturals, Sequences, FiniteSets

CONSTANTS CPUs,  \* the CPUs that contend for the lock
          W      \* number of values of half a lock word

ASSUME SpinlockAssumption ==
    /\ IsFiniteSet(CPUs)
    /\ W \in Nat \ {0}
    /\ Cardinality(CPUs) <= W

VARIABLES serving,  \* low half of the lock word
          next,     \* high half of the lock word
          pc,       \* what each CPU is doing with this lock
          ticket,   \* ecx of spin_lock, the ticket the CPU took
          read,     \* low half as read by the inc of spin_unlock
          line      \* history: CPUs that took a ticket, in that order

vars == <<serving, next, pc, ticket, read, line>>

Half == 0..(W - 1)

Inc(x) == IF x + 1 = W THEN 0 ELSE x + 1

Init ==
    /\ serving = 0
    /\ next = 0
    /\ pc = [c \in CPUs |-> "idle"]
    /\ ticket = [c \in CPUs |-> 0]
    /\ read = [c \in CPUs |-> 0]
    /\ line = <<>>

-----------------------------------------------------------------------------
(* Plausible mistakes: keeping the value after the increment, not wrapping *)
(* the stored number, an ordered comparison of wrapping numbers, and a     *)
(* lock that goes to whoever finds it free.                                *)
TakeTicketAfterInc(c) ==
    /\ pc[c] = "idle"
    /\ ticket' = [ticket EXCEPT ![c] = Inc(next)]
    /\ next' = Inc(next)
    /\ pc' = [pc EXCEPT ![c] = "spin"]
    /\ line' = Append(line, c)
    /\ UNCHANGED <<serving, read>>

LeaveLoopOrdered(c) ==
    /\ pc[c] = "spin"
    /\ ticket[c] <= serving
    /\ pc' = [pc EXCEPT ![c] = "locked"]
    /\ UNCHANGED <<serving, next, ticket, read, line>>

LeaveLoopFree(c) ==
    /\ pc[c] = "spin"
    /\ \A d \in CPUs : pc[d] \in {"idle", "spin"}
    /\ pc' = [pc EXCEPT ![c] = "locked"]
    /\ UNCHANGED <<serving, next, ticket, read, line>>

UnlockWriteNoWrap(c) ==
    /\ pc[c] = "unlocking"
    /\ serving' = read[c] + 1
    /\ pc' = [pc EXCEPT ![c] = "idle"]
    /\ line' = Tail(line)
    /\ UNCHANGED <<next, ticket, read>>

(* spin_lock: mov ecx, 1 << 16; lock xadd dword [eax], ecx; shr ecx, 16    *)
TakeTicket(c) ==
    /\ pc[c] = "idle"
    /\ ticket' = [ticket EXCEPT ![c] = next]
    /\ next' = Inc(next)
    /\ pc' = [pc EXCEPT ![c] = "spin"]
    /\ line' = Append(line, c)
    /\ UNCHANGED <<serving, read>>

(* spin_lock: the iteration of .loop that leaves it                        *)
LeaveLoop(c) ==
    /\ pc[c] = "spin"
    /\ serving = ticket[c]
    /\ pc' = [pc EXCEPT ![c] = "locked"]
    /\ UNCHANGED <<serving, next, ticket, read, line>>

(* spin_unlock: the read half of inc word [eax]                            *)
UnlockRead(c) ==
    /\ pc[c] = "locked"
    /\ read' = [read EXCEPT ![c] = serving]
    /\ pc' = [pc EXCEPT ![c] = "unlocking"]
    /\ UNCHANGED <<serving, next, ticket, line>>

(* spin_unlock: the write half.  It stores 16 bits, so the ticket half of  *)
(* the word is whatever the other CPUs made of it meanwhile.               *)
UnlockWrite(c) ==
    /\ pc[c] = "unlocking"
    /\ serving' = Inc(read[c])
    /\ pc' = [pc EXCEPT ![c] = "idle"]
    /\ line' = Tail(line)
    /\ UNCHANGED <<next, ticket, read>>

Next == \E c \in CPUs :
    TakeTicket(c) \/ LeaveLoop(c) \/ UnlockRead(c) \/ UnlockWrite(c)

Spec == Init /\ [][Next]_vars

(* Every CPU keeps executing: one that polls polls again, one that is in   *)
(* its critical section reaches spin_unlock.  Nobody has to ask.           *)
Fairness == \A c \in CPUs :
    WF_vars(LeaveLoop(c) \/ UnlockRead(c) \/ UnlockWrite(c))

FairSpec == Spec /\ Fairness
-----------------------------------------------------------------------------
TypeOK ==
    /\ serving \in Half
    /\ next \in Half
    /\ pc \in [CPUs -> {"idle", "spin", "locked", "unlocking"}]
    /\ ticket \in [CPUs -> Half]
    /\ read \in [CPUs -> Half]
    /\ line \in Seq(CPUs)

(* Between the return of spin_lock and the end of spin_unlock.             *)
HasLock(c) == pc[c] \in {"locked", "unlocking"}

(* Two CPUs are never both between the return of spin_lock and the end of  *)
(* spin_unlock, although tickets wrap and the unlock is not atomic.        *)
MutualExclusion ==
    \A c, d \in CPUs : HasLock(c) /\ HasLock(d) => c = d

(* The ticket lock grants the lock in the order of the xadd instructions.  *)
Fifo == INSTANCE FifoLock WITH held <- {c \in CPUs : HasLock(c)}

ImplementsFifoLock == Fifo!Spec

(* A CPU that took a ticket in spin_lock leaves the polling loop.          *)
EveryTicketServed == \A c \in CPUs : pc[c] = "spin" ~> pc[c] = "locked"
-----------------------------------------------------------------------------
(* The strengthening that makes mutual exclusion inductive.  Tickets are   *)
(* handed out consecutively, so the i-th CPU in line holds the number      *)
(* serving + i - 1, wrapped; there are at most W CPUs in line, so these    *)
(* numbers are distinct.                                                   *)
Wrap(x) == IF x < W THEN x ELSE x - W

InLine == {c \in CPUs : pc[c] # "idle"}

LineIsWaiting ==
    /\ \A i \in 1..Len(line) : line[i] \in InLine
    /\ \A c \in InLine : \E i \in 1..Len(line) : line[i] = c
    /\ \A i, j \in 1..Len(line) : line[i] = line[j] => i = j
    /\ Len(line) = Cardinality(InLine)

TicketsConsecutive ==
    /\ \A i \in 1..Len(line) : ticket[line[i]] = Wrap(serving + i - 1)
    /\ next = Wrap(serving + Len(line))

HolderIsServed == \A c \in CPUs :
    /\ HasLock(c) => ticket[c] = serving
    /\ pc[c] = "unlocking" => read[c] = serving

(* The whole inductive invariant of the ticket lock: the line is exactly   *)
(* the CPUs between xadd and inc, and their tickets are consecutive.       *)
TicketInv == TypeOK /\ LineIsWaiting /\ TicketsConsecutive /\ HolderIsServed
=============================================================================
