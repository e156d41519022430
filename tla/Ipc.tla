-------------------------------- MODULE Ipc ---------------------------------
(***************************************************************************)
(* Threads and synchronous IPC: kernel/domain/services/ipc.c, the queues   *)
(* of kernel/domain/entities/endpoint.c and the thread life cycle of       *)
(* kernel/domain/entities/thread.c, on top of the scheduler.               *)
(*                                                                         *)
(* Only the current thread acts.  pc[t] says where t is: in user space,    *)
(* at a point of the kernel where it switched away and will resume, or at  *)
(* the end of handle_trap, where every trap runs reschedule() before the   *)
(* return to user space.  A system call is one action up to the point      *)
(* where it switches thread or reaches the end of the trap.                *)
(***************************************************************************)
EXTENDS Scheduler

CONSTANTS Endpoints,  \* IPC endpoint objects
          Boot,       \* the thread that thread_run_first starts
          Sizes,      \* message sizes and receive buffer sizes
          AppMay      \* see below

(* What applications are free to do: call RECEIVE while a message is still *)
(* waiting for its reply, and change the buffer arrays of a blocked        *)
(* RECEIVE.  The kernel allows both.                                       *)
AppFreedoms == {"receive_again", "change_buffers"}

ASSUME IpcAssumption ==
    /\ Boot \in Threads
    /\ Sizes \subseteq Nat
    /\ AppMay \subseteq AppFreedoms

VARIABLES pc,         \* where each thread is
          sendq,      \* endpoint->send_list
          recvq,      \* endpoint->recv_list
          destroyed,  \* whether the endpoint was destroyed
          ep,         \* endpoint of the send or receive in progress
          msg,        \* what message_buffer holds, and message_size
          room,       \* its recv_buffer_size
          errno,      \* its message_errno
          sender,     \* thread->sender, whose message the thread services
          awaiter,    \* thread->awaiter
          exiting     \* the thread that exited and whose process is being
                      \* cleaned up, NULL otherwise

callVars == <<ep, msg, room, errno>>
queueVars == <<sendq, recvq, destroyed>>
vars == <<schedVars, pc, queueVars, callVars, sender, awaiter, exiting>>

PCs == {"none", "user", "send", "receive", "await", "close", "trapret"}
Errnos == {"OK", "EIO", "E2BIG", "EPROTO"}
Messages == [kind : {"none", "request", "reply"}, size : Nat]

TypeOK ==
    /\ SchedTypeOK
    /\ pc \in [Threads -> PCs]
    /\ sendq \in [Endpoints -> Seq(Threads)]
    /\ recvq \in [Endpoints -> Seq(Threads)]
    /\ destroyed \in [Endpoints -> BOOLEAN]
    /\ ep \in [Threads -> Endpoints \cup {NULL}]
    /\ msg \in [Threads -> Messages]
    /\ room \in [Threads -> Nat]
    /\ errno \in [Threads -> Errnos]
    /\ sender \in [Threads -> Threads \cup {NULL}]
    /\ awaiter \in [Threads -> Threads \cup {NULL}]
    /\ exiting \in Threads \cup {NULL}
    /\ exiting # NULL => current # NULL
    /\ \A t \in Threads : pc[t] \in {"send", "receive"} => ep[t] \in Endpoints

(* What send_message and receive_message keep in local variables and in    *)
(* the fields of thread_t is written by each call before it is read, so it *)
(* is kept while a call is in progress only.                               *)
NoMessage == [kind |-> "none", size |-> 0]

EndCall(t) ==
    /\ ep' = [ep EXCEPT ![t] = NULL]
    /\ msg' = [msg EXCEPT ![t] = NoMessage]
    /\ room' = [room EXCEPT ![t] = 0]
    /\ errno' = [errno EXCEPT ![t] = "OK"]

Init ==
    /\ SchedInit(Boot)
    /\ pc = [t \in Threads |-> IF t = Boot THEN "user" ELSE "none"]
    /\ sendq = [e \in Endpoints |-> <<>>]
    /\ recvq = [e \in Endpoints |-> <<>>]
    /\ destroyed = [e \in Endpoints |-> FALSE]
    /\ ep = [t \in Threads |-> NULL]
    /\ msg = [t \in Threads |-> NoMessage]
    /\ room = [t \in Threads |-> 0]
    /\ errno = [t \in Threads |-> "OK"]
    /\ sender = [t \in Threads |-> NULL]
    /\ awaiter = [t \in Threads |-> NULL]
    /\ exiting = NULL

At(t, where) == current = t /\ exiting = NULL /\ pc[t] = where

Goto(t, where) == pc' = [pc EXCEPT ![t] = where]

(* A pointer that may be NULL, as a sequence of threads to ready.          *)
Pointed(p) == IF p = NULL THEN <<>> ELSE <<p>>

-----------------------------------------------------------------------------
(* A trap that leaves the state modelled here alone: a system call that    *)
(* fails its checks (EBADF, EPERM, EINVAL, ENOMSG, ESRCH, EBUSY, EDEADLK,  *)
(* EIO), one that is about something else, or an interrupt.                *)
OtherTrap(t) ==
    /\ At(t, "user")
    /\ Goto(t, "trapret")
    /\ UNCHANGED <<schedVars, queueVars, callVars, sender, awaiter, exiting>>

(* The APIC timer interrupt, taken in user mode only.                      *)
Tick(t) ==
    /\ At(t, "user")
    /\ SchedulerTick
    /\ Goto(t, "trapret")
    /\ UNCHANGED <<queueVars, callVars, sender, awaiter, exiting>>

(* YIELD_THREAD                                                            *)
Yield(t) ==
    /\ At(t, "user")
    /\ YieldCurrentThread
    /\ Goto(t, "trapret")
    /\ UNCHANGED <<queueVars, callVars, sender, awaiter, exiting>>

(* The end of handle_trap: reschedule, then return to user space, now or   *)
(* when the preempted thread is switched to again.                         *)
TrapReturn(t) ==
    /\ At(t, "trapret")
    /\ Reschedule
    /\ Goto(t, "user")
    /\ UNCHANGED <<queueVars, callVars, sender, awaiter, exiting>>

-----------------------------------------------------------------------------
(* send_message, up to the switch.  gather_message copies the message into *)
(* the sender's own buffer.                                                *)
SendMessage(t, e, size, cap) ==
    /\ At(t, "user")
    /\ ~destroyed[e]
    /\ ep' = [ep EXCEPT ![t] = e]
    /\ room' = [room EXCEPT ![t] = cap]
    /\ errno' = [errno EXCEPT ![t] = "OK"]
    /\ msg' = [msg EXCEPT ![t] = [kind |-> "request", size |-> size]]
    /\ Goto(t, "send")
    /\ \/ /\ recvq[e] = <<>>
          /\ sendq' = [sendq EXCEPT ![e] = Append(@, t)]
          /\ SwitchAway("BLOCKED", <<>>)
          /\ UNCHANGED <<recvq, sender>>
       \/ /\ recvq[e] # <<>>
          /\ recvq' = [recvq EXCEPT ![e] = Tail(@)]
          /\ sender' = [sender EXCEPT ![Head(recvq[e])] = t]
          /\ SwitchToAndBlock(Head(recvq[e]))
          /\ UNCHANGED sendq
    /\ UNCHANGED <<destroyed, awaiter, exiting>>

(* send_message, after the switch: the outcome is message_errno, or the    *)
(* reply in the sender's message buffer.                                   *)
SendReturn(t) ==
    /\ At(t, "send")
    /\ EndCall(t)
    /\ Goto(t, "trapret")
    /\ UNCHANGED <<schedVars, queueVars, sender, awaiter, exiting>>

-----------------------------------------------------------------------------
(* The head of the loop of receive_message: take the oldest sender, or     *)
(* wait for one.  The threads in woken were readied just before, and held  *)
(* is receiver->sender if the receiver blocks.                             *)
ReceiveNext(t, e, held, woken) ==
    \/ /\ sendq[e] # <<>>
       /\ sendq' = [sendq EXCEPT ![e] = Tail(@)]
       /\ sender' = [sender EXCEPT ![t] = Head(sendq[e])]
       /\ ReadyThreads(woken)
       /\ UNCHANGED recvq
    \/ /\ sendq[e] = <<>>
       /\ recvq' = [recvq EXCEPT ![e] = Append(@, t)]
       /\ sender' = [sender EXCEPT ![t] = held]
       /\ SwitchAway("BLOCKED", woken)
       /\ UNCHANGED sendq

(* A plausible mistake: no test that the endpoint still exists.            *)
ReceiveMessageUnchecked(t, e, cap) ==
    /\ At(t, "user")
    /\ sender[t] = NULL \/ "receive_again" \in AppMay
    /\ ep' = [ep EXCEPT ![t] = e]
    /\ room' = [room EXCEPT ![t] = cap]
    /\ errno' = [errno EXCEPT ![t] = "OK"]
    /\ Goto(t, "receive")
    /\ ReceiveNext(t, e, sender[t], <<>>)
    /\ UNCHANGED <<destroyed, msg, awaiter, exiting>>

(* receive_message, up to the point where it has a sender or was woken.    *)
ReceiveMessage(t, e, cap) ==
    /\ At(t, "user")
    /\ ~destroyed[e]
    /\ sender[t] = NULL \/ "receive_again" \in AppMay
    /\ ep' = [ep EXCEPT ![t] = e]
    /\ room' = [room EXCEPT ![t] = cap]
    /\ errno' = [errno EXCEPT ![t] = "OK"]
    /\ Goto(t, "receive")
    /\ ReceiveNext(t, e, sender[t], <<>>)
    /\ UNCHANGED <<destroyed, msg, awaiter, exiting>>

(* receive_message: the operation was aborted.                             *)
ReceiveAborted(t) ==
    /\ At(t, "receive")
    /\ errno[t] # "OK"
    /\ sender' = [sender EXCEPT ![t] = NULL]
    /\ EndCall(t)
    /\ Goto(t, "trapret")
    /\ UNCHANGED <<schedVars, queueVars, awaiter, exiting>>

(* receive_message: the message does not fit.  Its sender is readied with  *)
(* E2BIG and the loop goes round.                                          *)
ReceiveTooBig(t) ==
    /\ At(t, "receive")
    /\ errno[t] = "OK"
    /\ msg[sender[t]].size > room[t]
    /\ errno' = [errno EXCEPT ![sender[t]] = "E2BIG"]
    /\ ReceiveNext(t, ep[t], NULL, <<sender[t]>>)
    /\ UNCHANGED <<pc, destroyed, ep, msg, room, awaiter, exiting>>

(* receive_message: scatter_message succeeds, the message is delivered and *)
(* its sender stays blocked until this thread replies or exits.            *)
ReceiveDelivers(t) ==
    /\ At(t, "receive")
    /\ errno[t] = "OK"
    /\ msg[sender[t]].size <= room[t]
    /\ EndCall(t)
    /\ Goto(t, "trapret")
    /\ UNCHANGED <<schedVars, queueVars, sender, awaiter, exiting>>

(* receive_message: scatter_message finds a buffer that is no longer valid *)
(* and the call fails.                                                     *)
ReceiveScatterFails(t) ==
    /\ At(t, "receive")
    /\ errno[t] = "OK"
    /\ "change_buffers" \in AppMay
    /\ 0 < msg[sender[t]].size
    /\ msg[sender[t]].size <= room[t]
    /\ sender' = [sender EXCEPT ![t] = NULL]
    /\ EndCall(t)
    /\ Goto(t, "trapret")
    /\ UNCHANGED <<schedVars, queueVars, awaiter, exiting>>

-----------------------------------------------------------------------------
(* reply_to_message: gather_message copies the reply over the message in   *)
(* the sender's buffer.  When that fails half way, or the reply is too     *)
(* big, the call fails and the sender keeps waiting.                       *)
ReplyFails(t, size) ==
    /\ At(t, "user")
    /\ sender[t] # NULL
    /\ msg' = [msg EXCEPT ![sender[t]] = [kind |-> "reply", size |-> size]]
    /\ Goto(t, "trapret")
    /\ UNCHANGED <<schedVars, queueVars, ep, room, errno, sender, awaiter, exiting>>

(* A plausible mistake: no test that the reply fits.                       *)
ReplyToMessageUnchecked(t, size) ==
    /\ At(t, "user")
    /\ sender[t] # NULL
    /\ msg' = [msg EXCEPT ![sender[t]] = [kind |-> "reply", size |-> size]]
    /\ sender' = [sender EXCEPT ![t] = NULL]
    /\ SwitchTo(sender[t])
    /\ Goto(t, "trapret")
    /\ UNCHANGED <<queueVars, ep, room, errno, awaiter, exiting>>

(* reply_to_message: success, the sender runs at once.                     *)
ReplyToMessage(t, size) ==
    /\ At(t, "user")
    /\ sender[t] # NULL
    /\ size <= room[sender[t]]
    /\ msg' = [msg EXCEPT ![sender[t]] = [kind |-> "reply", size |-> size]]
    /\ sender' = [sender EXCEPT ![t] = NULL]
    /\ SwitchTo(sender[t])
    /\ Goto(t, "trapret")
    /\ UNCHANGED <<queueVars, ep, room, errno, awaiter, exiting>>

(* A plausible mistake: the replier keeps its sender.                      *)
ReplyErrorKeepsSender(t) ==
    /\ At(t, "user")
    /\ sender[t] # NULL
    /\ errno' = [errno EXCEPT ![sender[t]] = "EPROTO"]
    /\ SwitchTo(sender[t])
    /\ Goto(t, "trapret")
    /\ UNCHANGED <<queueVars, ep, msg, room, sender, awaiter, exiting>>

(* reply_error_to_message                                                  *)
ReplyErrorToMessage(t) ==
    /\ At(t, "user")
    /\ sender[t] # NULL
    /\ errno' = [errno EXCEPT ![sender[t]] = "EPROTO"]
    /\ sender' = [sender EXCEPT ![t] = NULL]
    /\ SwitchTo(sender[t])
    /\ Goto(t, "trapret")
    /\ UNCHANGED <<queueVars, ep, msg, room, awaiter, exiting>>

(* A plausible mistake: the aborted receivers stay on the endpoint's list. *)
DestroyOpKeepsReceivers(e) ==
    /\ ~destroyed[e]
    /\ LET aborted == sendq[e] \o recvq[e]
       IN  /\ errno' = [u \in Threads |->
                          IF u \in Range(aborted) THEN "EIO" ELSE errno[u]]
           /\ ReadyThreads(aborted)
    /\ sendq' = [sendq EXCEPT ![e] = <<>>]
    /\ destroyed' = [destroyed EXCEPT ![e] = TRUE]
    /\ UNCHANGED <<recvq, ep, msg, room, sender, awaiter, exiting>>

(* object_destroy on an endpoint: destroy_op aborts the senders, then the  *)
(* receivers.                                                              *)
DestroyOp(e) ==
    /\ ~destroyed[e]
    /\ LET aborted == sendq[e] \o recvq[e]
       IN  /\ errno' = [u \in Threads |->
                          IF u \in Range(aborted) THEN "EIO" ELSE errno[u]]
           /\ ReadyThreads(aborted)
    /\ sendq' = [sendq EXCEPT ![e] = <<>>]
    /\ recvq' = [recvq EXCEPT ![e] = <<>>]
    /\ destroyed' = [destroyed EXCEPT ![e] = TRUE]
    /\ UNCHANGED <<ep, msg, room, sender, awaiter, exiting>>

(* DESTROY, or the CLOSE of the last descriptor that may receive on e.     *)
(* Closing the last descriptor of a process that never ran closes all of   *)
(* the descriptors of that process, and may destroy several endpoints.     *)
DestroyEndpoint(t, e) ==
    /\ At(t, "user") \/ At(t, "close")
    /\ DestroyOp(e)
    /\ Goto(t, "close")

(* The end of DESTROY or CLOSE.                                            *)
CloseReturn(t) ==
    /\ At(t, "close")
    /\ Goto(t, "trapret")
    /\ UNCHANGED <<schedVars, queueVars, callVars, sender, awaiter, exiting>>

-----------------------------------------------------------------------------
(* START_THREAD: thread_prepare, then thread_run.                          *)
StartThread(t, u) ==
    /\ At(t, "user")
    /\ tstate[u] \in {"CREATED", "ZOMBIE"}
    /\ sender' = [sender EXCEPT ![u] = NULL]
    /\ awaiter' = [awaiter EXCEPT ![u] = NULL]
    /\ credits' = [credits EXCEPT ![u] = 0]
    /\ tstate' = [tstate EXCEPT ![u] = "READY"]
    /\ ready' = Append(ready, u)
    /\ pc' = [pc EXCEPT ![t] = "trapret", ![u] = "user"]
    /\ UNCHANGED <<current, queueVars, callVars, exiting>>

(* A plausible mistake: the sender being serviced is forgotten.            *)
ThreadTerminateForgets(t) ==
    /\ At(t, "user")
    /\ sender' = [sender EXCEPT ![t] = NULL]
    /\ SwitchAway("ZOMBIE", Pointed(awaiter[t]))
    /\ exiting' = IF current' = NULL THEN NULL ELSE t
    /\ Goto(t, "none")
    /\ UNCHANGED <<queueVars, callVars, awaiter>>

(* thread_terminate_current: ready the awaiter, abort the sender being     *)
(* serviced, switch away for good.  What process_remove_running_thread     *)
(* does, once the thread to switch to is chosen and before it runs, is in  *)
(* the two actions below.                                                  *)
ThreadTerminateCurrent(t) ==
    /\ At(t, "user")
    /\ errno' = [u \in Threads |-> IF u = sender[t] THEN "EIO" ELSE errno[u]]
    /\ sender' = [sender EXCEPT ![t] = NULL]
    /\ SwitchAway("ZOMBIE", Pointed(awaiter[t]) \o Pointed(sender[t]))
    /\ exiting' = IF current' = NULL THEN NULL ELSE t
    /\ Goto(t, "none")
    /\ UNCHANGED <<queueVars, ep, msg, room, awaiter>>

(* The last thread of a process exited: close_descriptors closes the last  *)
(* descriptor that may receive on e.                                       *)
ExitDestroys(e) ==
    /\ exiting # NULL
    /\ DestroyOp(e)
    /\ UNCHANGED pc

(* The switch away from the thread that exited.                            *)
ExitDone ==
    /\ exiting # NULL
    /\ exiting' = NULL
    /\ UNCHANGED <<schedVars, pc, queueVars, callVars, sender, awaiter>>

(* A plausible mistake: an earlier awaiter is overwritten.                 *)
ThreadAwaitOverwrites(t, u) ==
    /\ At(t, "user")
    /\ u # t
    /\ tstate[u] # "CREATED"
    /\ awaiter' = [awaiter EXCEPT ![u] = t]
    /\ \/ /\ tstate[u] = "ZOMBIE"
          /\ Goto(t, "trapret")
          /\ UNCHANGED schedVars
       \/ /\ tstate[u] # "ZOMBIE"
          /\ Goto(t, "await")
          /\ SwitchAway("BLOCKED", <<>>)
    /\ UNCHANGED <<queueVars, callVars, sender, exiting>>

(* thread_await, up to the switch if the thread is still running.          *)
ThreadAwait(t, u) ==
    /\ At(t, "user")
    /\ u # t
    /\ tstate[u] # "CREATED"
    /\ awaiter[u] = NULL
    /\ awaiter' = [awaiter EXCEPT ![u] = t]
    /\ \/ /\ tstate[u] = "ZOMBIE"
          /\ Goto(t, "trapret")
          /\ UNCHANGED schedVars
       \/ /\ tstate[u] # "ZOMBIE"
          /\ Goto(t, "await")
          /\ SwitchAway("BLOCKED", <<>>)
    /\ UNCHANGED <<queueVars, callVars, sender, exiting>>

(* thread_await, after the switch.                                         *)
AwaitReturn(t) ==
    /\ At(t, "await")
    /\ Goto(t, "trapret")
    /\ UNCHANGED <<schedVars, queueVars, callVars, sender, awaiter, exiting>>

(* After a panic the CPU is halted.                                        *)
Halted == current = NULL /\ UNCHANGED vars
-----------------------------------------------------------------------------
(* The kernel going on with what the current thread is doing in it.        *)
KernelStep(t) ==
    \/ TrapReturn(t)
    \/ SendReturn(t)
    \/ ReceiveAborted(t)
    \/ ReceiveTooBig(t)
    \/ ReceiveDelivers(t)
    \/ ReceiveScatterFails(t)
    \/ AwaitReturn(t)
    \/ CloseReturn(t)

(* A trap from user space.                                                 *)
UserStep(t) ==
    \/ OtherTrap(t)
    \/ Tick(t)
    \/ Yield(t)
    \/ \E e \in Endpoints, size, cap \in Sizes : SendMessage(t, e, size, cap)
    \/ \E e \in Endpoints, cap \in Sizes : ReceiveMessage(t, e, cap)
    \/ \E size \in Sizes : ReplyFails(t, size)
    \/ \E size \in Sizes : ReplyToMessage(t, size)
    \/ ReplyErrorToMessage(t)
    \/ \E e \in Endpoints : DestroyEndpoint(t, e)
    \/ \E u \in Threads : StartThread(t, u)
    \/ ThreadTerminateCurrent(t)
    \/ \E u \in Threads : ThreadAwait(t, u)

Next ==
    \/ \E t \in Threads : KernelStep(t) \/ UserStep(t)
    \/ \E e \in Endpoints : ExitDestroys(e)
    \/ ExitDone
    \/ Halted

Spec == Init /\ [][Next]_vars

(* The CPU executes kernel code to its end, with interrupts disabled.  The *)
(* timer interrupt is only taken in user mode: it stays pending while the  *)
(* kernel runs, hence strong fairness.                                     *)
Fairness ==
    /\ \A t \in Threads : WF_vars(KernelStep(t)) /\ SF_vars(Tick(t))
    /\ WF_vars(ExitDone)

FairSpec == Spec /\ Fairness
-----------------------------------------------------------------------------
Alive(t) == tstate[t] \notin {"CREATED", "ZOMBIE"}

Blocked(t, where) == tstate[t] = "BLOCKED" /\ pc[t] = where

Queued(t, q) == t \in Range(q)

(* thread->thread_list is one list node that the ready queue and every     *)
(* endpoint queue share, so a thread enqueued twice would corrupt a list.  *)
(* Each thread is on at most one list, at most once, and the list is the   *)
(* one its state calls for.                                                *)
ListsConsistent ==
    /\ ReadyQueueConsistent
    /\ \A e \in Endpoints : IsInjective(sendq[e]) /\ IsInjective(recvq[e])
    /\ \A t \in Threads :
        /\ Alive(t) <=> pc[t] # "none"
        /\ tstate[t] = "BLOCKED" => pc[t] \in {"send", "receive", "await"}
        /\ \A e \in Endpoints :
            /\ Queued(t, sendq[e]) => Blocked(t, "send") /\ ep[t] = e
            /\ Queued(t, recvq[e]) <=> Blocked(t, "receive") /\ ep[t] = e

(* A thread that receiver->sender points to is blocked in send_message,    *)
(* off its endpoint's queue, and is waiting for that receiver alone: no    *)
(* reply, E2BIG or abort can ready a thread that is already awake, or      *)
(* complete the send of another thread's client.                           *)
ServicedSendersWait ==
    /\ \A r \in Threads : sender[r] # NULL =>
        /\ Alive(r)
        /\ Blocked(sender[r], "send")
        /\ errno[sender[r]] = "OK"
        /\ \A e \in Endpoints : ~Queued(sender[r], sendq[e])
    /\ \A r, q \in Threads : sender[r] # NULL /\ sender[r] = sender[q] => r = q

(* No message waits on an endpoint on which a thread waits to receive, and *)
(* nobody waits on a destroyed endpoint: send_message, receive_message and *)
(* destroy_op leave no missed rendezvous behind.                           *)
NoMissedRendezvous == \A e \in Endpoints :
    /\ sendq[e] = <<>> \/ recvq[e] = <<>>
    /\ destroyed[e] => sendq[e] = <<>> /\ recvq[e] = <<>>

(* A send_message or receive_message that is switched back to has what its *)
(* code takes for granted: the sender an error or a reply that fits, the   *)
(* receiver an error or a request for this very endpoint, not the message  *)
(* it was servicing before.  The receiver runs as soon as it is given a    *)
(* request, so it cannot find its endpoint destroyed when it goes round    *)
(* the loop and waits again.                                               *)
WakesWithOutcome ==
    /\ \A t \in Threads, e \in Endpoints : Queued(t, sendq[e]) =>
        msg[t].kind = "request" /\ errno[t] = "OK"
    /\ \A t \in Threads : pc[t] = "send" /\ tstate[t] # "BLOCKED" =>
        \/ errno[t] # "OK"
        \/ msg[t].kind = "reply" /\ msg[t].size <= room[t]
    /\ \A t \in Threads : pc[t] = "receive" /\ tstate[t] # "BLOCKED" =>
        \/ errno[t] # "OK"
        \/ /\ sender[t] # NULL
           /\ msg[sender[t]].kind = "request"
           /\ ep[sender[t]] = ep[t]
           /\ ~destroyed[ep[t]]
           /\ t = current /\ exiting = NULL

(* thread_await and thread_terminate_current never miss each other: a      *)
(* thread blocked in thread_await is the awaiter of a thread that has yet  *)
(* to exit, and a thread that exits readies only a blocked awaiter, once.  *)
AwaitersReleased ==
    /\ \A t \in Threads : Blocked(t, "await") =>
        \E u \in Threads : Alive(u) /\ awaiter[u] = t
    /\ \A u \in Threads : Alive(u) /\ awaiter[u] # NULL =>
        Blocked(awaiter[u], "await")
    /\ \A u, v \in Threads :
        Alive(u) /\ Alive(v) /\ awaiter[u] # NULL /\ awaiter[u] = awaiter[v]
            => u = v

(* The above, which is preserved by every step.                            *)
IpcInv ==
    /\ TypeOK
    /\ ListsConsistent
    /\ ServicedSendersWait
    /\ NoMissedRendezvous
    /\ WakesWithOutcome
    /\ AwaitersReleased

(* A thread blocked in send_message is queued on its endpoint or some      *)
(* thread still services it, so that a reply, the exit of that thread or   *)
(* the end of the endpoint can complete the send (send.md, "blocks until   *)
(* the message is received and replied to").                               *)
SendersReachable == \A t \in Threads : Blocked(t, "send") =>
    \/ Queued(t, sendq[ep[t]])
    \/ \E r \in Threads : sender[r] = t

(* The ready queue is first in, first out and the timer ends every time    *)
(* slice, so a ready thread gets the CPU unless the kernel panics.         *)
ReadyThreadsRun == \A t \in Threads :
    tstate[t] = "READY" ~> (tstate[t] = "RUNNING" \/ current = NULL)
=============================================================================
