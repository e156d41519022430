------------------------------ MODULE Signals ------------------------------
(***************************************************************************)
(* Signals, traps and the switch between user threads of one process:      *)
(* interface/signal.c, interface/i686/signal.c, trap.c and trap.asm,       *)
(* infrastructure/i686/thread.c, and the signal system calls.  The kernel  *)
(* runs with interrupts disabled on one CPU, so everything between the     *)
(* entry into the kernel and the next return to user space is one step.    *)
(*                                                                         *)
(* k is the state of the kernel with the user contexts:                    *)
(*   cur, ready     the current thread and the ready queue                 *)
(*   state, fresh   thread->state; not yet been in user space              *)
(*   awaiter        thread->awaiter                                        *)
(*   pending, blocked, ppending, handler   the signal fields of the        *)
(*                  threads and of the process (handler: one was set)      *)
(*   tls            the thread has set its local storage                   *)
(*   fpu, cpu       see Fpu                                                *)
(*   ctx            the user context: what trapframe_t saves of a thread   *)
(*   frames         the signal frames on the thread's user stack           *)
(*   stackok        its stack pointer leaves room in user space            *)
(*   halted         the kernel panicked                                    *)
(* and, as history, how often a pending bit was set, a handler entered and *)
(* a signal dropped: posted, handled, dropped, forgotten.                  *)
(***************************************************************************)
EXTENDS Fpu, Integers, Sequences, FiniteSets, FiniteSetsExt

CONSTANTS Main,         \* the thread that runs first
          SignalSet,    \* signal numbers
          LowSignals    \* those in sa_sigbits[0]

(* Threads are counted; a signal is a number.                              *)
ASSUME SignalsAssumption ==
    /\ IsFiniteSet(Threads) /\ Main \in Threads
    /\ SignalSet \subseteq Nat

(* A context: where the thread is in its code; whether its registers eax,  *)
(* ebx, esi and edi hold what the code there left in them, the result of a *)
(* system call included; and, as history, the FPU state it computed.       *)
Context(at, own) == [at |-> at, args |-> "mine", own |-> own]

BootKernel(cpu) ==
    [cur |-> Main, ready |-> <<>>, halted |-> FALSE, cpu |-> cpu,
     state |-> [t \in Threads |-> IF t = Main THEN "running" ELSE "created"],
     fresh |-> [t \in Threads |-> FALSE],
     awaiter |-> [t \in Threads |-> t],     \* t itself stands for NULL
     pending |-> [t \in Threads |-> {}], blocked |-> [t \in Threads |-> {}],
     ppending |-> {}, handler |-> FALSE,
     tls |-> [t \in Threads |-> FALSE],
     fpu |-> RestoreFpuState(BootFpu, Main),
     ctx |-> [t \in Threads |-> Context("entry", InitFpu)],
     frames |-> [t \in Threads |-> <<>>],
     stackok |-> [t \in Threads |-> TRUE],
     posted |-> [s \in SignalSet |-> 0], handled |-> [s \in SignalSet |-> 0],
     dropped |-> [s \in SignalSet |-> 0], forgotten |-> [s \in SignalSet |-> 0]]

-----------------------------------------------------------------------------
(* deliver_signal: a frame with the context, the mask and the FPU state on *)
(* the user stack, and the trap frame changed to enter the handler.  When  *)
(* there is no room for it the signal is dropped.                          *)
DeliverSignal(k, signo, sigmask) ==
    LET t == k.cur
        live == k.fpu.uses[t] /\ ~ k.fpu.saved[t]
        f == AfterFpregsForSignal(k.fpu, t, k.cpu)
        frame == [signo |-> signo, mask |-> sigmask, ctx |-> k.ctx[t],
                  fpregs |-> FpregsForSignal(k.fpu, t)]
    IN  IF ~ k.stackok[t] THEN [k EXCEPT !.dropped[signo] = @ + 1]
        ELSE [k EXCEPT !.frames[t] = Append(@, frame),
                       !.ctx[t] = Context("handle", IF live THEN f.regs ELSE @.own),
                       !.fpu = f,
                       !.handled[signo] = @ + 1]

(* A plausible mistake: the bit is cleared for the thread and the process. *)
CheckForSignalBoth(k) ==
    LET t == k.cur
        sigmask == k.blocked[t]
        signals == (k.ppending \cup k.pending[t]) \ sigmask
        signo == Min(signals)
    IN  IF signals = {} \/ ~ k.handler THEN k
        ELSE DeliverSignal([k EXCEPT !.blocked[t] = @ \cup {signo},
                                     !.pending[t] = @ \ {signo},
                                     !.ppending = @ \ {signo}], signo, sigmask)

(* check_for_signal.  sync_signo is never set, so its branch is not taken. *)
CheckForSignal(k) ==
    LET t == k.cur
        sigmask == k.blocked[t]
        signals == (k.ppending \cup k.pending[t]) \ sigmask
        signo == Min(signals)
        k1 == [k EXCEPT !.blocked[t] = @ \cup {signo}]
    IN  IF signals = {} \/ ~ k.handler THEN k
        ELSE DeliverSignal(IF signo \in k.pending[t]
                             THEN [k1 EXCEPT !.pending[t] = @ \ {signo}]
                             ELSE [k1 EXCEPT !.ppending = @ \ {signo}],
                           signo, sigmask)

(* return_from_interrupt and the ends of the fast entries.                 *)
LeaveKernel(k) == [k EXCEPT !.fpu = RestoreFpuState(@, k.cur)]

(* machine_switch_thread, and how the thread switched to goes on: a new    *)
(* one straight at return_from_interrupt, any other at the end of the trap *)
(* it was in.                                                              *)
SwitchThread(k, to) ==
    LET k1 == [k EXCEPT !.fpu = SaveFpuState(@, k.cur, k.cpu), !.cur = to,
                        !.fresh[to] = FALSE]
    IN  LeaveKernel(IF k.fresh[to] THEN k1 ELSE CheckForSignal(k1))

(* The end of handle_trap: reschedule may switch to the first thread of    *)
(* the ready queue, when the current one has no credits left.              *)
TrapReturns(k) ==
    {LeaveKernel(CheckForSignal(k))}
      \cup {SwitchThread([k EXCEPT !.ready = Append(Tail(@), k.cur)], Head(k.ready))
              : x \in {1} \cap DOMAIN k.ready}

(* A plausible mistake: the thread switched to stays in the queue.         *)
SwitchAwayQueued(k) ==
    IF k.ready = <<>> THEN [k EXCEPT !.halted = TRUE]
    ELSE SwitchThread(k, Head(k.ready))

(* block_current_thread_and_unlock and switch_from_exiting_thread: no      *)
(* ready thread is a panic.                                                *)
SwitchAway(k) ==
    IF k.ready = <<>> THEN [k EXCEPT !.halted = TRUE]
    ELSE SwitchThread([k EXCEPT !.ready = Tail(@)], Head(k.ready))

-----------------------------------------------------------------------------
(* System calls of the current thread, up to the end of handle_syscall,    *)
(* which stores a result in eax, ebx, esi and edi.                         *)

(* SIGNAL_THREAD and SIGNAL_PROCESS.                                       *)
SignalThread(k, t, signo) ==
    [k EXCEPT !.pending[t] = @ \cup {signo},
              !.posted[signo] = IF signo \in k.pending[t] THEN @ ELSE @ + 1]

SignalProcess(k, signo) ==
    [k EXCEPT !.ppending = @ \cup {signo},
              !.posted[signo] = IF signo \in k.ppending THEN @ ELSE @ + 1]

(* GET_SET_SIGNAL_MASK.                                                    *)
GetSetSignalMask(k, how, set) ==
    [k EXCEPT !.blocked[k.cur] =
        CASE how = "block" -> @ \cup set
          [] how = "setmask" -> set
          [] how = "unblock" -> @ \ set
          [] OTHER -> @]        \* none; any other value is an error

SetSignalHandler(k) == [k EXCEPT !.handler = TRUE]

SetThreadLocal(k) == [k EXCEPT !.tls[k.cur] = TRUE]

(* START_THREAD: thread_prepare and thread_run.  Only the first word of    *)
(* the signal set is passed on.                                            *)
StartThread(k, t, sigset) ==
    [k EXCEPT !.state[t] = "running", !.fresh[t] = TRUE, !.awaiter[t] = t,
              !.forgotten = [s \in SignalSet |-> IF s \in k.pending[t] THEN @[s] + 1
                                                                      ELSE @[s]],
              !.pending[t] = {}, !.blocked[t] = sigset \cap LowSignals,
              !.fpu = PrepareFpu(@, t),
              !.ctx[t] = Context("entry", InitFpu),
              !.frames[t] = <<>>, !.stackok[t] = TRUE,
              !.ready = Append(@, t)]

CanStart(k, t) == k.state[t] \in {"created", "zombie"}  \* JINUE_EBUSY otherwise

(* EXIT_THREAD.                                                            *)
ExitThread(k) ==
    LET t == k.cur
    IN  SwitchAway([k EXCEPT !.state[t] = "zombie",
                             !.ready = IF k.awaiter[t] # t THEN Append(@, k.awaiter[t])
                                                           ELSE @])

(* AWAIT_THREAD: thread_await.  A thread that was never started, or that   *)
(* has an awaiter, is an error; a zombie is not waited for.                *)
AwaitThread(k, t) ==
    IF k.state[t] = "created" \/ k.awaiter[t] # t \/ t = k.cur
      THEN TrapReturns(k)
    ELSE LET k1 == [k EXCEPT !.awaiter[t] = k.cur]
         IN  IF k.state[t] = "zombie" THEN TrapReturns(k1) ELSE {SwitchAway(k1)}

(* A plausible mistake: the mask in force stays in force.                  *)
ReturnFromSignalMasked(k) ==
    LET t == k.cur
        frame == k.frames[t][Len(k.frames[t])]
    IN  [k EXCEPT !.fpu = RestoreFpregsForSignal(@, t, frame.fpregs),
                  !.frames[t] = SubSeq(@, 1, Len(@) - 1),
                  !.ctx[t] = [frame.ctx EXCEPT !.args = "zero"]]

(* RETURN_FROM_SIGNAL with the frame on top.  sys_return_from_signal then  *)
(* stores its return value in the four argument registers.                 *)
ReturnFromSignal(k) ==
    LET t == k.cur
        frame == k.frames[t][Len(k.frames[t])]
    IN  [k EXCEPT !.fpu = RestoreFpregsForSignal(@, t, frame.fpregs),
                  !.blocked[t] = frame.mask,
                  !.frames[t] = SubSeq(@, 1, Len(@) - 1),
                  !.ctx[t] = [frame.ctx EXCEPT !.args = "zero"]]
============================================================================
