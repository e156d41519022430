------------------------------- MODULE Cancel -------------------------------
(***************************************************************************)
(* The user side of signals: the C library's signal dispatch               *)
(* (libc/signal.c), the POSIX threads with their cancellation              *)
(* (libc/pthread), and an application that calls them, over the kernel of  *)
(* Signals.  Every step is a step of the current thread in user space, or  *)
(* a trap; a timer interrupt may come between any two of them.             *)
(*                                                                         *)
(* The places in user code (ctx.at):                                       *)
(*   entry     the first instructions of a thread, before its local        *)
(*             storage is set; init: in __libc_signal_init                 *)
(*   app       application code                                            *)
(*   take, create  in pthread_create, before and after the thread          *)
(*             structure is taken                                          *)
(*   test, atest   about to call do_testcancel(false), do_testcancel(true) *)
(*   handle    at the start of handle_signal                               *)
(*   sigcancel, htest  in handle_sigcancel, before and after it sets the   *)
(*             flag                                                        *)
(*   happ      in the application's handler                                *)
(*   sigret    in return_from_signal of the library                        *)
(*   exit, gone    in pthread_exit, at its start and at its end            *)
(*   link, free    in free_thread_to_pool, called by pthread_exit: before  *)
(*             it sets thread->next, and before it sets pool               *)
(*   relink, refree    the same, called by pthread_create                  *)
(***************************************************************************)
EXTENDS Signals

CONSTANTS SIGCANCEL,
          Systems,      \* CPUs with an application: the set of calls it makes
          MaxPosts,     \* bound on the signals sent
          MaxStarts     \* bound on the threads started

(* SIGCANCEL is the first signal after NSIG_MAX, in the second word.       *)
ASSUME CancelAssumption ==
    /\ SIGCANCEL \in SignalSet \ LowSignals
    /\ \A sys \in Systems : sys.cpu \in CpuTypes

VARIABLES k,            \* see Signals
          pt,           \* struct __pthread of each thread (next: Main is NULL)
          lib,          \* the library's globals
          app           \* the application that runs

vars == <<k, pt, lib, app>>

NewPthread(detached) ==
    [requested |-> FALSE, enabled |-> TRUE, async |-> FALSE, detached |-> detached,
     next |-> Main]

(* Before __libc_init.                                                     *)
Init ==
    /\ \E sys \in Systems : app = sys.app /\ k = BootKernel(sys.cpu)
    /\ pt = [t \in Threads |-> NewPthread(FALSE)]
    /\ lib = [sighandler |-> FALSE,     \* the application's entry in sighandlers
              sigcancel |-> FALSE,      \* __pthread_handle_sigcancel is set
              pool |-> Main,            \* thread structures to reuse; Main: none
              new |-> Threads \ {Main}, \* thread structures not allocated yet
              candidate |-> Main,       \* of pthread_create; Main: none yet
              detach |-> FALSE,         \* its detachstate
              starts |-> 0]

cur == k.cur
AppCalls(call) == ~ k.halted /\ k.ctx[cur].at = "app" /\ call \in app
At(place) == ~ k.halted /\ k.ctx[cur].at = place
Top(t) == k.frames[t][Len(k.frames[t])]

(* The current thread goes on at another place, with its own registers.    *)
Go(kk, place) == [kk EXCEPT !.ctx[cur].at = place, !.ctx[cur].args = "mine"]

UserStep(place) == k' = Go(k, place)
Trap(kk) == k' \in TrapReturns(kk)

-----------------------------------------------------------------------------
(* __pthread_entry, or __libc_init for the main thread: first the local    *)
(* storage is set.                                                         *)
ThreadEntry ==
    /\ At("entry")
    /\ Trap(SetThreadLocal(Go(k, IF cur = Main THEN "init" ELSE "app")))
    /\ UNCHANGED <<pt, lib>>

(* __libc_signal_init, with the stub for SIGCANCEL.                        *)
LibcSignalInit ==
    /\ At("init")
    /\ Trap(SetSignalHandler(Go(k, "app")))
    /\ UNCHANGED <<pt, lib>>

(* sigaction for a signal that is not reserved.                            *)
Sigaction ==
    /\ AppCalls("sigaction") /\ ~ lib.sighandler
    /\ lib' = [lib EXCEPT !.sighandler = TRUE]
    /\ UserStep("app")
    /\ UNCHANGED pt

(* sigprocmask and pthread_sigmask: reserved signals are never blocked.    *)
SigprocmaskAll(how, set) ==
    /\ \E place \in {"app", "happ"} :
         At(place) /\ "sigmask" \in app /\ Trap(GetSetSignalMask(Go(k, place), how, set))
    /\ UNCHANGED <<pt, lib>>

Sigprocmask(how, set) ==
    LET iset == IF how = "unblock" THEN set ELSE set \ {SIGCANCEL}
    IN  /\ \E place \in {"app", "happ"} :
             At(place) /\ "sigmask" \in app /\ Trap(GetSetSignalMask(Go(k, place), how, iset))
        /\ UNCHANGED <<pt, lib>>

MayPost == MapThenSumSet(LAMBDA s : k.posted[s], SignalSet) < MaxPosts

(* raise and pthread_kill; JINUE's SIGNAL_PROCESS.                         *)
PthreadKill(t, signo) ==
    /\ AppCalls("kill") /\ MayPost
    /\ k.state[t] # "created"
    /\ Trap(SignalThread(Go(k, "app"), t, signo))
    /\ UNCHANGED <<pt, lib>>

KillProcess(signo) ==
    /\ AppCalls("killproc") /\ MayPost
    /\ Trap(SignalProcess(Go(k, "app"), signo))
    /\ UNCHANGED <<pt, lib>>

PthreadCancel(t) ==
    /\ AppCalls("cancel") /\ MayPost
    /\ k.state[t] # "created"
    /\ lib' = [lib EXCEPT !.sigcancel = TRUE]
    /\ Trap(SignalThread(Go(k, "app"), t, SIGCANCEL))
    /\ UNCHANGED pt

-----------------------------------------------------------------------------
(* pthread_create, called by the main thread, up to where                  *)
(* get_thread_from_pool has read pool.  Nothing protects the pool.         *)
PthreadCreate(detached) ==
    /\ AppCalls(IF detached THEN "detach" ELSE "create") /\ cur = Main /\ k.frames[cur] = <<>>
    /\ lib.starts < MaxStarts
    /\ lib.pool # Main \/ lib.new # {}
    /\ lib' = [lib EXCEPT !.candidate = lib.pool, !.detach = detached]
    /\ UserStep("take")
    /\ UNCHANGED pt

(* The structure read is taken out of the pool, or one is made with its    *)
(* thread, and it is reset.                                                *)
TakeThread ==
    /\ At("take")
    /\ \E t \in IF lib.candidate # Main THEN {lib.candidate} ELSE lib.new :
         /\ pt' = [pt EXCEPT ![t] = [NewPthread(lib.detach) EXCEPT !.next = pt[t].next]]
         /\ lib' = [lib EXCEPT !.candidate = t, !.new = @ \ {t},
                               !.pool = IF lib.candidate # Main THEN pt[t].next ELSE @]
    /\ UserStep("create")

(* The signal mask was read before; it is the one the caller has now, and  *)
(* a thread that still runs is JINUE_EBUSY.                                *)
PthreadStart ==
    LET t == lib.candidate
    IN  /\ At("create")
        /\ IF CanStart(k, t)
             THEN /\ lib' = [lib EXCEPT !.starts = @ + 1]
                  /\ Trap(StartThread(Go(k, "app"), t, k.blocked[cur]))
             ELSE Trap(Go(k, "relink")) /\ UNCHANGED lib
        /\ UNCHANGED pt

(* free_thread_to_pool, one assignment at a time, and the return to the    *)
(* caller.                                                                 *)
FreeThreadToPool(thread, link, free, caller) ==
    \/ /\ At(link)
       /\ pt' = [pt EXCEPT ![thread].next = lib.pool]
       /\ UserStep(free)
       /\ UNCHANGED lib
    \/ /\ At(free)
       /\ lib' = [lib EXCEPT !.pool = thread]
       /\ UserStep(caller)
       /\ UNCHANGED pt

PthreadPutBack == FreeThreadToPool(lib.candidate, "relink", "refree", "app")

PthreadJoin(t) ==
    /\ AppCalls("join") /\ k.frames[cur] = <<>>
    /\ t \in Threads \ lib.new
    /\ k' \in AwaitThread(Go(k, "app"), t)
    /\ UNCHANGED <<pt, lib>>

(* The application returns from its start routine or calls pthread_exit.   *)
CallExit ==
    /\ At("app") /\ cur # Main
    /\ UserStep("exit")
    /\ UNCHANGED <<pt, lib>>

PthreadExit ==
    /\ At("exit")
    /\ UserStep(IF pt[cur].detached THEN "link" ELSE "gone")
    /\ UNCHANGED <<pt, lib>>

PthreadFree == FreeThreadToPool(cur, "link", "free", "gone")

JinueExitThread ==
    /\ At("gone")
    /\ k' = ExitThread(Go(k, "gone"))
    /\ UNCHANGED <<pt, lib>>

-----------------------------------------------------------------------------
PthreadSetcancelstate(enabled) ==
    /\ AppCalls("setcancel")
    /\ pt' = [pt EXCEPT ![cur].enabled = enabled]
    /\ UserStep("atest")
    /\ UNCHANGED lib

PthreadSetcanceltype(async) ==
    /\ AppCalls("setcancel")
    /\ pt' = [pt EXCEPT ![cur].async = async]
    /\ UserStep("atest")
    /\ UNCHANGED lib

PthreadTestcancel ==
    /\ AppCalls("testcancel")
    /\ UserStep("test")
    /\ UNCHANGED <<pt, lib>>

(* do_testcancel.                                                          *)
MustExit(p, async_only) == p.requested /\ p.enabled /\ (~ async_only \/ p.async)

DoTestcancel ==
    /\ \E place \in {"test", "atest", "htest"} :
         /\ At(place)
         /\ UserStep(IF MustExit(pt[cur], place # "test") THEN "exit"
                     ELSE IF place = "htest" THEN "sigret" ELSE "app")
    /\ UNCHANGED <<pt, lib>>

(* handle_signal, and the stub for SIGCANCEL.                              *)
HandleSignal ==
    /\ At("handle")
    /\ UserStep(CASE Top(cur).signo = SIGCANCEL /\ lib.sigcancel -> "sigcancel"
                  [] Top(cur).signo # SIGCANCEL /\ lib.sighandler -> "happ"
                  [] OTHER -> "sigret")
    /\ UNCHANGED <<pt, lib>>

(* handle_sigcancel of pthread.  Without local storage pthread_self reads  *)
(* an unmapped address, and a page fault in user space is a panic.         *)
HandleSigcancel ==
    /\ At("sigcancel")
    /\ IF k.tls[cur]
         THEN pt' = [pt EXCEPT ![cur].requested = TRUE] /\ UserStep("htest")
         ELSE k' = [k EXCEPT !.halted = TRUE] /\ UNCHANGED pt
    /\ UNCHANGED lib

(* The application's handler returns, and may have changed the FPU state   *)
(* of the interrupted code.                                                *)
ReturnFromHandler(edit) ==
    LET n == Len(k.frames[cur])
        v == <<cur, -1>>
    IN  /\ At("happ") /\ (edit => "edit" \in app)
        /\ k' = IF edit
                  THEN [Go(k, "sigret") EXCEPT
                          !.frames[cur][n] = [@ EXCEPT !.fpregs = v, !.ctx.own = v]]
                  ELSE Go(k, "sigret")
        /\ UNCHANGED <<pt, lib>>

JinueReturnFromSignal ==
    /\ At("sigret")
    /\ Trap(ReturnFromSignal(k))
    /\ UNCHANGED <<pt, lib>>

-----------------------------------------------------------------------------
(* Code of the application that uses the FPU: with TS set the instruction  *)
(* raises #NM, use_fpu runs, and the instruction is executed again.        *)
Compute ==
    /\ "compute" \in app /\ (At("app") \/ At("happ"))
    /\ LET v == <<cur, Len(k.frames[cur])>>
       IN  IF k.fpu.ts THEN Trap([k EXCEPT !.fpu = UseFpu(@, cur)])
           ELSE k' = [k EXCEPT !.fpu.regs = v, !.ctx[cur].own = v,
                               !.ctx[cur].args = "mine"]
    /\ UNCHANGED <<pt, lib>>

(* The application runs on a stack with, or without, room for a frame.     *)
MoveStack ==
    /\ AppCalls("movestack") /\ k.frames[cur] = <<>>
    /\ k' = [Go(k, "app") EXCEPT !.stackok[cur] = ~ @]
    /\ UNCHANGED <<pt, lib>>

(* A timer interrupt, with credits left or not.                            *)
Tick ==
    /\ ~ k.halted
    /\ Trap(k)
    /\ UNCHANGED <<pt, lib>>

-----------------------------------------------------------------------------
(* Steps of the library and of the kernel's entry code, and of the         *)
(* application.                                                            *)
LibraryStep ==
    \/ ThreadEntry \/ LibcSignalInit \/ TakeThread \/ PthreadStart
    \/ PthreadPutBack \/ PthreadExit \/ PthreadFree \/ JinueExitThread
    \/ DoTestcancel \/ HandleSignal \/ HandleSigcancel
    \/ \E edit \in BOOLEAN : ReturnFromHandler(edit)
    \/ JinueReturnFromSignal

AppStep ==
    \/ Sigaction \/ Compute \/ MoveStack
    \/ CallExit \/ PthreadTestcancel
    \/ \E how \in {"block", "unblock", "setmask"}, set \in SUBSET SignalSet :
         Sigprocmask(how, set)
    \/ \E t \in Threads, s \in SignalSet : PthreadKill(t, s)
    \/ \E s \in SignalSet : KillProcess(s)
    \/ \E t \in Threads : PthreadCancel(t) \/ PthreadJoin(t)
    \/ \E b \in BOOLEAN :
         PthreadCreate(b) \/ PthreadSetcancelstate(b) \/ PthreadSetcanceltype(b)

Next == (LibraryStep \/ AppStep \/ Tick) /\ UNCHANGED app

(* Sooner or later a trap finds the current thread without credits and     *)
(* switches to a ready one; the timer never stops, so that a signal that   *)
(* can be delivered to a thread that stays the current one does not wait   *)
(* for a trap forever; and a thread that is dispatched again and again     *)
(* gets on with the library code or the handler it is in.  Nothing else is *)
(* assumed of the application.  (These are weak fairness of the first two  *)
(* steps and strong fairness of the third, with when they are enabled      *)
(* spelled out.)                                                           *)
CanSwitch == ~ k.halted /\ k.ready # <<>>
Switch == k'.cur # k.cur

CanDeliver ==
    ~ k.halted /\ k.handler /\ (k.pending[cur] \cup k.ppending) \ k.blocked[cur] # {}
TickStays == Tick /\ k'.cur = k.cur

InLibrary(t) ==
    ~ k.halted /\ k.cur = t /\ k.ctx[t].at # "app"

Fairness ==
    /\ []<>(~ CanSwitch) \/ []<><<Switch>>_vars
    /\ []<>(~ CanDeliver) \/ []<><<TickStays>>_vars
    /\ \A t \in Threads :
         <>[](~ InLibrary(t)) \/ []<><<k.cur = t /\ LibraryStep>>_vars

Spec == Init /\ [][Next]_vars /\ Fairness

-----------------------------------------------------------------------------
Alive(t) == k.state[t] = "running"
Running(t) == t = k.cur /\ ~ k.halted
Places == {"entry", "init", "app", "take", "create", "relink", "refree", "test", "atest",
           "handle", "sigcancel", "htest", "happ", "sigret", "exit", "link", "free", "gone"}

(* The types of the variables; nobody is ready twice, and the ready        *)
(* threads are alive.                                                      *)
TypeOK ==
    /\ k.cur \in Threads /\ k.ready \in Seq(Threads \ (IF k.halted THEN {} ELSE {k.cur}))
    /\ \A i, j \in DOMAIN k.ready : i # j => k.ready[i] # k.ready[j]
    /\ \A i \in DOMAIN k.ready : Alive(k.ready[i])
    /\ k.pending \in [Threads -> SUBSET SignalSet]
    /\ k.blocked \in [Threads -> SUBSET SignalSet]
    /\ k.ppending \subseteq SignalSet
    /\ \A t \in Threads : k.ctx[t].at \in Places
    /\ pt \in [Threads -> [requested : BOOLEAN, enabled : BOOLEAN, async : BOOLEAN,
                           detached : BOOLEAN, next : Threads]]

(* The FPU seen by user code is always its own: whatever switches, traps,  *)
(* signal deliveries and returns happen, an instruction of the thread that *)
(* runs in user space finds the state its own code (or an edit of the      *)
(* frame by its own handler) left, in the registers when TS is clear and   *)
(* otherwise in the area #NM loads; a thread that does not run has it in   *)
(* its area; and the kernel never executes an FPU instruction that faults  *)
(* (save_fpu_state, restore_fpu_state, use_fpu and the signal functions).  *)
FpuIsOwn ==
    LET f == k.fpu
    IN  /\ ~ f.fault
        /\ \A t \in Threads : Alive(t) =>
             IF Running(t)
               THEN IF f.uses[t] THEN ~ f.ts /\ f.regs = k.ctx[t].own
                                 ELSE f.ts /\ f.area[t] = k.ctx[t].own
               ELSE k.halted \/ f.area[t] = k.ctx[t].own

(* No signal is lost or delivered twice: every pending bit that was set is *)
(* still pending, was delivered once, was dropped because the stack had no *)
(* room, or was discarded when the thread it was for was started again     *)
(* (check_for_signal, signal_thread, signal_process, thread_prepare).      *)
SignalsAccounted ==
    \A s \in SignalSet :
        k.posted[s] = k.handled[s] + k.dropped[s] + k.forgotten[s]
                        + Cardinality({t \in Threads : s \in k.pending[t]})
                        + Cardinality({s} \cap k.ppending)

(* A request for cancellation takes effect: application code never runs    *)
(* with a request outstanding while cancellation is enabled and            *)
(* asynchronous, and SIGCANCEL is never blocked outside its own handler,   *)
(* unless a delivery was dropped (do_testcancel, sigprocmask,              *)
(* pthread_create, check_for_signal and the return from a signal).         *)
CancellationHonoured ==
    \A t \in Threads : Alive(t) =>
        /\ k.ctx[t].at \in {"app", "take", "create"} => ~ MustExit(pt[t], TRUE)
        /\ (SIGCANCEL \in k.blocked[t] /\ k.dropped[SIGCANCEL] = 0)
             => \E i \in DOMAIN k.frames[t] : k.frames[t][i].signo = SIGCANCEL

(* A thread that was cancelled is interrupted for it, or ends: once its    *)
(* SIGCANCEL is pending it does not stay so, unless the thread waits for   *)
(* another one, the kernel panicked or an earlier delivery was dropped     *)
(* (pthread_cancel, check_for_signal, reschedule, the return from a        *)
(* handler and the exit of a thread).                                      *)
CancellationDelivered ==
    \A t \in Threads :
        SIGCANCEL \in k.pending[t] ~>
            \/ SIGCANCEL \notin k.pending[t] \/ k.halted \/ ~ Alive(t)
            \/ k.dropped[SIGCANCEL] > 0
            \/ \E u \in Threads \ {t} : k.awaiter[u] = t /\ Alive(u)

(* A signal handler that returns leaves the interrupted code its           *)
(* registers: trap.asm, "we want to use the full "return from interrupt"   *)
(* path to makes sure all registers are restored".                         *)
InterruptedRegistersRestored ==
    [][At("sigret") /\ Len(k'.frames[cur]) = Len(k.frames[cur]) - 1
         => k'.ctx[cur] = Top(cur).ctx]_vars
=============================================================================
