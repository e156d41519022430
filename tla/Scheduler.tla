----------------------------- MODULE Scheduler ------------------------------
(***************************************************************************)
(* The thread scheduler of kernel/domain/services/scheduler.c.  There is   *)
(* one CPU and interrupts are disabled in the kernel, so a path through    *)
(* the kernel runs without interruption until it switches thread.  The     *)
(* operators below are the functions of scheduler.c; the modules of their  *)
(* callers build actions from them.                                        *)
(***************************************************************************)
EXTENDS Integers, Sequences, Functions

CONSTANTS Threads,      \* thread objects
          NULL,         \* the null pointer
          BaseCredits,  \* SCHEDULER_BASE_CREDITS
          MaxCredits    \* bound on the credits a thread accumulates

ASSUME SchedulerAssumption ==
    /\ NULL \notin Threads
    /\ BaseCredits \in Nat \ {0}
    /\ MaxCredits \in Nat
    /\ BaseCredits <= MaxCredits

VARIABLES current,  \* get_current_thread(), NULL once the kernel panicked
          tstate,   \* thread->state
          ready,    \* ready_queue.queue
          credits   \* thread->cpu_credits

schedVars == <<current, tstate, ready, credits>>

ThreadStates == {"CREATED", "READY", "RUNNING", "BLOCKED", "ZOMBIE"}

SchedTypeOK ==
    /\ current \in Threads \cup {NULL}
    /\ tstate \in [Threads -> ThreadStates]
    /\ ready \in Seq(Threads)
    /\ credits \in [Threads -> 0..MaxCredits]

(* The ready queue holds the ready threads, each of them once, and the     *)
(* thread that runs is the current one.                                    *)
ReadyQueueConsistent ==
    /\ IsInjective(ready)
    /\ \A t \in Threads :
        /\ t \in Range(ready) <=> tstate[t] = "READY"
        /\ t = current <=> tstate[t] = "RUNNING"

(* Boot: thread_run_first switches to the loader's thread; its credits are *)
(* the zero that thread_prepare gave it.                                   *)
SchedInit(boot) ==
    /\ current = boot
    /\ tstate = [t \in Threads |-> IF t = boot THEN "RUNNING" ELSE "CREATED"]
    /\ ready = <<>>
    /\ credits = [t \in Threads |-> 0]

-----------------------------------------------------------------------------
(* The cpu_credits += SCHEDULER_BASE_CREDITS of select_next_ready_thread,  *)
(* saturated at MaxCredits.                                                *)
Credited(t) ==
    [credits EXCEPT ![t] = IF @ + BaseCredits > MaxCredits
                             THEN MaxCredits ELSE @ + BaseCredits]

(* ready_thread on each thread of a sequence, in order.                    *)
ReadyThreads(woken) ==
    /\ ready' = ready \o woken
    /\ tstate' = [t \in Threads |->
                    IF t \in Range(woken) THEN "READY" ELSE tstate[t]]
    /\ UNCHANGED <<current, credits>>

(* block_current_thread_and_unlock and switch_from_exiting_thread: after   *)
(* the threads in woken were readied, the current thread gives up the CPU  *)
(* in state s to the head of the ready queue.  When that queue is empty    *)
(* select_next_ready_thread panics and nothing runs any more.              *)
SwitchAway(s, woken) ==
    LET queue == ready \o woken
        to == IF queue = <<>> THEN NULL ELSE Head(queue)
    IN  /\ current' = to
        /\ ready' = IF queue = <<>> THEN <<>> ELSE Tail(queue)
        /\ tstate' = [t \in Threads |->
                        IF t = to THEN "RUNNING"
                        ELSE IF t = current THEN s
                        ELSE IF t \in Range(woken) THEN "READY"
                        ELSE tstate[t]]
        /\ credits' = IF to = NULL THEN credits ELSE Credited(to)

(* switch_to_thread: the current thread stays ready, at the tail.          *)
SwitchTo(to) ==
    /\ current' = to
    /\ ready' = Append(ready, current)
    /\ tstate' = [tstate EXCEPT ![current] = "READY", ![to] = "RUNNING"]
    /\ UNCHANGED credits

(* switch_to_thread_and_block: the current thread blocks, to runs.         *)
SwitchToAndBlock(to) ==
    /\ current' = to
    /\ tstate' = [tstate EXCEPT ![current] = "BLOCKED", ![to] = "RUNNING"]
    /\ UNCHANGED <<ready, credits>>

(* A plausible mistake: the preempted thread goes to the head of the queue *)
(* (list_push instead of list_enqueue).                                    *)
ReschedulePush ==
    IF credits[current] > 0
      THEN UNCHANGED schedVars
      ELSE LET to == IF ready = <<>> THEN current ELSE Head(ready)
           IN  /\ credits' = Credited(to)
               /\ current' = to
               /\ ready' = IF ready = <<>> THEN <<>>
                             ELSE <<current>> \o Tail(ready)
               /\ tstate' = IF ready = <<>> THEN tstate
                              ELSE [tstate EXCEPT ![current] = "READY",
                                                  ![to] = "RUNNING"]

(* reschedule: preempt the current thread if it is out of credits.         *)
Reschedule ==
    IF credits[current] > 0
      THEN UNCHANGED schedVars
      ELSE LET to == IF ready = <<>> THEN current ELSE Head(ready)
           IN  /\ credits' = Credited(to)
               /\ current' = to
               /\ ready' = IF ready = <<>> THEN <<>>
                             ELSE Append(Tail(ready), current)
               /\ tstate' = IF ready = <<>> THEN tstate
                              ELSE [tstate EXCEPT ![current] = "READY",
                                                  ![to] = "RUNNING"]

(* A plausible mistake: no test before the decrement.                      *)
SchedulerTickUnchecked ==
    /\ credits' = [credits EXCEPT ![current] = @ - 1]
    /\ UNCHANGED <<current, tstate, ready>>

(* scheduler_tick, from the timer interrupt.                               *)
SchedulerTick ==
    /\ credits' = [credits EXCEPT ![current] = IF @ > 0 THEN @ - 1 ELSE @]
    /\ UNCHANGED <<current, tstate, ready>>

(* yield_current_thread: the switch is left to the reschedule that ends    *)
(* the system call.                                                        *)
YieldCurrentThread ==
    /\ credits' = [credits EXCEPT ![current] = 0]
    /\ UNCHANGED <<current, tstate, ready>>
=============================================================================
