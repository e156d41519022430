---------------------------- MODULE CancelProofs ----------------------------
(***************************************************************************)
(* Every action of Cancel preserves its inductive invariant: the steps in  *)
(* user space, and the system calls as paths through the kernel.           *)
(***************************************************************************)
EXTENDS CancelKernelProofs

(* Steps in user space: the FPU registers get a new value, which is the    *)
(* thread's own; the stack is moved; a handler edits the frame on top; a   *)
(* page fault halts the kernel.                                            *)
OwnChange(k1, kk) ==
    LET t == kk.cur
    IN  /\ UserChanges(k1, kk) /\ k1.blocked = kk.blocked /\ k1.frames = kk.frames
        /\ k1.stackok \in [Threads -> BOOLEAN] /\ k1.ctx \in [Threads -> ContextType]
        /\ k1.ctx[t].at = kk.ctx[t].at
        /\ FpuTyped(k1.fpu) /\ ~ k1.fpu.fault /\ Held(k1.fpu, t, k1.ctx[t].own)
        /\ OthersSame(k1.fpu, kk.fpu, t)

(* A change of the FPU registers or of the stack of the current thread.    *)
LEMMA OwnChangeStep ==
    ASSUME NEW kk, NEW k1, KernelInv(kk), OwnChange(k1, kk)
    PROVE  /\ KernelInv(k1) /\ (CurrentRuns(kk) => CurrentRuns(k1)) /\ k1.state = kk.state
           /\ \A t \in Threads, place \in Places : Visits(k1, t, place) <=> Visits(kk, t, place)
<1> DEFINE t == kk.cur
<1>1. t \in Threads /\ UserTyped(k1) /\ Nested(kk.ctx[t], kk.frames[t])
  BY DEF KernelInv, KernelTyped, SchedTyped, UserTyped, OwnChange, FramesNest
<1>2. Nested(k1.ctx[t], k1.frames[t])
  BY <1>1 DEF Nested, OwnChange
<1>3. KernelInv(k1) /\ (CurrentRuns(kk) => CurrentRuns(k1))
  BY <1>1, <1>2, UserChangesStep DEF OwnChange
<1>4. \A u \in Threads : k1.ctx[u].at = kk.ctx[u].at
  BY DEF OwnChange, UserChanges
<1> QED
  BY <1>3, <1>4 DEF OwnChange, UserChanges, Visits, VisitedBy

-----------------------------------------------------------------------------
(* What most steps leave alone: a thread may exit, but none is started; no *)
(* thread gets into pthread_create, and only a detached one into           *)
(* free_thread_to_pool; and one that is about to notice a request, or      *)
(* ends, goes on doing so.                                                 *)
Quiet(k1) ==
    \A t \in Threads :
        /\ k1.state[t] = k.state[t] \/ (Live(k, t) /\ k1.state[t] = "zombie")
        /\ \A place \in Creating : Visits(k1, t, place) => Visits(k, t, place)
        /\ Frees(k1, t) => Frees(k, t) \/ pt[t].detached
        /\ Live(k1, t) /\ Ends(k, t) => Ends(k1, t)

(* What two kernel states in a row have in common: whoever was quiet in    *)
(* the first is in the second.                                             *)
LEMMA QuietFollows ==
    ASSUME NEW k1, NEW k2, Quiet(k1), k2.state = k1.state, SameVisits(k2, k1)
    PROVE  Quiet(k2)
<1>1. \A t \in Threads, place \in Creating \cup Freeing \cup Ending :
        Visits(k2, t, place) <=> Visits(k1, t, place)
  BY DEF SameVisits, Creating, Freeing, Ending, Places
<1> QED
  BY <1>1 DEF Quiet, Frees, Ends, Live

(* A thread that goes on, other than into pthread_create or back from its  *)
(* end, is quiet.                                                          *)
LEMMA GoQuiet ==
    ASSUME NEW k1, NEW place, Goes(k1, place), place \notin Creating, cur \in Threads,
           place \in Freeing => k.ctx[cur].at \in Freeing \/ pt[cur].detached,
           k.ctx[cur].at \in Ending => place \in Ending
    PROVE  Quiet(k1)
<1>1. ASSUME NEW t \in Threads, NEW p, p # k.ctx[cur].at, Visits(k, t, p)
      PROVE  Visits(k1, t, p)
  BY <1>1 DEF Goes, Visits, VisitedBy
<1>2. ASSUME NEW t \in Threads, NEW p, p # place, Visits(k1, t, p)
      PROVE  Visits(k, t, p)
  BY <1>2 DEF Goes, Visits, VisitedBy
<1>3. Visits(k1, cur, place) /\ k1.state = k.state
  BY DEF Goes, Visits, VisitedBy
<1>4. ASSUME NEW t \in Threads, Ends(k, t) PROVE Ends(k1, t)
  <2>1. PICK p \in Ending : Visits(k, t, p)
    BY <1>4 DEF Ends
  <2>2. CASE Visits(k1, t, p)
    BY <2>1, <2>2 DEF Ends
  <2>3. CASE ~ Visits(k1, t, p)
    <3>1. p = k.ctx[cur].at
      BY <1>1, <2>1, <2>3
    <3>2. t = cur
      BY <2>1, <2>3 DEF Goes, Visits
    <3> QED
      BY <1>3, <2>1, <3>1, <3>2 DEF Ends
  <2> QED
    BY <2>2, <2>3
<1>5. ASSUME NEW t \in Threads, Frees(k1, t) PROVE Frees(k, t) \/ pt[t].detached
  <2>1. PICK p \in Freeing : Visits(k1, t, p)
    BY <1>5 DEF Frees
  <2>2. CASE Visits(k, t, p)
    BY <2>1, <2>2 DEF Frees
  <2>3. CASE ~ Visits(k, t, p)
    <3>1. p = place
      BY <1>2, <2>1, <2>3
    <3>2. t = cur
      BY <2>1, <2>3 DEF Goes, Visits
    <3> QED
      BY <2>1, <3>1, <3>2 DEF Frees, Visits, VisitedBy
  <2> QED
    BY <2>2, <2>3
<1>6. \A t \in Threads, p \in Creating : Visits(k1, t, p) => Visits(k, t, p)
  BY <1>2
<1> QED
  BY <1>3, <1>4, <1>5, <1>6 DEF Quiet

(* A step of user space keeps the invariant of the kernel.                 *)
LEMMA UserAction ==
    ASSUME InUser(k), ~ k.halted, NEW place, UserStep(place), Leads(k.ctx[cur].at, place)
    PROVE  InUser(k') /\ Goes(k', place) /\ cur \in Threads
<1>1. KernelInv(k') /\ CurrentRuns(k') /\ k'.fpu = k.fpu /\ Goes(k', place)
  BY GoStep DEF UserStep
<1> QED
  BY <1>1 DEF InUser, Goes, cur, KernelInv, KernelTyped, SchedTyped

(* A step of user space that neither creates a thread nor comes back from  *)
(* the end of one.                                                         *)
LEMMA QuietAction ==
    ASSUME InUser(k), ~ k.halted, NEW place, UserStep(place), Leads(k.ctx[cur].at, place),
           place \notin Creating,
           place \in Freeing => k.ctx[cur].at \in Freeing \/ pt[cur].detached,
           k.ctx[cur].at \in Ending => place \in Ending
    PROVE  InUser(k') /\ Quiet(k') /\ Visits(k', cur, place)
BY UserAction, GoQuiet DEF Goes, Visits, VisitedBy

(* A system call of user space, from the trap to the return.               *)
LEMMA TrapAction ==
    ASSUME InUser(k), ~ k.halted, NEW place, NEW k1, NEW k2, k1 = Go(k, place),
           Leads(k.ctx[cur].at, place), place \notin Creating \cup Freeing,
           k.ctx[cur].at \notin Ending,
           KernelInv(k2), CurrentRuns(k2), Follows(k2, k1), Trap(k2)
    PROVE  InUser(k') /\ Quiet(k')
<1>1. Goes(k1, place) /\ cur \in Threads
  BY GoStep DEF InUser, KernelInv, KernelTyped, SchedTyped, cur
<1>2. Quiet(k2)
  BY <1>1, GoQuiet, QuietFollows DEF Follows
<1>3. InUser(k') /\ Follows(k', k2)
  BY TrapReturnsStep DEF Trap
<1> QED
  BY <1>2, <1>3, QuietFollows DEF Follows

(* Applications call the library from a place under no signal frame.       *)
LEMMA FromApp ==
    ASSUME NEW at, at \in {"entry", "init", "app", "take", "create"}
    PROVE  /\ at \notin Ending
           /\ \A place \in BasePlaces : Leads(at, place)
BY DEF Ending, Leads, BasePlaces, HandlerPlaces

(* The entry of a thread and the start of the C library.                   *)
LEMMA EntryActions ==
    ASSUME InUser(k), ThreadEntry \/ LibcSignalInit
    PROVE  InUser(k') /\ Quiet(k')
<1>1. PICK place \in {"init", "app"} :
        /\ ~ k.halted /\ k.ctx[cur].at \in {"entry", "init"}
        /\ \E k2 \in {SetThreadLocal(Go(k, place)), SetSignalHandler(Go(k, place))} : Trap(k2)
  BY DEF ThreadEntry, LibcSignalInit, At
<1>2. Leads(k.ctx[cur].at, place) /\ k.ctx[cur].at \notin Ending
  BY <1>1, FromApp DEF BasePlaces
<1> PICK k2 \in {SetThreadLocal(Go(k, place)), SetSignalHandler(Go(k, place))} : Trap(k2)
  BY <1>1
<1>3. KernelInv(Go(k, place)) /\ CurrentRuns(Go(k, place))
  BY <1>1, <1>2, GoStep
<1>4. KernelInv(k2) /\ CurrentRuns(k2) /\ Follows(k2, Go(k, place))
  BY <1>3, FlagStep
<1> QED
  BY <1>1, <1>2, <1>4, TrapAction DEF Creating, Freeing

(* sigprocmask, from the trap to the return.                               *)
LEMMA SigprocmaskAction ==
    ASSUME InUser(k), NEW how \in {"block", "unblock", "setmask"},
           NEW set \in SUBSET SignalSet, Sigprocmask(how, set)
    PROVE  InUser(k') /\ Quiet(k')
<1> DEFINE iset == IF how = "unblock" THEN set ELSE set \ {SIGCANCEL}
<1>1. PICK place \in {"app", "happ"} :
        /\ ~ k.halted /\ k.ctx[cur].at = place
        /\ Trap(GetSetSignalMask(Go(k, place), how, iset))
  BY DEF Sigprocmask, At
<1> DEFINE k1 == Go(k, place)
           k2 == GetSetSignalMask(k1, how, iset)
<1>2. Leads(k.ctx[cur].at, place) /\ k.ctx[cur].at \notin Ending
  BY <1>1 DEF Leads, BasePlaces, HandlerPlaces, Ending
<1>3. KernelInv(k1) /\ CurrentRuns(k1)
  BY <1>1, <1>2, GoStep
<1>4. iset \in SUBSET SignalSet /\ (how = "unblock" \/ SIGCANCEL \notin iset)
  OBVIOUS
<1>5. KernelInv(k2) /\ CurrentRuns(k2) /\ Follows(k2, k1)
  BY <1>1, <1>3, <1>4, SigmaskStep
<1> QED
  BY <1>1, <1>2, <1>5, TrapAction DEF Creating, Freeing

(* pthread_kill, kill and pthread_cancel, whatever the signal.             *)
LEMMA SendActions ==
    ASSUME InUser(k), NEW t \in Threads, NEW s \in SignalSet,
           PthreadKill(t, s) \/ KillProcess(s) \/ PthreadCancel(t)
    PROVE  InUser(k') /\ Quiet(k')
<1> DEFINE k1 == Go(k, "app")
<1>1. PICK x \in SignalSet :
        /\ ~ k.halted /\ k.ctx[cur].at = "app"
        /\ \E k2 \in {SignalThread(k1, t, x), SignalProcess(k1, x)} : Trap(k2)
  BY CancelAssumption DEF PthreadKill, KillProcess, PthreadCancel, AppCalls
<1> PICK k2 \in {SignalThread(k1, t, x), SignalProcess(k1, x)} : Trap(k2)
  BY <1>1
<1>2. Leads(k.ctx[cur].at, "app") /\ k.ctx[cur].at \notin Ending
  BY <1>1, FromApp DEF BasePlaces
<1>3. KernelInv(k1) /\ CurrentRuns(k1)
  BY <1>1, <1>2, GoStep
<1>4. KernelInv(k2) /\ CurrentRuns(k2) /\ Follows(k2, k1)
  BY <1>1, <1>3, SignalThreadStep, SignalProcessStep
<1> QED
  BY <1>1, <1>2, <1>4, TrapAction DEF Creating, Freeing

(* A timer tick in user space.                                             *)
LEMMA TickAction ==
    ASSUME InUser(k), Tick
    PROVE  InUser(k') /\ Quiet(k')
<1>1. Quiet(k)
  BY DEF Quiet
<1>2. InUser(k') /\ Follows(k', k)
  BY TrapReturnsStep DEF Tick, Trap, InUser
<1> QED
  BY <1>1, <1>2, QuietFollows DEF Follows

(* pthread_join, whether it waits or not.                                  *)
LEMMA JoinAction ==
    ASSUME InUser(k), NEW t \in Threads, PthreadJoin(t)
    PROVE  InUser(k') /\ Quiet(k')
<1> DEFINE k1 == Go(k, "app")
<1>1. ~ k.halted /\ k.ctx[cur].at = "app" /\ k' \in AwaitThread(k1, t)
  BY DEF PthreadJoin, AppCalls
<1>2. Leads(k.ctx[cur].at, "app") /\ k.ctx[cur].at \notin Ending
  BY <1>1, FromApp DEF BasePlaces
<1>3. /\ KernelInv(k1) /\ CurrentRuns(k1) /\ ~ k1.halted /\ Goes(k1, "app")
      /\ cur \in Threads
  BY <1>1, <1>2, GoStep DEF InUser, KernelInv, KernelTyped, SchedTyped, cur
<1> HIDE DEF k1
<1>4. InUser(k') /\ SameVisits(k', k1) /\ k'.state = k1.state
  BY <1>1, <1>3, AwaitThreadStep
<1> QED
  BY <1>2, <1>3, <1>4, GoQuiet, QuietFollows DEF Creating, Freeing

(* jinue_exit_thread.                                                      *)
LEMMA ExitAction ==
    ASSUME InUser(k), JinueExitThread
    PROVE  InUser(k') /\ Quiet(k')
<1> DEFINE k1 == Go(k, "gone")
<1>1. ~ k.halted /\ k.ctx[cur].at = "gone" /\ k' = ExitThread(k1)
  BY DEF JinueExitThread, At
<1>2. /\ KernelInv(k1) /\ CurrentRuns(k1) /\ ~ k1.halted /\ Goes(k1, "gone")
      /\ cur \in Threads
  BY <1>1, GoStep DEF Leads, InUser, KernelInv, KernelTyped, SchedTyped, cur
<1>3. Quiet(k1)
  BY <1>1, <1>2, GoQuiet DEF Ending, Creating, Freeing
<1> HIDE DEF k1
<1>4. InUser(k') /\ SameVisits(k', k1) /\ k'.state = [k1.state EXCEPT ![cur] = "zombie"]
  BY <1>1, <1>2, ExitThreadStep DEF Goes
<1>5. Live(k, cur) /\ k1.state = k.state /\ k.state \in [Threads -> {"created", "running", "zombie"}]
  BY <1>1, <1>2 DEF Goes, InUser, CurrentRuns, cur, KernelInv, KernelTyped, SchedTyped
<1>6. \A t \in Threads, place \in Creating \cup Freeing \cup Ending :
        Visits(k', t, place) <=> Visits(k1, t, place)
  BY <1>4 DEF SameVisits, Creating, Freeing, Ending, Places
<1>7. \A t \in Threads : (Ends(k', t) <=> Ends(k1, t)) /\ (Frees(k', t) <=> Frees(k1, t))
  BY <1>6 DEF Ends, Frees
<1>8. \A t \in Threads : t # cur => k'.state[t] = k.state[t]
  BY <1>4, <1>5
<1>9. k'.state[cur] = "zombie"
  BY <1>2, <1>4, <1>5
<1> QED
  BY <1>3, <1>4, <1>5, <1>6, <1>7, <1>8, <1>9 DEF Quiet, Live

(* jinue_return_from_signal, at the end of a handler.                      *)
LEMMA ReturnAction ==
    ASSUME InUser(k), JinueReturnFromSignal
    PROVE  InUser(k') /\ Quiet(k')
<1> DEFINE k1 == ReturnFromSignal(k)
<1>1. ~ k.halted /\ k.ctx[cur].at = "sigret" /\ Trap(k1)
  BY DEF JinueReturnFromSignal, At
<1>2. KernelInv(k) /\ CurrentRuns(k) /\ FpuLoaded(k.fpu, k.cur)
  BY <1>1 DEF InUser
<1>3. /\ KernelInv(k1) /\ CurrentRuns(k1) /\ k1.state = k.state
      /\ \A t \in Threads, place \in Places \ {"sigret"} :
           Visits(k1, t, place) <=> Visits(k, t, place)
  BY <1>1, <1>2, ReturnFromSignalStep DEF cur
<1> HIDE DEF k1
<1>4. Quiet(k1)
  BY <1>3 DEF Quiet, Frees, Ends, Creating, Freeing, Ending, Places, Live
<1>5. InUser(k') /\ Follows(k', k1)
  BY <1>1, <1>3, TrapReturnsStep DEF Trap
<1> QED
  BY <1>4, <1>5, QuietFollows DEF Follows

(* Steps that change the FPU state or the stack of the current thread, and *)
(* a page fault in user space.                                             *)
LEMMA OwnQuiet ==
    ASSUME NEW k1, NEW k2, KernelInv(k1), CurrentRuns(k1), Quiet(k1), OwnChange(k2, k1)
    PROVE  KernelInv(k2) /\ CurrentRuns(k2) /\ Quiet(k2)
<1>1. /\ KernelInv(k2) /\ CurrentRuns(k2) /\ k2.state = k1.state
      /\ \A t \in Threads, place \in Places : Visits(k2, t, place) <=> Visits(k1, t, place)
  BY OwnChangeStep
<1> QED
  BY <1>1, QuietFollows DEF SameVisits

(* The thread computes with the FPU.                                       *)
LEMMA ComputeAction ==
    ASSUME InUser(k), Compute
    PROVE  InUser(k') /\ Quiet(k')
<1> DEFINE v == <<cur, Len(k.frames[cur])>>
           c == k.ctx[cur]
<1>1. /\ ~ k.halted /\ KernelInv(k) /\ CurrentRuns(k) /\ FpuLoaded(k.fpu, cur)
      /\ IsKernel(k) /\ SchedTyped(k) /\ UserTyped(k) /\ FpuTyped(k.fpu) /\ cur \in Threads
      /\ ~ k.fpu.fault /\ Held(k.fpu, cur, c.own)
  BY DEF Compute, At, InUser, KernelInv, KernelTyped, SchedTyped, FpuKept, cur
<1>2. Quiet(k) /\ c \in ContextType
  BY <1>1 DEF Quiet, UserTyped
<1>3. CASE k.fpu.ts
  <2> DEFINE g == UseFpu(k.fpu, cur)
             k1 == [k EXCEPT !.fpu = g]
  <2>1. Trap(k1)
    BY <1>1, <1>3 DEF Compute
  <2>2. FpuTyped(g) /\ ~ g.fault /\ Held(g, cur, c.own) /\ OthersSame(g, k.fpu, cur)
    BY <1>1, <1>3, UseFpuHolds
  <2> HIDE DEF g
  <2>3. /\ IsKernel(k1) /\ SameSched(k1, k) /\ SameCounts(k1, k) /\ SameUser(k1, k)
        /\ k1.fpu = g
    BY <1>1 DEF IsKernel, KernelFields, SameSched, SameCounts, SameUser
  <2> HIDE DEF k1
  <2>4. OwnChange(k1, k)
    BY <1>1, <2>2, <2>3
       DEF OwnChange, UserChanges, SameSched, SameUser, SchedTyped, UserTyped, cur
  <2>5. KernelInv(k1) /\ CurrentRuns(k1) /\ Quiet(k1)
    BY <1>1, <1>2, <2>4, OwnQuiet
  <2>6. InUser(k') /\ Follows(k', k1)
    BY <2>1, <2>5, TrapReturnsStep DEF Trap
  <2> QED
    BY <2>5, <2>6, QuietFollows DEF Follows
<1>4. CASE ~ k.fpu.ts
  <2> DEFINE g == [k.fpu EXCEPT !.regs = v]
             c1 == [[c EXCEPT !.own = v] EXCEPT !.args = "mine"]
  <2>1. k' = [k EXCEPT !.fpu.regs = v, !.ctx[cur].own = v, !.ctx[cur].args = "mine"]
    BY <1>4 DEF Compute
  <2>2. v \in FpuValues
    BY <1>1 DEF FpuValues, UserTyped
  <2> HIDE DEF v
  <2>3. k' = [k EXCEPT !.fpu = g, !.ctx = [@ EXCEPT ![cur] = c1]]
    BY <1>1, <2>1 DEF IsKernel, KernelFields, UserTyped
  <2>4. c1 \in ContextType /\ c1.at = c.at /\ c1.own = v
    BY <1>2, <2>2 DEF ContextType
  <2>5. /\ FpuTyped(g) /\ g.regs = v /\ g.ts = k.fpu.ts /\ g.fault = k.fpu.fault
        /\ g.area = k.fpu.area /\ g.uses = k.fpu.uses /\ g.saved = k.fpu.saved
    BY <1>1, <2>2 DEF FpuTyped, IsFpu, FpuFields
  <2> HIDE DEF g, c1
  <2>6. /\ IsKernel(k') /\ SameSched(k', k) /\ SameCounts(k', k) /\ k'.fpu = g
        /\ k'.ctx = [k.ctx EXCEPT ![cur] = c1] /\ k'.frames = k.frames
        /\ k'.blocked = k.blocked /\ k'.stackok = k.stackok
    BY <1>1, <2>3 DEF IsKernel, KernelFields, SameSched, SameCounts
  <2>7. /\ k'.ctx \in [Threads -> ContextType] /\ k'.ctx[cur] = c1
        /\ \A u \in Threads \ {cur} : k'.ctx[u] = k.ctx[u]
    BY <1>1, <2>4, <2>6 DEF UserTyped
  <2>8. /\ ~ g.fault /\ Held(g, cur, v) /\ OthersSame(g, k.fpu, cur) /\ FpuLoaded(g, cur)
    BY <1>1, <1>4, <2>5 DEF Held, OthersSame, FpuLoaded
  <2>9. UserChanges(k', k)
    BY <1>1, <2>6, <2>7 DEF UserChanges, SameSched, SchedTyped, cur
  <2>10. OwnChange(k', k)
    BY <1>1, <2>4, <2>5, <2>6, <2>7, <2>8, <2>9 DEF OwnChange, UserTyped, cur
  <2>11. KernelInv(k') /\ CurrentRuns(k') /\ Quiet(k')
    BY <1>1, <1>2, <2>10, OwnQuiet
  <2> QED
    BY <2>6, <2>8, <2>11 DEF InUser, SameSched, cur
<1> QED
  BY <1>3, <1>4

(* The thread moves its stack pointer.                                     *)
LEMMA MoveStackAction ==
    ASSUME InUser(k), MoveStack
    PROVE  InUser(k') /\ Quiet(k')
<1> DEFINE k1 == Go(k, "app")
<1>1. ~ k.halted /\ k.ctx[cur].at = "app" /\ k' = [k1 EXCEPT !.stackok[cur] = ~ @]
  BY DEF MoveStack, AppCalls
<1>2. Leads(k.ctx[cur].at, "app") /\ k.ctx[cur].at \notin Ending
  BY <1>1, FromApp DEF BasePlaces
<1>3. KernelInv(k1) /\ CurrentRuns(k1) /\ k1.fpu = k.fpu /\ Goes(k1, "app") /\ ~ k1.halted
  BY <1>1, <1>2, GoStep
<1> HIDE DEF k1
<1>4. /\ IsKernel(k1) /\ SchedTyped(k1) /\ UserTyped(k1) /\ FpuTyped(k1.fpu) /\ cur \in Threads
      /\ ~ k1.fpu.fault /\ Held(k1.fpu, cur, k1.ctx[cur].own) /\ k1.cur = cur
  BY <1>3 DEF Goes, KernelInv, KernelTyped, SchedTyped, FpuKept
<1>5. Quiet(k1) /\ FpuLoaded(k1.fpu, cur)
  BY <1>1, <1>2, <1>3, <1>4, GoQuiet DEF Creating, Freeing, InUser, cur
<1>6. /\ IsKernel(k') /\ SameSched(k', k1) /\ SameCounts(k', k1) /\ k'.fpu = k1.fpu
      /\ k'.ctx = k1.ctx /\ k'.frames = k1.frames /\ k'.blocked = k1.blocked
      /\ k'.stackok = [k1.stackok EXCEPT ![cur] = ~ @]
  BY <1>1, <1>4 DEF IsKernel, KernelFields, SameSched, SameCounts
<1>7. k'.stackok \in [Threads -> BOOLEAN] /\ k'.ctx \in [Threads -> ContextType]
  BY <1>4, <1>6 DEF UserTyped
<1>8. UserChanges(k', k1)
  BY <1>4, <1>6 DEF UserChanges, SameSched, SchedTyped
<1>9. OwnChange(k', k1)
  BY <1>4, <1>6, <1>7, <1>8 DEF OwnChange, OthersSame
<1>10. KernelInv(k') /\ CurrentRuns(k') /\ Quiet(k')
  BY <1>3, <1>5, <1>9, OwnQuiet
<1> QED
  BY <1>4, <1>5, <1>6, <1>10 DEF InUser, SameSched

(* A page fault halts the kernel, which stays as it is.                    *)
LEMMA FaultAction ==
    ASSUME InUser(k), ~ k.halted, k' = [k EXCEPT !.halted = TRUE]
    PROVE  InUser(k') /\ Quiet(k')
<1>1. /\ KernelInv(k) /\ CurrentRuns(k) /\ IsKernel(k) /\ SchedTyped(k) /\ UserTyped(k)
      /\ FpuTyped(k.fpu) /\ ~ k.fpu.fault /\ Held(k.fpu, k.cur, k.ctx[k.cur].own)
  BY DEF InUser, KernelInv, KernelTyped, FpuKept
<1>2. Quiet(k)
  BY DEF Quiet
<1>3. /\ IsKernel(k') /\ SameCounts(k', k) /\ SameUser(k', k) /\ k'.fpu = k.fpu
      /\ k'.cur = k.cur /\ k'.ready = k.ready /\ k'.halted = TRUE /\ k'.handler = k.handler
      /\ k'.cpu = k.cpu /\ k'.state = k.state /\ k'.fresh = k.fresh /\ k'.awaiter = k.awaiter
  BY <1>1 DEF IsKernel, KernelFields, SameCounts, SameUser
<1>4. UserChanges(k', k)
  BY <1>1, <1>3 DEF UserChanges, SameUser, SchedTyped
<1>5. OwnChange(k', k)
  BY <1>1, <1>3, <1>4 DEF OwnChange, SameUser, UserTyped, OthersSame
<1>6. KernelInv(k') /\ CurrentRuns(k') /\ Quiet(k')
  BY <1>1, <1>2, <1>5, OwnQuiet
<1> QED
  BY <1>3, <1>6 DEF InUser

(* A handler edits the FPU state in its frame.                             *)
EditedFrame(f, v) == [f EXCEPT !.fpregs = v, !.ctx.own = v]
Edited(fs, v) == [fs EXCEPT ![Len(fs)] = EditedFrame(fs[Len(fs)], v)]

(* A handler that edits the FPU state in its signal frame changes nothing  *)
(* else of what the frame keeps.                                           *)
LEMMA EditFrame ==
    ASSUME NEW fs \in Seq(FrameType), Len(fs) > 0, NEW v \in FpuValues, NEW c, NEW mask,
           Nested(c, fs)
    PROVE  /\ Edited(fs, v) \in Seq(FrameType) /\ Nested(c, Edited(fs, v))
           /\ Unblocked(mask, fs) => Unblocked(mask, Edited(fs, v))
           /\ \A place : VisitedBy(c, Edited(fs, v), place) <=> VisitedBy(c, fs, place)
<1> DEFINE n == Len(fs)
           f == fs[n]
           fr == EditedFrame(f, v)
           gs == Edited(fs, v)
<1>1. n \in Nat \ {0} /\ DOMAIN fs = 1..n /\ n \in 1..n /\ f \in FrameType
  OBVIOUS
<1>2. f.ctx \in ContextType
  BY <1>1 DEF FrameType
<1>3. /\ fr \in FrameType /\ fr.fpregs = v /\ fr.ctx.own = v /\ fr.ctx.at = f.ctx.at
      /\ fr.signo = f.signo /\ fr.mask = f.mask
  BY <1>1, <1>2 DEF EditedFrame, FrameType, ContextType
<1> HIDE DEF fr
<1>4. /\ gs \in Seq(FrameType) /\ Len(gs) = n /\ DOMAIN gs = 1..n /\ gs[n] = fr
      /\ \A i \in 1..n : i # n => gs[i] = fs[i]
  BY <1>1, <1>3 DEF Edited, fr
<1>5. /\ \A i \in 1..n : gs[i].ctx.at = fs[i].ctx.at /\ gs[i].signo = fs[i].signo
                           /\ gs[i].mask = fs[i].mask
      /\ \A i \in 1..n : fs[i].fpregs = fs[i].ctx.own => gs[i].fpregs = gs[i].ctx.own
  BY <1>3, <1>4
<1>6. /\ Nested(c, gs) /\ (Unblocked(mask, fs) => Unblocked(mask, gs))
      /\ \A place : VisitedBy(c, gs, place) <=> VisitedBy(c, fs, place)
  <2> HIDE DEF f, gs
  <2>1. Nested(c, gs)
    BY <1>1, <1>4, <1>5 DEF Nested
  <2>2. Unblocked(mask, fs) => Unblocked(mask, gs)
    <3>1. DOMAIN gs = DOMAIN fs
          /\ \A i \in DOMAIN fs : gs[i].signo = fs[i].signo /\ gs[i].mask = fs[i].mask
      BY <1>1, <1>4, <1>5
    <3> SUFFICES ASSUME Unblocked(mask, fs)
                 PROVE  Unblocked(mask, gs)
      OBVIOUS
    <3>2. SIGCANCEL \in mask => \E i \in DOMAIN gs : gs[i].signo = SIGCANCEL
      BY <3>1 DEF Unblocked
    <3>3. ASSUME NEW j \in DOMAIN gs, SIGCANCEL \in gs[j].mask
          PROVE  \E i \in DOMAIN gs : i < j /\ gs[i].signo = SIGCANCEL
      <4>1. PICK i \in DOMAIN fs : i < j /\ fs[i].signo = SIGCANCEL
        BY <3>1, <3>3 DEF Unblocked
      <4> QED
        BY <3>1, <4>1
    <3> QED
      BY <3>2, <3>3 DEF Unblocked
  <2>3. \A place : VisitedBy(c, gs, place) <=> VisitedBy(c, fs, place)
    BY <1>1, <1>4, <1>5 DEF VisitedBy
  <2> QED
    BY <2>1, <2>2, <2>3
<1> QED
  BY <1>4, <1>6

(* The return from a handler, with or without an edit of the frame.        *)
LEMMA HandlerReturns ==
    ASSUME InUser(k), NEW edit \in BOOLEAN, ReturnFromHandler(edit)
    PROVE  InUser(k') /\ Quiet(k')
<1> DEFINE k1 == Go(k, "sigret")
           v == <<cur, -1>>
           fs == k.frames[cur]
           n == Len(fs)
           gs == Edited(fs, v)
<1>1. ~ k.halted /\ k.ctx[cur].at = "happ"
  BY DEF ReturnFromHandler, At
<1>2. Leads(k.ctx[cur].at, "sigret") /\ k.ctx[cur].at \notin Ending
  BY <1>1 DEF Leads, BasePlaces, HandlerPlaces, Ending
<1>3. CASE ~ edit
  BY <1>1, <1>2, <1>3, QuietAction DEF ReturnFromHandler, UserStep, Creating, Freeing
<1>4. CASE edit
  <2>1. KernelInv(k1) /\ CurrentRuns(k1) /\ k1.fpu = k.fpu /\ Goes(k1, "sigret") /\ ~ k1.halted
    BY <1>1, <1>2, GoStep
  <2>2. k' = [k1 EXCEPT !.frames[cur][n] = [@ EXCEPT !.fpregs = v, !.ctx.own = v]]
    BY <1>4 DEF ReturnFromHandler
  <2> HIDE DEF k1
  <2>3. /\ IsKernel(k1) /\ SchedTyped(k1) /\ UserTyped(k1) /\ FpuTyped(k1.fpu)
        /\ ~ k1.fpu.fault /\ Held(k1.fpu, cur, k1.ctx[cur].own) /\ k1.cur = cur
        /\ cur \in Threads /\ k1.frames[cur] = fs /\ Nested(k1.ctx[cur], fs)
        /\ k1.ctx[cur].at = "sigret"
    BY <2>1 DEF Goes, KernelInv, KernelTyped, SchedTyped, FpuKept, FramesNest
  <2>4. fs \in Seq(FrameType) /\ n \in Nat
    BY <2>3 DEF UserTyped
  <2>5. n > 0
    BY <2>3, <2>4 DEF Nested, PlacesAt, BasePlaces
  <2>6. v \in FpuValues
    BY <2>3 DEF FpuValues
  <2>7. Quiet(k1) /\ FpuLoaded(k1.fpu, cur)
    BY <1>1, <1>2, <2>1, <2>3, GoQuiet DEF Creating, Freeing, InUser, cur
  <2>8. n \in DOMAIN fs /\ fs[n] \in FrameType
    BY <2>4, <2>5
  <2>9. k' = [k1 EXCEPT !.frames = [@ EXCEPT ![cur] = gs]]
    <3>1. IsKernel(k1) /\ k1.frames[cur] = fs /\ n \in DOMAIN fs
          /\ k1.frames = [x \in Threads |-> k1.frames[x]] /\ cur \in Threads
      BY <2>3, <2>8 DEF UserTyped
    <3> HIDE DEF v, fs, n
    <3>2. k' = [k1 EXCEPT !.frames[cur][n] = EditedFrame(fs[n], v)]
      BY <2>2, <3>1 DEF EditedFrame, IsKernel, KernelFields
    <3> QED
      BY <3>1, <3>2 DEF IsKernel, KernelFields, Edited, n
  <2>10. /\ gs \in Seq(FrameType) /\ Nested(k1.ctx[cur], gs)
         /\ Unblocked(k1.blocked[cur], fs) => Unblocked(k1.blocked[cur], gs)
         /\ \A place : VisitedBy(k1.ctx[cur], gs, place) <=> VisitedBy(k1.ctx[cur], fs, place)
    BY <2>3, <2>4, <2>5, <2>6, EditFrame
  <2> HIDE DEF gs
  <2>11. /\ IsKernel(k') /\ SameSched(k', k1) /\ SameCounts(k', k1) /\ k'.fpu = k1.fpu
         /\ k'.ctx = k1.ctx /\ k'.frames = [k1.frames EXCEPT ![cur] = gs]
         /\ k'.blocked = k1.blocked /\ k'.stackok = k1.stackok
    BY <2>3, <2>9 DEF IsKernel, KernelFields, SameSched, SameCounts
  <2>12. /\ UserTyped(k') /\ k'.frames[cur] = gs
         /\ \A u \in Threads \ {cur} : k'.frames[u] = k1.frames[u]
    BY <2>3, <2>10, <2>11 DEF UserTyped
  <2>13. UserChanges(k', k1)
    BY <2>3, <2>11, <2>12 DEF UserChanges, SameSched, SchedTyped
  <2>14. OthersSame(k'.fpu, k1.fpu, cur)
    BY <2>11 DEF OthersSame
  <2>15. KernelInv(k') /\ CurrentRuns(k')
    BY <2>1, <2>3, <2>10, <2>11, <2>12, <2>13, <2>14, UserChangesStep
  <2>16. SameVisits(k', k1)
    BY <2>3, <2>10, <2>11, <2>12 DEF SameVisits, Visits
  <2> QED
    BY <2>3, <2>7, <2>11, <2>15, <2>16, QuietFollows DEF InUser, SameSched
<1> QED
  BY <1>3, <1>4

-----------------------------------------------------------------------------
(* The actions.  What all of them but those of pthread_create leave alone: *)
(* a thread may exit, but none is started; no thread gets into             *)
(* pthread_create or changes its lists, other than in free_thread_to_pool; *)
(* and one that must exit at once is about to notice, unless it had to     *)
(* before and was not.                                                     *)
Calm ==
    /\ InUser(k') /\ lib' \in LibType /\ pt' \in [Threads -> PthreadType]
    /\ lib'.new = lib.new /\ lib'.candidate = lib.candidate /\ lib'.detach = lib.detach
    /\ lib'.pool # lib.pool => Frees(k, cur)
    /\ \A t \in Threads :
         /\ k'.state[t] = k.state[t] \/ (Live(k, t) /\ k'.state[t] = "zombie")
         /\ \A place \in Creating : Visits(k', t, place) => Visits(k, t, place)
         /\ Frees(k', t) => Frees(k, t) \/ pt[t].detached
         /\ pt'[t].detached = pt[t].detached
         /\ pt'[t].requested => pt[t].requested \/ Live(k, t)
         /\ pt'[t].async => pt[t].async \/ "setcancel" \in app
         /\ Live(k', t) /\ MustExit(pt'[t], TRUE) =>
              Ends(k', t) \/ (MustExit(pt[t], TRUE) /\ ~ Ends(k, t))

(* A quiet step that leaves the structures of the threads alone is calm.   *)
LEMMA QuietCalm ==
    ASSUME Inv, InUser(k'), Quiet(k'), pt' = pt,
           lib' = lib \/ lib' = [lib EXCEPT !.sighandler = TRUE]
             \/ lib' = [lib EXCEPT !.sigcancel = TRUE]
    PROVE  Calm
<1>1. /\ lib' \in LibType /\ lib'.new = lib.new /\ lib'.candidate = lib.candidate
      /\ lib'.pool = lib.pool /\ lib'.detach = lib.detach
  BY DEF Inv, LibType
<1> QED
  BY <1>1 DEF Calm, Inv, Quiet

(* The actions that only change the state of the kernel are calm.          *)
LEMMA CalmKernelActions ==
    ASSUME Inv,
           \/ ThreadEntry \/ LibcSignalInit \/ JinueExitThread \/ JinueReturnFromSignal
           \/ \E edit \in BOOLEAN : ReturnFromHandler(edit)
           \/ Compute \/ MoveStack \/ Tick
           \/ \E how \in {"block", "unblock", "setmask"}, set \in SUBSET SignalSet :
                Sigprocmask(how, set)
           \/ \E t \in Threads, s \in SignalSet : PthreadKill(t, s)
           \/ \E s \in SignalSet : KillProcess(s)
           \/ \E t \in Threads : PthreadCancel(t) \/ PthreadJoin(t)
    PROVE  Calm
<1>1. InUser(k)
  BY DEF Inv
<1>2. CASE ThreadEntry \/ LibcSignalInit
  BY <1>1, <1>2, EntryActions, QuietCalm DEF ThreadEntry, LibcSignalInit
<1>3. CASE JinueExitThread
  BY <1>1, <1>3, ExitAction, QuietCalm DEF JinueExitThread
<1>4. CASE JinueReturnFromSignal
  BY <1>1, <1>4, ReturnAction, QuietCalm DEF JinueReturnFromSignal
<1>5. ASSUME NEW edit \in BOOLEAN, ReturnFromHandler(edit)
      PROVE  Calm
  BY <1>1, <1>5, HandlerReturns, QuietCalm DEF ReturnFromHandler
<1>6. CASE Compute
  BY <1>1, <1>6, ComputeAction, QuietCalm DEF Compute
<1>7. CASE MoveStack
  BY <1>1, <1>7, MoveStackAction, QuietCalm DEF MoveStack
<1>8. CASE Tick
  BY <1>1, <1>8, TickAction, QuietCalm DEF Tick
<1>9. ASSUME NEW how \in {"block", "unblock", "setmask"}, NEW set \in SUBSET SignalSet,
             Sigprocmask(how, set)
      PROVE  Calm
  BY <1>1, <1>9, SigprocmaskAction, QuietCalm DEF Sigprocmask
<1>10. ASSUME NEW t \in Threads, NEW s \in SignalSet,
              PthreadKill(t, s) \/ KillProcess(s) \/ PthreadCancel(t)
       PROVE  Calm
  BY <1>1, <1>10, SendActions, QuietCalm DEF PthreadKill, KillProcess, PthreadCancel
<1>11. ASSUME NEW t \in Threads, PthreadJoin(t)
       PROVE  Calm
  BY <1>1, <1>11, JoinAction, QuietCalm DEF PthreadJoin
<1>12. Main \in Threads /\ SIGCANCEL \in SignalSet
  BY SignalsAssumption, CancelAssumption
<1> QED
  BY <1>2, <1>3, <1>4, <1>5, <1>6, <1>7, <1>8, <1>9, <1>10, <1>11, <1>12

(* Steps in user space that only go on at another place, and the members   *)
(* of the thread structure that the current thread changes.                *)
LEMMA CalmLibraryActions ==
    ASSUME Inv, Sigaction \/ CallExit \/ PthreadTestcancel \/ HandleSignal
    PROVE  Calm
<1>1. InUser(k) /\ pt' = pt /\ ~ k.halted
  BY DEF Inv, Sigaction, CallExit, PthreadTestcancel, HandleSignal, AppCalls, At
<1>2. CASE Sigaction \/ CallExit \/ PthreadTestcancel
  <2>1. /\ k.ctx[cur].at = "app"
        /\ lib' = lib \/ lib' = [lib EXCEPT !.sighandler = TRUE]
        /\ \E place \in {"app", "exit", "test"} : UserStep(place)
    BY <1>2 DEF Sigaction, CallExit, PthreadTestcancel, AppCalls, At
  <2>2. PICK place \in {"app", "exit", "test"} : UserStep(place)
    BY <2>1
  <2>3. k.ctx[cur].at \notin Ending /\ Leads(k.ctx[cur].at, place)
    BY <2>1, FromApp DEF BasePlaces
  <2> QED
    BY <1>1, <2>1, <2>2, <2>3, QuietAction, QuietCalm DEF Creating, Freeing
<1>3. CASE HandleSignal
  <2>1. k.ctx[cur].at = "handle" /\ lib' = lib
    BY <1>3 DEF HandleSignal, At
  <2>2. PICK place \in {"sigcancel", "happ", "sigret"} : UserStep(place)
    BY <1>3 DEF HandleSignal
  <2>3. k.ctx[cur].at \notin Ending /\ Leads(k.ctx[cur].at, place)
    BY <2>1 DEF Leads, BasePlaces, HandlerPlaces, Ending
  <2> QED
    BY <1>1, <2>1, <2>2, <2>3, QuietAction, QuietCalm DEF Creating, Freeing
<1> QED
  BY <1>2, <1>3

(* A step that changes only the pthread_t of the current thread, and of it *)
(* neither detached nor, unasked, async, is calm.                          *)
LEMMA OwnPthread ==
    ASSUME Inv, ~ k.halted, InUser(k'), Quiet(k'), lib' = lib,
           pt' \in [Threads -> PthreadType], \A t \in Threads \ {cur} : pt'[t] = pt[t],
           pt'[cur].detached = pt[cur].detached,
           pt'[cur].async => pt[cur].async \/ "setcancel" \in app,
           Ends(k', cur)
    PROVE  Calm
<1>1. Live(k, cur)
  BY DEF Inv, InUser, CurrentRuns, cur
<1> QED
  BY <1>1 DEF Calm, Inv, Quiet

(* pthread_exit, the SIGCANCEL handler and the setters of the cancellation *)
(* state and type are calm.                                                *)
LEMMA CalmPthreadActions ==
    ASSUME Inv,
           \/ PthreadExit \/ HandleSigcancel
           \/ \E b \in BOOLEAN : PthreadSetcancelstate(b) \/ PthreadSetcanceltype(b)
    PROVE  Calm
<1>1. InUser(k) /\ ~ k.halted /\ cur \in Threads
  BY DEF Inv, PthreadExit, HandleSigcancel, PthreadSetcancelstate, PthreadSetcanceltype,
         AppCalls, At, InUser, KernelInv, KernelTyped, SchedTyped, cur
<1>2. pt \in [Threads -> PthreadType] /\ lib \in LibType
  BY DEF Inv
<1>3. CASE PthreadExit
  <2>1. PICK place \in {"link", "gone"} :
          /\ k.ctx[cur].at = "exit" /\ UserStep(place) /\ pt' = pt /\ lib' = lib
          /\ place = "link" => pt[cur].detached
    BY <1>3 DEF PthreadExit, At
  <2>2. Leads(k.ctx[cur].at, place) /\ place \in Ending /\ place \notin Creating
        /\ (place \in Freeing => pt[cur].detached)
    BY <2>1 DEF Leads, Ending, Creating, Freeing
  <2> QED
    BY <1>1, <2>1, <2>2, QuietAction, QuietCalm
<1>4. CASE HandleSigcancel
  <2>1. k.ctx[cur].at = "sigcancel" /\ lib' = lib
    BY <1>4 DEF HandleSigcancel, At
  <2>2. CASE k.tls[cur]
    <3>1. Leads(k.ctx[cur].at, "htest") /\ k.ctx[cur].at \notin Ending /\ "htest" \in Ending
      BY <2>1 DEF Leads, BasePlaces, HandlerPlaces, Ending
    <3>2. InUser(k') /\ Quiet(k') /\ Ends(k', cur)
      BY <1>1, <1>4, <2>2, <3>1, QuietAction
         DEF HandleSigcancel, Ends, Creating, Freeing
    <3>3. /\ pt' \in [Threads -> PthreadType] /\ \A t \in Threads \ {cur} : pt'[t] = pt[t]
          /\ pt'[cur].detached = pt[cur].detached /\ pt'[cur].async = pt[cur].async
      <4>1. pt' = [pt EXCEPT ![cur].requested = TRUE]
        BY <1>4, <2>2 DEF HandleSigcancel
      <4> QED
        BY <1>1, <1>2, <4>1 DEF PthreadType
    <3> QED
      BY <1>1, <2>1, <3>2, <3>3, OwnPthread
  <2>3. CASE ~ k.tls[cur]
    BY <1>1, <1>4, <2>1, <2>3, FaultAction, QuietCalm DEF HandleSigcancel
  <2> QED
    BY <2>2, <2>3
<1>5. ASSUME NEW b \in BOOLEAN, PthreadSetcancelstate(b) \/ PthreadSetcanceltype(b)
      PROVE  Calm
  <2>1. k.ctx[cur].at = "app" /\ lib' = lib /\ UserStep("atest") /\ "setcancel" \in app
    BY <1>5 DEF PthreadSetcancelstate, PthreadSetcanceltype, AppCalls
  <2>2. Leads(k.ctx[cur].at, "atest") /\ k.ctx[cur].at \notin Ending /\ "atest" \in Ending
    BY <2>1 DEF Leads, BasePlaces, HandlerPlaces, Ending
  <2>3. InUser(k') /\ Quiet(k') /\ Ends(k', cur)
    BY <1>1, <2>1, <2>2, QuietAction DEF Ends, Creating, Freeing
  <2>4. /\ pt' \in [Threads -> PthreadType] /\ \A t \in Threads \ {cur} : pt'[t] = pt[t]
        /\ pt'[cur].detached = pt[cur].detached
    BY <1>1, <1>2, <1>5 DEF PthreadSetcancelstate, PthreadSetcanceltype, PthreadType
  <2> QED
    BY <1>1, <2>1, <2>3, <2>4, OwnPthread
<1> QED
  BY <1>3, <1>4, <1>5

(* free_thread_to_pool, whoever calls it.                                  *)
LEMMA CalmFree ==
    ASSUME Inv, NEW thread \in Threads, NEW link, NEW free, NEW caller,
           FreeThreadToPool(thread, link, free, caller),
           {link, free} \subseteq Freeing, free \notin Creating, caller \notin Creating \cup Freeing,
           Leads(link, free), Leads(free, caller),
           link \in Ending => free \in Ending, free \in Ending => caller \in Ending
    PROVE  Calm
<1>1. InUser(k) /\ pt \in [Threads -> PthreadType] /\ lib \in LibType
  BY DEF Inv
<1>2. CASE At(link) /\ pt' = [pt EXCEPT ![thread].next = lib.pool] /\ UserStep(free) /\ lib' = lib
  <2>1. ~ k.halted /\ k.ctx[cur].at = link
    BY <1>2 DEF At
  <2>2. InUser(k') /\ Quiet(k')
    BY <1>1, <1>2, <2>1, QuietAction
  <2>3. /\ pt' \in [Threads -> PthreadType]
        /\ \A t \in Threads : /\ pt'[t].detached = pt[t].detached
                              /\ pt'[t].requested = pt[t].requested
                              /\ pt'[t].async = pt[t].async
                              /\ pt'[t].enabled = pt[t].enabled
    BY <1>1, <1>2 DEF PthreadType, LibType
  <2> QED
    BY <1>1, <1>2, <2>2, <2>3 DEF Calm, Quiet, MustExit
<1>3. CASE At(free) /\ lib' = [lib EXCEPT !.pool = thread] /\ UserStep(caller) /\ pt' = pt
  <2>1. ~ k.halted /\ k.ctx[cur].at = free
    BY <1>3 DEF At
  <2>2. InUser(k') /\ Quiet(k')
    BY <1>1, <1>3, <2>1, QuietAction
  <2>3. /\ lib' \in LibType /\ lib'.new = lib.new /\ lib'.candidate = lib.candidate
        /\ lib'.detach = lib.detach
    BY <1>1, <1>3 DEF LibType
  <2>4. Frees(k, cur)
    BY <2>1 DEF Frees, Visits, VisitedBy
  <2> QED
    BY <1>1, <1>3, <2>2, <2>3, <2>4 DEF Calm, Quiet
<1> QED
  BY <1>2, <1>3 DEF FreeThreadToPool

(* pthread_exit frees the current thread, pthread_create the one it could  *)
(* not start.                                                              *)
LEMMA CalmFreeActions ==
    ASSUME Inv, PthreadPutBack \/ PthreadFree
    PROVE  Calm
<1>1. cur \in Threads /\ lib.candidate \in Threads
  BY DEF Inv, LibType, InUser, KernelInv, KernelTyped, SchedTyped, cur
<1>2. /\ Leads("relink", "refree") /\ Leads("refree", "app")
      /\ Leads("link", "free") /\ Leads("free", "gone")
  BY DEF Leads, BasePlaces, HandlerPlaces
<1>3. CASE PthreadPutBack
  BY <1>1, <1>2, <1>3, CalmFree DEF PthreadPutBack, Creating, Freeing, Ending
<1>4. CASE PthreadFree
  BY <1>1, <1>2, <1>4, CalmFree DEF PthreadFree, Creating, Freeing, Ending
<1> QED
  BY <1>3, <1>4

(* do_testcancel: a thread that does not exit did not have to, or is told  *)
(* to only at the next cancellation point.                                 *)
LEMMA TestcancelAction ==
    ASSUME Inv, DoTestcancel
    PROVE  Calm
<1>1. PICK place \in {"test", "atest", "htest"} :
        /\ At(place)
        /\ UserStep(IF MustExit(pt[cur], place # "test") THEN "exit"
                    ELSE IF place = "htest" THEN "sigret" ELSE "app")
  BY DEF DoTestcancel
<1>2. InUser(k) /\ ~ k.halted /\ k.ctx[cur].at = place /\ pt' = pt /\ lib' = lib
  BY <1>1 DEF Inv, At, DoTestcancel
<1>3. CASE MustExit(pt[cur], place # "test") \/ place = "test"
  <2>1. PICK to \in {"exit", "app"} : UserStep(to) /\ (place # "test" => to = "exit")
    BY <1>1, <1>3
  <2>2. Leads(k.ctx[cur].at, to) /\ (k.ctx[cur].at \in Ending => to \in Ending)
    BY <1>2, <2>1 DEF Leads, BasePlaces, HandlerPlaces, Ending
  <2> QED
    BY <1>2, <2>1, <2>2, QuietAction, QuietCalm DEF Creating, Freeing
<1>4. CASE ~ MustExit(pt[cur], TRUE) /\ place # "test"
  <2>1. PICK to \in {"sigret", "app"} : UserStep(to) /\ Leads(k.ctx[cur].at, to)
    BY <1>1, <1>2, <1>4 DEF Leads, BasePlaces, HandlerPlaces
  <2>2. InUser(k') /\ Goes(k', to) /\ cur \in Threads /\ k'.cur = cur
    BY <1>2, <2>1, UserAction DEF Goes
  <2>3. \A t \in Threads \ {cur} : \A p : Visits(k', t, p) <=> Visits(k, t, p)
    BY <2>2 DEF Goes, Visits
  <2>4. \A p \in Creating \cup Freeing : Visits(k', cur, p) => Visits(k, cur, p)
    BY <2>1, <2>2 DEF Goes, Visits, VisitedBy, Creating, Freeing
  <2>5. k'.state = k.state
    BY <2>2 DEF Goes
  <2>6. \A t \in Threads : /\ \A p \in Creating : Visits(k', t, p) => Visits(k, t, p)
                           /\ Frees(k', t) => Frees(k, t)
    BY <2>3, <2>4 DEF Frees
  <2>7. \A t \in Threads \ {cur} : Ends(k, t) => Ends(k', t)
    BY <2>3 DEF Ends
  <2>8. \A t \in Threads : MustExit(pt'[t], TRUE) =>
          Ends(k', t) \/ (MustExit(pt[t], TRUE) /\ ~ Ends(k, t))
    BY <1>2, <1>4, <2>7
  <2>9. lib' \in LibType /\ pt' \in [Threads -> PthreadType]
    BY <1>2 DEF Inv
  <2> QED
    BY <1>2, <2>2, <2>5, <2>6, <2>8, <2>9 DEF Calm
<1> QED
  BY <1>3, <1>4

(* A thread goes on in pthread_create, before it starts the new one.       *)
LEMMA GoCreating ==
    ASSUME Inv, NEW at \in {"app", "take"}, NEW place \in Creating, At(at), UserStep(place),
           at = "app" => k.frames[cur] = <<>>
    PROVE  /\ InUser(k') /\ k'.state = k.state /\ cur \in Threads
           /\ \A t \in Threads \ {cur}, p \in Places : Visits(k', t, p) <=> Visits(k, t, p)
           /\ \A p : Visits(k', cur, p) => p = place
           /\ \A t \in Threads : Ends(k, t) => Ends(k', t)
           /\ \A t \in Threads : Frees(k', t) => Frees(k, t)
<1>1. k.ctx[cur].at = at /\ ~ k.halted /\ InUser(k)
  BY DEF Inv, At
<1>2. Leads(k.ctx[cur].at, place) /\ k.ctx[cur].at \notin Ending
  BY <1>1, FromApp DEF BasePlaces, Creating
<1>3. InUser(k') /\ Goes(k', place) /\ cur \in Threads
  BY <1>1, <1>2, UserAction
<1>4. Len(k.frames[cur]) = 0 /\ k.frames[cur] \in Seq(FrameType)
  <2>1. Nested(k.ctx[cur], k.frames[cur]) /\ k.frames[cur] \in Seq(FrameType)
    BY <1>1, <1>3 DEF InUser, KernelInv, FramesNest, KernelTyped, UserTyped
  <2> QED
    BY <1>1, <2>1 DEF Nested, PlacesAt, HandlerPlaces
<1>5. DOMAIN k.frames[cur] = {}
  BY <1>4
<1>6. k'.state = k.state /\ \A t \in Threads \ {cur}, p \in Places : Visits(k', t, p) <=> Visits(k, t, p)
  BY <1>3 DEF Goes, Visits
<1>7. \A p : Visits(k', cur, p) => p = place
  BY <1>3, <1>5 DEF Goes, Visits, VisitedBy
<1>8. ~ Ends(k, cur) /\ ~ Frees(k', cur)
  <2>1. ~ Ends(k, cur)
    BY <1>2, <1>5 DEF Ends, Visits, VisitedBy
  <2> QED
    BY <1>7, <2>1 DEF Frees, Creating, Freeing
<1>9. Ending \cup Freeing \subseteq Places
  BY DEF Ending, Freeing, Places
<1>10. \A t \in Threads : Ends(k, t) => Ends(k', t)
  BY <1>6, <1>8, <1>9 DEF Ends
<1>11. \A t \in Threads : Frees(k', t) => Frees(k, t)
  BY <1>6, <1>8, <1>9 DEF Frees
<1> QED
  BY <1>3, <1>6, <1>7, <1>10, <1>11

(* pthread_create: first it reads the pool.                                *)
LEMMA CreateAction ==
    ASSUME Inv, NEW detached \in BOOLEAN, PthreadCreate(detached)
    PROVE  /\ InUser(k') /\ k'.state = k.state /\ cur = Main /\ cur \in Threads
           /\ \A t \in Threads \ {cur}, p \in Places : Visits(k', t, p) <=> Visits(k, t, p)
           /\ \A p : Visits(k', cur, p) => p = "take"
           /\ \A t \in Threads : Ends(k, t) => Ends(k', t)
           /\ \A t \in Threads : Frees(k', t) => Frees(k, t)
           /\ pt' = pt /\ lib' \in LibType /\ lib'.new = lib.new /\ lib'.pool = lib.pool
           /\ lib'.candidate = lib.pool /\ lib'.detach = detached
<1>1. At("app") /\ UserStep("take") /\ cur = Main /\ k.frames[cur] = <<>> /\ pt' = pt
  BY DEF PthreadCreate, AppCalls, At
<1>2. "take" \in Creating
  BY DEF Creating
<1>3. /\ lib' \in LibType /\ lib'.new = lib.new /\ lib'.pool = lib.pool
      /\ lib'.candidate = lib.pool /\ lib'.detach = detached
  BY DEF PthreadCreate, Inv, LibType
<1> QED
  BY <1>1, <1>2, <1>3, GoCreating

(* Then it takes the structure.                                            *)
LEMMA TakeAction ==
    ASSUME Inv, TakeThread
    PROVE  /\ InUser(k') /\ k'.state = k.state /\ cur \in Threads /\ Visits(k, cur, "take")
           /\ \A t \in Threads \ {cur}, p \in Places : Visits(k', t, p) <=> Visits(k, t, p)
           /\ \A p : Visits(k', cur, p) => p = "create"
           /\ \A t \in Threads : Ends(k, t) => Ends(k', t)
           /\ \A t \in Threads : Frees(k', t) => Frees(k, t)
<1>1. At("take") /\ UserStep("create") /\ "create" \in Creating
  BY DEF TakeThread, Creating
<1>2. Visits(k, cur, "take")
  BY <1>1 DEF At, Visits, VisitedBy
<1> QED
  BY <1>1, <1>2, GoCreating

(* pthread_create prepares one new pthread_t, with no cancellation         *)
(* requested.                                                              *)
LEMMA TakeTypes ==
    ASSUME Inv, TakeThread
    PROVE  \E t \in Threads :
             /\ lib.candidate = Main => t \in lib.new
             /\ lib' \in LibType /\ pt' \in [Threads -> PthreadType]
             /\ lib'.candidate = t /\ lib'.new = lib.new \ {t}
             /\ lib.candidate = Main => lib'.pool = lib.pool
             /\ ~ pt'[t].requested /\ ~ pt'[t].async /\ pt'[t].detached = lib.detach
             /\ \A u \in Threads \ {t} : pt'[u] = pt[u]
<1>1. pt \in [Threads -> PthreadType] /\ lib \in LibType
  BY DEF Inv
<1>2. PICK t \in IF lib.candidate # Main THEN {lib.candidate} ELSE lib.new :
         /\ pt' = [pt EXCEPT ![t] = [NewPthread(lib.detach) EXCEPT !.next = pt[t].next]]
         /\ lib' = [lib EXCEPT !.candidate = t, !.new = @ \ {t},
                               !.pool = IF lib.candidate # Main THEN pt[t].next ELSE @]
  BY DEF TakeThread
<1>3. t \in Threads /\ (lib.candidate = Main => t \in lib.new) /\ pt[t].next \in Threads
  BY <1>1, <1>2 DEF LibType, PthreadType
<1>4. /\ lib' \in LibType /\ lib'.candidate = t /\ lib'.new = lib.new \ {t}
      /\ lib.candidate = Main => lib'.pool = lib.pool
  BY <1>1, <1>2, <1>3 DEF LibType
<1>5. /\ pt' \in [Threads -> PthreadType]
      /\ ~ pt'[t].requested /\ ~ pt'[t].async /\ pt'[t].detached = lib.detach
      /\ \A u \in Threads \ {t} : pt'[u] = pt[u]
  <2> DEFINE p == [NewPthread(lib.detach) EXCEPT !.next = pt[t].next]
  <2>1. p \in PthreadType /\ ~ p.requested /\ ~ p.async /\ p.detached = lib.detach
    BY <1>1, <1>3, SignalsAssumption DEF NewPthread, PthreadType, LibType
  <2>2. pt' = [pt EXCEPT ![t] = p]
    BY <1>2
  <2> HIDE DEF p
  <2> QED
    BY <1>1, <1>3, <2>1, <2>2
<1> QED
  BY <1>3, <1>4, <1>5

(* Then it starts the thread, unless the thread still runs.                *)
LEMMA StartAction ==
    ASSUME Inv, PthreadStart, CanStart(k, lib.candidate)
    PROVE  /\ InUser(k') /\ k'.state = [k.state EXCEPT ![lib.candidate] = "running"]
           /\ ~ Visits(k', cur, "create")
           /\ \A t \in Threads, p \in Creating \cup Freeing : Visits(k', t, p) => Visits(k, t, p)
           /\ \A t \in Threads \ {lib.candidate} : Ends(k, t) => Ends(k', t)
           /\ Visits(k, cur, "create") /\ cur \in Threads
<1> DEFINE t == lib.candidate
           k1 == Go(k, "app")
           k2 == StartThread(k1, t, k.blocked[cur])
<1>1. k.ctx[cur].at = "create" /\ ~ k.halted /\ InUser(k) /\ Trap(k2) /\ t \in Threads
  BY DEF Inv, LibType, PthreadStart, At
<1>2. Leads(k.ctx[cur].at, "app") /\ k.ctx[cur].at \notin Ending
  BY <1>1, FromApp DEF BasePlaces
<1>3. /\ KernelInv(k1) /\ CurrentRuns(k1) /\ Goes(k1, "app") /\ ~ k1.halted
      /\ cur \in Threads /\ k.blocked[cur] \in SUBSET SignalSet
  <2>1. KernelInv(k1) /\ CurrentRuns(k1) /\ Goes(k1, "app") /\ ~ k1.halted
    BY <1>1, <1>2, GoStep
  <2>2. cur \in Threads /\ k.blocked[cur] \in SUBSET SignalSet
    BY <1>1 DEF InUser, KernelInv, KernelTyped, SchedTyped, UserTyped, cur
  <2> QED
    BY <2>1, <2>2
<1>4. k.frames[cur] = <<>> /\ t # cur
  <2>1. Nested(k.ctx[cur], k.frames[cur]) /\ k.frames[cur] \in Seq(FrameType) /\ Live(k, cur)
    BY <1>1, <1>3 DEF InUser, KernelInv, FramesNest, KernelTyped, UserTyped, CurrentRuns, cur
  <2>2. Len(k.frames[cur]) = 0
    BY <1>1, <2>1 DEF Nested, PlacesAt, HandlerPlaces
  <2> QED
    BY <2>1, <2>2 DEF CanStart, Live
<1>5. CanStart(k1, t)
  BY <1>3 DEF CanStart, Goes
<1> HIDE DEF k1
<1>6. KernelInv(k2) /\ CurrentRuns(k2) /\ Started(k2, k1, t)
  <2> DEFINE set == k.blocked[cur]
  <2>1. k2 = StartThread(k1, t, set)
    OBVIOUS
  <2>2. t \in Threads /\ set \in SUBSET SignalSet
    BY <1>1, <1>3
  <2> HIDE DEF k2, t, set
  <2> QED
    BY <1>3, <1>5, <2>1, <2>2, StartThreadStep
<1> HIDE DEF k2
<1>7. InUser(k') /\ k'.state = k2.state /\ SameVisits(k', k2)
  BY <1>1, <1>6, TrapReturnsStep DEF Trap, Follows
<1>8. /\ ~ Visits(k2, cur, "create")
      /\ \A p \in Creating \cup Freeing : ~ Visits(k2, t, p)
  <2>1. k2.ctx[cur].at = "app" /\ k2.frames[cur] = <<>>
    BY <1>3, <1>4, <1>6 DEF Goes, Started
  <2>2. \A p \in Creating \cup Freeing : p # "entry"
    BY DEF Creating, Freeing
  <2> QED
    BY <1>6, <2>1, <2>2 DEF Started, Visits, VisitedBy
<1>9. \A u \in Threads \ {t}, p \in Places : Visits(k2, u, p) <=> Visits(k1, u, p)
  BY <1>6 DEF Started, Visits
<1>10. \A u \in Threads, p \in Creating \cup Freeing : Visits(k1, u, p) => Visits(k, u, p)
  <2>1. \A p \in Creating \cup Freeing : p # "app"
    BY DEF Creating, Freeing
  <2> QED
    BY <1>3, <2>1 DEF Goes, Visits, VisitedBy
<1>11. Ending \cup Creating \cup Freeing \subseteq Places \ {"handle"} /\ "create" \in Creating
  BY DEF Ending, Creating, Freeing, Places
<1>12. \A u \in Threads : Ends(k, u) => Ends(k1, u)
  <2>1. \A u \in Threads \ {cur}, p \in Places : Visits(k1, u, p) <=> Visits(k, u, p)
    BY <1>3 DEF Goes, Visits
  <2>2. ~ Ends(k, cur)
    BY <1>1, <1>2, <1>4 DEF Ends, Visits, VisitedBy
  <2> QED
    BY <1>11, <2>1, <2>2 DEF Ends
<1>13. \A u \in Threads \ {t}, p \in Places \ {"handle"} : Visits(k', u, p) <=> Visits(k1, u, p)
  BY <1>7, <1>9 DEF SameVisits
<1>14. /\ ~ Visits(k', cur, "create")
       /\ \A p \in Creating \cup Freeing : ~ Visits(k', t, p)
  BY <1>1, <1>3, <1>7, <1>8, <1>11 DEF SameVisits
<1>15. \A u \in Threads \ {t} : Ends(k, u) => Ends(k', u)
  BY <1>11, <1>12, <1>13 DEF Ends
<1>16. \A u \in Threads, p \in Creating \cup Freeing : Visits(k', u, p) => Visits(k, u, p)
  BY <1>10, <1>11, <1>13, <1>14
<1>17. k'.state = [k.state EXCEPT ![t] = "running"] /\ Visits(k, cur, "create")
  BY <1>1, <1>3, <1>6, <1>7 DEF Goes, Started, Visits, VisitedBy
<1> QED
  BY <1>3, <1>7, <1>14, <1>15, <1>16, <1>17

(* The START_THREAD of pthread_create fails when the thread is still       *)
(* alive.                                                                  *)
LEMMA BusyAction ==
    ASSUME Inv, PthreadStart, ~ CanStart(k, lib.candidate)
    PROVE  InUser(k') /\ lib' = lib /\ pt' = pt
<1> DEFINE k1 == Go(k, "relink")
<1>1. k.ctx[cur].at = "create" /\ ~ k.halted /\ InUser(k) /\ Trap(k1)
  BY DEF Inv, PthreadStart, At
<1>2. Leads(k.ctx[cur].at, "relink")
  BY <1>1, FromApp DEF BasePlaces
<1>3. KernelInv(k1) /\ CurrentRuns(k1)
  BY <1>1, <1>2, GoStep
<1>4. InUser(k')
  BY <1>1, <1>3, TrapReturnsStep DEF Trap
<1> QED
  BY <1>4 DEF PthreadStart

-----------------------------------------------------------------------------
(* The invariant.                                                          *)
LEMMA BootStep ==
    ASSUME NEW cpu \in CpuTypes, k = BootKernel(cpu)
    PROVE  /\ InUser(k) /\ cur = Main
           /\ \A t \in Threads : /\ k.state[t] = IF t = Main THEN "running" ELSE "created"
                                 /\ \A p \in Places \ {"entry"} : ~ Visits(k, t, p)
<1> DEFINE c == Context("entry", InitFpu)
<1>1. Main \in Threads /\ SIGCANCEL \in SignalSet /\ SignalSet \subseteq Nat
  BY SignalsAssumption, CancelAssumption
<1>2. /\ FpuTyped(BootFpu) /\ ~ BootFpu.fault
      /\ \A t \in Threads : Parked(BootFpu, t, InitFpu)
  BY DEF BootFpu, FpuTyped, IsFpu, FpuFields, FpuValues, Parked
<1>3. /\ FpuTyped(k.fpu) /\ ~ k.fpu.fault /\ Held(k.fpu, Main, InitFpu)
      /\ FpuLoaded(k.fpu, Main) /\ OthersSame(k.fpu, BootFpu, Main)
  <2>1. k.fpu = RestoreFpuState(BootFpu, Main)
    BY DEF BootKernel
  <2>2. Held(BootFpu, Main, InitFpu)
    BY <1>1, <1>2, ParkedHeld
  <2> QED
    BY <1>1, <1>2, <2>1, <2>2, RestoreFpuLoads
<1>4. \A t \in Threads \ {Main} : Parked(k.fpu, t, InitFpu)
  BY <1>2, <1>3, ParkedSame
<1>5. c \in ContextType /\ c.at = "entry" /\ c.own = InitFpu
  BY DEF Context, ContextType, Places, FpuValues
<1> HIDE DEF c
<1>6. /\ k.cur = Main /\ k.ready = <<>> /\ ~ k.halted /\ k.cpu = cpu /\ k.handler = FALSE
      /\ k.state = [t \in Threads |-> IF t = Main THEN "running" ELSE "created"]
      /\ k.fresh = [t \in Threads |-> FALSE] /\ k.awaiter = [t \in Threads |-> t]
      /\ k.ctx = [t \in Threads |-> c] /\ k.frames = [t \in Threads |-> <<>>]
  BY DEF BootKernel, c
<1>7. /\ k.pending = [t \in Threads |-> {}] /\ k.blocked = [t \in Threads |-> {}]
      /\ k.ppending = {} /\ k.stackok = [t \in Threads |-> TRUE]
      /\ k.posted = [s \in SignalSet |-> 0] /\ k.handled = [s \in SignalSet |-> 0]
      /\ k.dropped = [s \in SignalSet |-> 0] /\ k.forgotten = [s \in SignalSet |-> 0]
  BY DEF BootKernel
<1>8. IsKernel(k)
  BY DEF BootKernel, IsKernel, KernelFields
<1>9. SchedTyped(k) /\ CountsTyped(k) /\ UserTyped(k)
  <2>1. SchedTyped(k)
    <3>1. /\ k.state \in [Threads -> {"created", "running", "zombie"}]
          /\ k.fresh \in [Threads -> BOOLEAN] /\ k.awaiter \in [Threads -> Threads]
      BY <1>6
    <3>2. k.cur \in Threads /\ k.ready \in Seq(Threads) /\ k.cpu \in CpuTypes
      BY <1>1, <1>6
    <3>3. k.halted = FALSE
      BY DEF BootKernel
    <3> QED
      BY <1>6, <3>1, <3>2, <3>3 DEF SchedTyped
  <2>2. CountsTyped(k)
    BY <1>7 DEF CountsTyped
  <2>3. UserTyped(k)
    <3>1. <<>> \in Seq(FrameType)
      OBVIOUS
    <3> QED
      BY <1>5, <1>6, <1>7, <3>1 DEF UserTyped
  <2> QED
    BY <2>1, <2>2, <2>3
<1>10. Scheduled(k) /\ CurrentRuns(k)
  BY <1>1, <1>6 DEF Scheduled, CurrentRuns, Distinct, Queued, InQueue, Live, Awaits
<1>11. FpuKept(k)
  BY <1>1, <1>3, <1>4, <1>5, <1>6 DEF FpuKept
<1>12. FramesNest(k) /\ CancelUnblocked(k)
  BY <1>5, <1>6, <1>7 DEF FramesNest, Nested, PlacesAt, BasePlaces, CancelUnblocked, Unblocked
<1>13. Accounted(k)
  <2> SUFFICES ASSUME NEW s \in SignalSet
               PROVE  k.posted[s] = k.handled[s] + k.dropped[s] + k.forgotten[s]
                        + Cardinality(PendingFor(k, s)) + Cardinality({s} \cap k.ppending)
    BY DEF Accounted
  <2>1. PendingFor(k, s) = {} /\ {s} \cap k.ppending = {}
    BY <1>7 DEF PendingFor
  <2>2. Cardinality({}) = 0
    BY FS_EmptySet
  <2> QED
    BY <1>7, <2>1, <2>2
<1>14. InUser(k)
  BY <1>3, <1>6, <1>8, <1>9, <1>10, <1>11, <1>12, <1>13 DEF InUser, KernelInv, KernelTyped
<1> QED
  BY <1>5, <1>6, <1>14 DEF Visits, VisitedBy, cur

(* The initial states satisfy the invariant.                               *)
LEMMA InitInv ==
    Init => Inv
<1> SUFFICES ASSUME Init
             PROVE  Inv
  OBVIOUS
<1>1. InUser(k)
  BY CancelAssumption, BootStep DEF Init
<1>2. pt \in [Threads -> PthreadType]
  BY SignalsAssumption DEF Init, NewPthread, PthreadType
<1>3. lib \in LibType
  BY SignalsAssumption DEF Init, LibType
<1> QED
  BY <1>1, <1>2, <1>3 DEF Inv

(* Every step is calm, or one of the three steps of pthread_create.        *)
LEMMA Steps ==
    ASSUME Inv, Next
    PROVE  Calm \/ PthreadStart \/ TakeThread \/ \E detached \in BOOLEAN : PthreadCreate(detached)
<1>1. CASE LibraryStep
  BY <1>1, CalmKernelActions, CalmLibraryActions, CalmPthreadActions, CalmFreeActions,
     TestcancelAction DEF LibraryStep
<1>2. CASE AppStep
  BY <1>2, CalmKernelActions, CalmLibraryActions, CalmPthreadActions DEF AppStep
<1>3. CASE Tick
  BY <1>3, CalmKernelActions
<1> QED
  BY <1>1, <1>2, <1>3 DEF Next

(* Every step preserves the invariant.                                     *)
LEMMA NextInv ==
    Inv /\ [Next]_vars => Inv'
<1> SUFFICES ASSUME Inv, [Next]_vars
             PROVE  Inv'
  OBVIOUS
<1>1. CASE Calm
  BY <1>1 DEF Calm, Inv
<1>2. ASSUME NEW detached \in BOOLEAN, PthreadCreate(detached)
      PROVE  Inv'
  BY <1>2, CreateAction DEF Inv
<1>5. CASE TakeThread
  BY <1>5, TakeAction, TakeTypes DEF Inv
<1>3. CASE PthreadStart
  <2>1. CASE CanStart(k, lib.candidate)
    <3>1. pt' \in [Threads -> PthreadType] /\ lib' \in LibType
      BY <1>3, <2>1 DEF PthreadStart, Inv, LibType
    <3> QED
      BY <1>3, <2>1, <3>1, StartAction DEF Inv
  <2>2. CASE ~ CanStart(k, lib.candidate)
    BY <1>3, <2>2, BusyAction DEF Inv
  <2> QED
    BY <2>1, <2>2
<1>4. CASE UNCHANGED vars
  BY <1>4 DEF vars, Inv, InUser, KernelInv, KernelTyped, SchedTyped, CountsTyped, UserTyped,
              Scheduled, FpuKept, FramesNest, CancelUnblocked, Accounted, CurrentRuns
<1> QED
  BY <1>1, <1>2, <1>3, <1>4, <1>5, Steps

(* Signals, the FPU and the scheduler keep the invariant.                  *)
THEOREM InvHolds ==
    Spec => []Inv
<1> QED
  BY InitInv, NextInv, PTL DEF Spec

-----------------------------------------------------------------------------
(* No application has both detached threads and threads that set how they  *)
(* are cancelled.  A thread with both, interrupted by SIGCANCEL after it   *)
(* put itself in the pool, would exit, and go into the pool, a second time;*)
(* its structure could then be that of two threads.                        *)
Exclusive == \A sys \in Systems : ~ ({"detach", "setcancel"} \subseteq sys.app)

(* The initial states satisfy the invariant about cancellation.            *)
LEMMA InitCancelInv ==
    ASSUME Exclusive, Init
    PROVE  CancelInv
<1>1. PICK sys \in Systems : app = sys.app /\ k = BootKernel(sys.cpu)
  BY DEF Init
<1>2. /\ \A t \in Threads : /\ k.state[t] = IF t = Main THEN "running" ELSE "created"
                            /\ \A p \in Places \ {"entry"} : ~ Visits(k, t, p)
  BY <1>1, CancelAssumption, BootStep
<1>3. \A t \in Threads : ~ pt[t].requested /\ ~ pt[t].async /\ ~ pt[t].detached
  BY DEF Init, NewPthread
<1>4. lib.pool = Main /\ lib.new = Threads \ {Main}
  BY DEF Init
<1>5. NoReuse
  <2>1. Creating \cup Freeing \subseteq Places \ {"entry"} /\ "take" \in Creating /\ "create" \in Creating
    BY DEF Creating, Freeing, Places
  <2>2. \A t \in Threads : ~ Frees(k, t)
    BY <1>2, <2>1 DEF Frees
  <2> QED
    BY <1>2, <1>3, <1>4, <2>1, <2>2 DEF NoReuse
<1>6. Pursued(k, pt)
  BY <1>3 DEF Pursued, MustExit
<1>7. "setcancel" \in app => "detach" \notin app
  BY <1>1 DEF Exclusive
<1> QED
  BY <1>3, <1>5, <1>6, <1>7, InitInv DEF CancelInv

(* A calm step keeps what is known of cancellation requests.               *)
LEMMA CalmCancelInv ==
    ASSUME CancelInv, Calm, app' = app
    PROVE  CancelInv'
<1>1. Inv /\ cur \in Threads
  BY DEF CancelInv, Inv, InUser, KernelInv, KernelTyped, SchedTyped, cur
<1>2. Inv'
  BY DEF Calm, Inv
<1>3. \A t \in Threads : (k'.state[t] = "created" <=> k.state[t] = "created")
                         /\ (Live(k', t) => Live(k, t))
  BY DEF Calm, Live
<1>4. Pursued(k', pt')
  BY <1>3 DEF CancelInv, Calm, Pursued
<1>5. "setcancel" \notin app => \A t \in Threads : ~ pt'[t].async
  BY DEF CancelInv, Calm
<1>6. ASSUME "setcancel" \in app
      PROVE  NoReuse'
  <2>1. NoReuse
    BY <1>6 DEF CancelInv
  <2>2. lib'.pool = Main /\ \A t \in Threads : ~ pt'[t].detached
    BY <1>1, <2>1 DEF NoReuse, Calm
  <2>3. /\ lib'.new = lib.new /\ lib'.candidate = lib.candidate /\ lib.candidate \in Threads
        /\ lib'.detach = lib.detach
        /\ \A t \in Threads : /\ Visits(k', t, "create") => Visits(k, t, "create")
                              /\ Visits(k', t, "take") => Visits(k, t, "take")
                              /\ Frees(k', t) => Frees(k, t) \/ pt[t].detached
                              /\ pt'[t].requested => pt[t].requested \/ Live(k, t)
    BY <1>1 DEF Calm, Inv, LibType, Creating
  <2> QED
    BY <1>3, <2>1, <2>2, <2>3 DEF NoReuse, Live
<1> QED
  BY <1>2, <1>4, <1>5, <1>6 DEF CancelInv

(* pthread_create keeps it: nothing is in the pool that it reads.          *)
LEMMA CreateCancelInv ==
    ASSUME CancelInv, NEW detached \in BOOLEAN, PthreadCreate(detached), app' = app, Inv'
    PROVE  CancelInv'
<1>1. Inv
  BY DEF CancelInv
<1>2. /\ k'.state = k.state /\ cur = Main /\ cur \in Threads
      /\ \A t \in Threads \ {cur}, p \in Places : Visits(k', t, p) <=> Visits(k, t, p)
      /\ \A p : Visits(k', cur, p) => p = "take"
      /\ \A t \in Threads : (Ends(k, t) => Ends(k', t)) /\ (Frees(k', t) => Frees(k, t))
      /\ pt' = pt /\ lib'.new = lib.new /\ lib'.pool = lib.pool
      /\ lib'.candidate = lib.pool /\ lib'.detach = detached
  BY <1>1, CreateAction
<1>3. Pursued(k', pt')
  BY <1>2 DEF CancelInv, Pursued, Live
<1>4. ASSUME "setcancel" \in app
      PROVE  NoReuse'
  <2>1. NoReuse /\ ~ detached
    BY <1>4 DEF CancelInv, PthreadCreate, AppCalls
  <2>2. \A t \in Threads : ~ Visits(k', t, "create") /\ (Visits(k', t, "take") => t = Main)
    BY <1>2, <2>1 DEF NoReuse, Places
  <2> QED
    BY <1>2, <2>1, <2>2 DEF NoReuse
<1> QED
  BY <1>2, <1>3, <1>4 DEF CancelInv

(* Then the pthread_t is a new one.                                        *)
LEMMA TakeCancelInv ==
    ASSUME CancelInv, TakeThread, app' = app, Inv'
    PROVE  CancelInv'
<1>1. Inv
  BY DEF CancelInv
<1>2. PICK t \in Threads :
        /\ lib.candidate = Main => t \in lib.new
        /\ lib'.candidate = t /\ lib'.new = lib.new \ {t}
        /\ lib.candidate = Main => lib'.pool = lib.pool
        /\ ~ pt'[t].requested /\ ~ pt'[t].async /\ pt'[t].detached = lib.detach
        /\ \A u \in Threads \ {t} : pt'[u] = pt[u]
  BY <1>1, TakeTypes
<1>3. /\ k'.state = k.state /\ cur \in Threads /\ Visits(k, cur, "take")
      /\ \A u \in Threads \ {cur}, p \in Places : Visits(k', u, p) <=> Visits(k, u, p)
      /\ \A p : Visits(k', cur, p) => p = "create"
      /\ \A u \in Threads : (Ends(k, u) => Ends(k', u)) /\ (Frees(k', u) => Frees(k, u))
  BY <1>1, TakeAction
<1>4. Pursued(k', pt')
  BY <1>2, <1>3 DEF CancelInv, Pursued, Live, MustExit
<1>5. "setcancel" \notin app => \A u \in Threads : ~ pt'[u].async
  BY <1>2 DEF CancelInv
<1>6. ASSUME "setcancel" \in app
      PROVE  NoReuse'
  <2>1. NoReuse
    BY <1>6 DEF CancelInv
  <2>2. cur = Main /\ lib.candidate = Main /\ ~ lib.detach
    BY <1>3, <2>1 DEF NoReuse
  <2>3. \A u \in Threads : ~ Visits(k', u, "take") /\ (Visits(k', u, "create") => u = Main)
    BY <1>3, <2>1, <2>2 DEF NoReuse, Places
  <2>4. t \in lib.new /\ k.state[t] = "created"
    BY <1>2, <2>1, <2>2 DEF NoReuse
  <2> QED
    BY <1>2, <1>3, <2>1, <2>2, <2>3, <2>4 DEF NoReuse
<1> QED
  BY <1>4, <1>5, <1>6 DEF CancelInv

(* The start of the created thread keeps it.                               *)
LEMMA StartCancelInv ==
    ASSUME CancelInv, PthreadStart, app' = app, Inv'
    PROVE  CancelInv'
<1> DEFINE t == lib.candidate
<1>1. Inv /\ t \in Threads
  BY DEF CancelInv, Inv, LibType
<1>2. CASE CanStart(k, t)
  <2>1. /\ pt' = pt /\ lib'.pool = lib.pool /\ lib'.new = lib.new /\ lib'.candidate = t
        /\ lib'.detach = lib.detach
    BY <1>1, <1>2 DEF PthreadStart, Inv, LibType
  <2>2. /\ k'.state = [k.state EXCEPT ![t] = "running"]
        /\ ~ Visits(k', cur, "create")
        /\ \A u \in Threads, p \in Creating \cup Freeing : Visits(k', u, p) => Visits(k, u, p)
        /\ \A u \in Threads \ {t} : Ends(k, u) => Ends(k', u)
        /\ Visits(k, cur, "create") /\ cur \in Threads
    BY <1>1, <1>2, StartAction
  <2>3. k'.state[t] = "running" /\ \A u \in Threads \ {t} : k'.state[u] = k.state[u]
    <3>1. SchedTyped(k)
      BY <1>1 DEF Inv, InUser, KernelInv, KernelTyped
    <3>2. DOMAIN k.state = Threads
      BY <3>1 DEF SchedTyped
    <3> QED
      BY <1>1, <2>2, <3>2
  <2>4. ASSUME "setcancel" \in app
        PROVE  NoReuse' /\ ~ pt[t].requested
    <3>1. NoReuse
      BY <2>4 DEF CancelInv
    <3>2. cur = Main /\ k.state[t] = "created" /\ t \notin lib.new
      BY <2>2, <3>1 DEF NoReuse
    <3>3. \A u \in Threads : /\ ~ Visits(k', u, "create")
                             /\ Visits(k', u, "take") => Visits(k, u, "take")
                             /\ Frees(k', u) => Frees(k, u)
      BY <2>2, <3>1, <3>2 DEF NoReuse, Frees, Creating
    <3>4. NoReuse'
      BY <2>1, <2>3, <3>1, <3>2, <3>3 DEF NoReuse
    <3> QED
      BY <1>1, <3>1, <3>2, <3>4 DEF NoReuse
  <2>5. ~ MustExit(pt[t], TRUE)
    BY <1>1, <2>4 DEF CancelInv, MustExit
  <2>6. Pursued(k', pt')
    BY <2>1, <2>2, <2>3, <2>5 DEF CancelInv, Pursued, Live
  <2> QED
    BY <2>1, <2>4, <2>6 DEF CancelInv
<1>3. CASE ~ CanStart(k, t)
  <2>1. pt' = pt
    BY <1>1, <1>3, BusyAction
  <2>2. "setcancel" \notin app
    <3>1. Visits(k, cur, "create") /\ cur \in Threads
      BY <1>1 DEF PthreadStart, At, Visits, VisitedBy, Inv, InUser, KernelInv, KernelTyped,
                  SchedTyped, cur
    <3> QED
      BY <1>3, <3>1 DEF CancelInv, NoReuse, CanStart
  <2>3. \A u \in Threads : ~ pt'[u].async
    BY <2>1, <2>2 DEF CancelInv
  <2> QED
    BY <2>2, <2>3 DEF CancelInv, Pursued, MustExit
<1> QED
  BY <1>2, <1>3

(* Every step preserves the invariant about cancellation.                  *)
LEMMA NextCancelInv ==
    CancelInv /\ [Next]_vars => CancelInv'
<1> SUFFICES ASSUME CancelInv, [Next]_vars
             PROVE  CancelInv'
  OBVIOUS
<1>1. Inv /\ Inv'
  BY NextInv DEF CancelInv
<1>2. CASE Next
  <2>1. app' = app
    BY <1>2 DEF Next
  <2> QED
    BY <1>1, <1>2, <2>1, Steps, CalmCancelInv, CreateCancelInv, TakeCancelInv,
       StartCancelInv
<1>3. CASE UNCHANGED vars
  BY <1>1, <1>3 DEF vars, CancelInv, NoReuse, Pursued, Live, Ends, Frees, Visits, MustExit
<1> QED
  BY <1>2, <1>3

-----------------------------------------------------------------------------
(* The types of the kernel's and the library's state; a thread is ready at *)
(* most once, is then alive, and is not the current one.                   *)
THEOREM TypeCorrect ==
    Spec => []TypeOK
<1>1. Inv => TypeOK
  <2> SUFFICES ASSUME Inv
               PROVE  TypeOK
    OBVIOUS
  <2>1. KernelTyped(k) /\ Scheduled(k) /\ (~ k.halted => CurrentRuns(k))
    BY DEF Inv, InUser, KernelInv
  <2>2. /\ k.cur \in Threads /\ k.ready \in Seq(Threads)
        /\ \A i \in DOMAIN k.ready : k.ready[i] \in Threads /\ Queued(k, k.ready[i])
    BY <2>1 DEF KernelTyped, SchedTyped, Queued, InQueue
  <2>3. k.ready \in Seq(Threads \ (IF k.halted THEN {} ELSE {k.cur}))
    <3> DEFINE S == Threads \ (IF k.halted THEN {} ELSE {k.cur})
    <3>1. \A i \in DOMAIN k.ready : k.ready[i] \in S
      BY <2>1, <2>2 DEF CurrentRuns
    <3> HIDE DEF S
    <3>2. k.ready \in Seq(S)
      BY <2>2, <3>1
    <3> QED
      BY <3>2 DEF S
  <2>4. \A i, j \in DOMAIN k.ready : i # j => k.ready[i] # k.ready[j]
    BY <2>1 DEF Scheduled, Distinct
  <2>5. \A i \in DOMAIN k.ready : Alive(k.ready[i])
    BY <2>1, <2>2 DEF Scheduled, Live, Alive
  <2>6. /\ k.pending \in [Threads -> SUBSET SignalSet] /\ k.ppending \subseteq SignalSet
        /\ k.blocked \in [Threads -> SUBSET SignalSet] /\ k.ctx \in [Threads -> ContextType]
    BY <2>1 DEF KernelTyped, CountsTyped, UserTyped
  <2>7. \A t \in Threads : k.ctx[t].at \in Places
    BY <2>6 DEF ContextType
  <2>8. pt \in [Threads -> PthreadType]
    BY DEF Inv
  <2> QED
    BY <2>2, <2>3, <2>4, <2>5, <2>6, <2>7, <2>8 DEF TypeOK, PthreadType
<1> QED
  BY <1>1, InvHolds, PTL

(* The FPU state seen by user code is always its own: after every switch,  *)
(* trap, delivery of a signal and return from one (save_fpu_state,         *)
(* restore_fpu_state, use_fpu and the signal functions of fpu.c).          *)
THEOREM FpuCorrect ==
    Spec => []FpuIsOwn
<1>1. Inv => FpuIsOwn
  <2> SUFFICES ASSUME Inv
               PROVE  FpuIsOwn
    OBVIOUS
  <2>1. /\ FpuTyped(k.fpu) /\ k.cur \in Threads /\ FpuKept(k)
        /\ ~ k.halted => FpuLoaded(k.fpu, k.cur)
    BY DEF Inv, InUser, KernelInv, KernelTyped, SchedTyped
  <2> QED
    BY <2>1 DEF FpuIsOwn, Alive, Running, FpuKept, FpuLoaded, Held, Parked, Live, FpuTyped
<1> QED
  BY <1>1, InvHolds, PTL

(* No signal is lost or delivered twice (check_for_signal, signal_thread,  *)
(* signal_process and thread_prepare).                                     *)
THEOREM SignalsCorrect ==
    Spec => []SignalsAccounted
<1>1. Inv => SignalsAccounted
  BY DEF Inv, InUser, KernelInv, Accounted, PendingFor, SignalsAccounted
<1> QED
  BY <1>1, InvHolds, PTL

(* A request for cancellation takes effect, for applications that do not   *)
(* have both detached threads and threads that set their cancellation      *)
(* state or type (do_testcancel, sigprocmask, pthread_create,              *)
(* check_for_signal and the return from a signal).                         *)
THEOREM CancellationCorrect ==
    ASSUME Exclusive
    PROVE  Spec => []CancellationHonoured
<1>1. Init => CancelInv
  BY InitCancelInv
<1>2. CancelInv => CancellationHonoured
  <2> SUFFICES ASSUME CancelInv, NEW t \in Threads, Alive(t)
               PROVE  /\ k.ctx[t].at \in {"app", "take", "create"} => ~ MustExit(pt[t], TRUE)
                      /\ (SIGCANCEL \in k.blocked[t] /\ k.dropped[SIGCANCEL] = 0)
                           => \E i \in DOMAIN k.frames[t] : k.frames[t][i].signo = SIGCANCEL
    BY DEF CancellationHonoured
  <2>1. CancelUnblocked(k) /\ Nested(k.ctx[t], k.frames[t]) /\ k.frames[t] \in Seq(FrameType)
    BY DEF CancelInv, Inv, InUser, KernelInv, KernelTyped, UserTyped, FramesNest
  <2>2. ASSUME k.ctx[t].at \in {"app", "take", "create"}
        PROVE  ~ MustExit(pt[t], TRUE)
    <3>1. Len(k.frames[t]) = 0
      BY <2>1, <2>2 DEF Nested, PlacesAt, HandlerPlaces
    <3>2. DOMAIN k.frames[t] = {}
      BY <2>1, <3>1
    <3>3. ~ Ends(k, t)
      BY <2>2, <3>2 DEF Ends, Visits, VisitedBy, Ending
    <3> QED
      BY <3>3 DEF CancelInv, Pursued, Live, Alive
  <2> QED
    BY <2>1, <2>2 DEF CancelUnblocked, Unblocked
<1> QED
  BY <1>1, <1>2, NextCancelInv, PTL DEF Spec

=============================================================================
