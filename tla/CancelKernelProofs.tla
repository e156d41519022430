------------------------- MODULE CancelKernelProofs -------------------------
(***************************************************************************)
(* Signals, the FPU and cancellation: the inductive invariant of Cancel,   *)
(* and the paths through the kernel.  Such a path is a composition of the  *)
(* operators of Signals; one lemma for each of them says what it does to   *)
(* the conjuncts of the invariant.                                         *)
(***************************************************************************)
EXTENDS Cancel, FiniteSetTheorems, WellFoundedInduction, TLAPS

FpuValues == {InitFpu} \cup (Threads \X Int)

FpuFields == {"regs", "ts", "fault", "area", "uses", "saved"}

IsFpu(f) == DOMAIN f = FpuFields /\ f = [x \in FpuFields |-> f[x]]

FpuTyped(f) ==
    /\ IsFpu(f)
    /\ f.regs \in FpuValues /\ f.area \in [Threads -> FpuValues]
    /\ f.ts \in BOOLEAN /\ f.fault \in BOOLEAN
    /\ f.uses \in [Threads -> BOOLEAN] /\ f.saved \in [Threads -> BOOLEAN]

ContextType == [at : Places, args : {"mine", "zero"}, own : FpuValues]

FrameType ==
    [signo : SignalSet, mask : SUBSET SignalSet, ctx : ContextType, fpregs : FpuValues]

KernelFields ==
    {"cur", "ready", "halted", "cpu", "state", "fresh", "awaiter", "pending", "blocked",
     "ppending", "handler", "tls", "fpu", "ctx", "frames", "stackok", "posted", "handled",
     "dropped", "forgotten"}

IsKernel(kk) == DOMAIN kk = KernelFields /\ kk = [x \in KernelFields |-> kk[x]]

(* The types of the fields that schedule threads, account for signals, and *)
(* hold what threads have in user space.                                   *)
SchedTyped(kk) ==
    /\ kk.cur \in Threads /\ kk.ready \in Seq(Threads)
    /\ kk.halted \in BOOLEAN /\ kk.handler \in BOOLEAN /\ kk.cpu \in CpuTypes
    /\ kk.state \in [Threads -> {"created", "running", "zombie"}]
    /\ kk.fresh \in [Threads -> BOOLEAN]
    /\ kk.awaiter \in [Threads -> Threads]

CountsTyped(kk) ==
    /\ kk.posted \in [SignalSet -> Nat] /\ kk.handled \in [SignalSet -> Nat]
    /\ kk.dropped \in [SignalSet -> Nat] /\ kk.forgotten \in [SignalSet -> Nat]
    /\ kk.pending \in [Threads -> SUBSET SignalSet] /\ kk.ppending \in SUBSET SignalSet

UserTyped(kk) ==
    /\ kk.blocked \in [Threads -> SUBSET SignalSet]
    /\ kk.ctx \in [Threads -> ContextType]
    /\ kk.frames \in [Threads -> Seq(FrameType)]
    /\ kk.stackok \in [Threads -> BOOLEAN]

KernelTyped(kk) ==
    /\ IsKernel(kk) /\ SchedTyped(kk) /\ CountsTyped(kk) /\ UserTyped(kk)
    /\ FpuTyped(kk.fpu)

Live(kk, t) == kk.state[t] = "running"
InQueue(q, t) == \E i \in DOMAIN q : q[i] = t
Queued(kk, t) == InQueue(kk.ready, t)
Awaits(kk, a, u) == Live(kk, u) /\ kk.awaiter[u] = a /\ a # u

Distinct(q) == \A i, j \in DOMAIN q : q[i] = q[j] => i = j

(* A thread is ready once, a thread that waits for another one is alive    *)
(* and not ready, and waits for one thread only.                           *)
Scheduled(kk) ==
    /\ Distinct(kk.ready)
    /\ \A t \in Threads : Queued(kk, t) => Live(kk, t)
    /\ \A a, u \in Threads : Awaits(kk, a, u) =>
         /\ Live(kk, a) /\ ~ Queued(kk, a)
         /\ \A v \in Threads : Awaits(kk, a, v) => v = u

(* The current thread is alive, not ready, and waits for nobody.           *)
CurrentRuns(kk) ==
    /\ Live(kk, kk.cur) /\ ~ Queued(kk, kk.cur)
    /\ \A u \in Threads : ~ Awaits(kk, kk.cur, u)

(* In the kernel, the current thread's FPU state is in the registers, which*)
(* can be used, or in its area; any other thread's is in its area, from    *)
(* where it will be loaded if the thread uses the FPU.                     *)
Held(f, t, own) ==
    IF f.uses[t] /\ ~ f.saved[t] THEN ~ f.ts /\ f.regs = own ELSE f.area[t] = own

Parked(f, t, own) == f.area[t] = own /\ (f.uses[t] => f.saved[t])

FpuKept(kk) ==
    /\ ~ kk.fpu.fault
    /\ Held(kk.fpu, kk.cur, kk.ctx[kk.cur].own)
    /\ \A t \in Threads \ {kk.cur} : Live(kk, t) => Parked(kk.fpu, t, kk.ctx[t].own)

(* In user space the state of a thread that uses the FPU is in the         *)
(* registers and TS is clear; TS is set for any other thread.              *)
FpuLoaded(f, t) == ~ f.saved[t] /\ (f.ts <=> ~ f.uses[t])

(* The code that a thread runs and, below it, what signals interrupted:    *)
(* under the signal frames is code of the application or of the library    *)
(* called from it, and above every one of them code that handles a signal. *)
BasePlaces ==
    {"entry", "init", "app", "take", "create", "relink", "refree", "test", "atest", "exit",
     "link", "free", "gone"}
HandlerPlaces ==
    {"handle", "sigcancel", "htest", "happ", "sigret", "exit", "link", "free", "gone"}
PlacesAt(i) == IF i = 1 THEN BasePlaces ELSE HandlerPlaces

Nested(c, fs) ==
    /\ c.at \in PlacesAt(Len(fs) + 1)
    /\ \A i \in DOMAIN fs : fs[i].ctx.at \in PlacesAt(i) /\ fs[i].fpregs = fs[i].ctx.own

FramesNest(kk) == \A t \in Threads : Nested(kk.ctx[t], kk.frames[t])

VisitedBy(c, fs, place) == c.at = place \/ \E i \in DOMAIN fs : fs[i].ctx.at = place

Visits(kk, t, place) == VisitedBy(kk.ctx[t], kk.frames[t], place)

(* SIGCANCEL is blocked only above a frame of SIGCANCEL, now and in every  *)
(* mask that the return from a signal brings back.                         *)
Unblocked(mask, fs) ==
    /\ SIGCANCEL \in mask => \E i \in DOMAIN fs : fs[i].signo = SIGCANCEL
    /\ \A j \in DOMAIN fs : SIGCANCEL \in fs[j].mask =>
         \E i \in DOMAIN fs : i < j /\ fs[i].signo = SIGCANCEL

CancelUnblocked(kk) ==
    kk.dropped[SIGCANCEL] = 0 => \A t \in Threads : Unblocked(kk.blocked[t], kk.frames[t])

PendingFor(kk, s) == {t \in Threads : s \in kk.pending[t]}

Accounted(kk) ==
    \A s \in SignalSet :
        kk.posted[s] = kk.handled[s] + kk.dropped[s] + kk.forgotten[s]
                         + Cardinality(PendingFor(kk, s)) + Cardinality({s} \cap kk.ppending)

KernelInv(kk) ==
    /\ KernelTyped(kk) /\ Scheduled(kk) /\ FpuKept(kk) /\ FramesNest(kk)
    /\ CancelUnblocked(kk) /\ Accounted(kk)

(* A kernel that is about to return, or has returned, to user space.       *)
InUser(kk) ==
    /\ KernelInv(kk)
    /\ ~ kk.halted => CurrentRuns(kk) /\ FpuLoaded(kk.fpu, kk.cur)

(* A thread that must exit at once is about to notice, or does exit, at    *)
(* some level of its stack.                                                *)
Ending == {"atest", "htest", "exit", "link", "free", "gone"}

Ends(kk, t) == \E place \in Ending : Visits(kk, t, place)

Pursued(kk, p) ==
    \A t \in Threads : Live(kk, t) /\ MustExit(p[t], TRUE) => Ends(kk, t)

PthreadType ==
    [requested : BOOLEAN, enabled : BOOLEAN, async : BOOLEAN, detached : BOOLEAN,
     next : Threads]

(* In pthread_create, before the thread starts, and in free_thread_to_pool.*)
Creating == {"take", "create"}
Freeing == {"link", "free", "relink", "refree"}

Frees(kk, t) == \E place \in Freeing : Visits(kk, t, place)

(* No thread structure is reused when no thread is detached: one that was  *)
(* not started is as pthread_create made it.                               *)
NoReuse ==
    /\ lib.pool = Main
    /\ \A t \in Threads :
         /\ ~ pt[t].detached /\ ~ Frees(k, t)
         /\ pt[t].requested => k.state[t] # "created"
         /\ t \in lib.new => k.state[t] = "created"
         /\ Visits(k, t, "take") => t = Main /\ lib.candidate = Main /\ ~ lib.detach
         /\ Visits(k, t, "create") =>
              /\ t = Main
              /\ k.state[lib.candidate] = "created" /\ lib.candidate \notin lib.new

LibType ==
    [sighandler : BOOLEAN, sigcancel : BOOLEAN, pool : Threads, new : SUBSET Threads,
     candidate : Threads, detach : BOOLEAN, starts : Nat]

Inv == InUser(k) /\ pt \in [Threads -> PthreadType] /\ lib \in LibType

(* For applications that do not have both detached threads and threads     *)
(* that are cancelled asynchronously.                                      *)
CancelInv ==
    /\ Inv
    /\ "setcancel" \notin app => \A t \in Threads : ~ pt[t].async
    /\ "setcancel" \in app => "detach" \notin app /\ NoReuse
    /\ Pursued(k, pt)

-----------------------------------------------------------------------------
(* The operators of Fpu.  What a thread owns is where the invariant says   *)
(* it is before and after each of them.                                    *)
OthersSame(g, f, t) ==
    \A u \in Threads \ {t} :
        g.area[u] = f.area[u] /\ g.uses[u] = f.uses[u] /\ g.saved[u] = f.saved[u]

(* The FPU state of a thread in its save area stays there when the step is *)
(* about another thread.                                                   *)
LEMMA ParkedSame ==
    ASSUME NEW f, NEW g, NEW t, NEW u \in Threads \ {t}, NEW own, OthersSame(g, f, t),
           Parked(f, u, own)
    PROVE  Parked(g, u, own)
BY DEF OthersSame, Parked

(* An FPU state in the save area of its thread is the thread's.            *)
LEMMA ParkedHeld ==
    ASSUME NEW f, NEW t \in Threads, NEW own, FpuTyped(f), Parked(f, t, own)
    PROVE  Held(f, t, own)
BY DEF FpuTyped, Parked, Held

(* save_fpu_state parks the current thread's state and no one else's.      *)
LEMMA SaveFpuParks ==
    ASSUME NEW f, NEW g, NEW t \in Threads, NEW cpu \in CpuTypes, NEW own,
           FpuTyped(f), ~ f.fault, Held(f, t, own), g = SaveFpuState(f, t, cpu)
    PROVE  FpuTyped(g) /\ ~ g.fault /\ Parked(g, t, own) /\ OthersSame(g, f, t)
<1> DEFINE f1 == IF cpu.cve THEN [f EXCEPT !.saved[t] = TRUE] ELSE f
<1>1. /\ FpuTyped(f1) /\ f1.regs = f.regs /\ f1.ts = f.ts /\ f1.fault = f.fault
      /\ f1.area = f.area /\ f1.uses = f.uses
      /\ f1.saved = IF cpu.cve THEN [f.saved EXCEPT ![t] = TRUE] ELSE f.saved
  BY DEF FpuTyped, IsFpu, FpuFields
<1> HIDE DEF f1
<1>2. CASE f.saved[t] \/ ~ f.uses[t]
  <2>1. g = f1
    BY <1>2 DEF f1, SaveFpuState
  <2> QED
    BY <1>1, <1>2, <2>1 DEF Held, Parked, OthersSame, FpuTyped
<1>3. CASE ~ (f.saved[t] \/ ~ f.uses[t])
  <2>1. g = [AfterSave(f1, cpu) EXCEPT !.area[t] = f.regs, !.saved[t] = TRUE]
    BY <1>3 DEF f1, SaveFpuState
  <2>2. /\ IsFpu(g) /\ g.fault = (f1.fault \/ f1.ts) /\ g.uses = f1.uses /\ g.ts = f1.ts
        /\ g.area = [f1.area EXCEPT ![t] = f.regs] /\ g.saved = [f1.saved EXCEPT ![t] = TRUE]
        /\ g.regs = IF cpu.fxsr THEN f1.regs ELSE InitFpu
    BY <1>1, <2>1 DEF AfterSave, FpuTyped, IsFpu, FpuFields
  <2>3. FpuTyped(g)
    BY <1>1, <2>2 DEF FpuTyped, FpuValues
  <2>4. ~ f.ts /\ f.regs = own
    BY <1>3 DEF Held, FpuTyped
  <2>5. ~ g.fault
    BY <1>1, <2>2, <2>4
  <2>6. Parked(g, t, own) /\ OthersSame(g, f, t)
    BY <1>1, <2>2, <2>4 DEF Parked, OthersSame, FpuTyped
  <2> QED
    BY <2>3, <2>5, <2>6
<1> QED
  BY <1>2, <1>3

(* restore_fpu_state loads it.                                             *)
LEMMA RestoreFpuLoads ==
    ASSUME NEW f, NEW g, NEW t \in Threads, NEW own,
           FpuTyped(f), ~ f.fault, Held(f, t, own), g = RestoreFpuState(f, t)
    PROVE  /\ FpuTyped(g) /\ ~ g.fault /\ Held(g, t, own) /\ FpuLoaded(g, t)
           /\ OthersSame(g, f, t)
<1>1. CASE f.saved[t]
  <2>1. g = [f EXCEPT !.regs = f.area[t], !.saved[t] = FALSE, !.uses[t] = TRUE, !.ts = FALSE]
    BY <1>1 DEF RestoreFpuState
  <2>2. /\ IsFpu(g) /\ g.fault = f.fault /\ g.area = f.area /\ g.regs = f.area[t]
        /\ g.ts = FALSE /\ g.uses = [f.uses EXCEPT ![t] = TRUE]
        /\ g.saved = [f.saved EXCEPT ![t] = FALSE]
    BY <2>1 DEF FpuTyped, IsFpu, FpuFields
  <2>3. FpuTyped(g)
    BY <2>2 DEF FpuTyped
  <2> QED
    BY <1>1, <2>2, <2>3 DEF Held, FpuLoaded, OthersSame, FpuTyped
<1>2. CASE ~ f.saved[t]
  <2>1. g = [f EXCEPT !.ts = ~ f.uses[t]]
    BY <1>2 DEF RestoreFpuState
  <2>2. /\ FpuTyped(g) /\ g.fault = f.fault /\ g.area = f.area /\ g.regs = f.regs
        /\ g.ts = ~ f.uses[t] /\ g.uses = f.uses /\ g.saved = f.saved
    BY <2>1 DEF FpuTyped, IsFpu, FpuFields
  <2> QED
    BY <1>2, <2>2 DEF Held, FpuLoaded, OthersSame, FpuTyped
<1> QED
  BY <1>1, <1>2

(* The signal functions: the frame gets the thread's own state, and what   *)
(* fnsave leaves in the registers is then the handler's.                   *)
LEMMA FpregsSaved ==
    ASSUME NEW f, NEW g, NEW t \in Threads, NEW cpu \in CpuTypes, NEW own,
           FpuTyped(f), ~ f.fault, Held(f, t, own), g = AfterFpregsForSignal(f, t, cpu)
    PROVE  /\ FpregsForSignal(f, t) = own
           /\ FpuTyped(g) /\ ~ g.fault
           /\ Held(g, t, IF f.uses[t] /\ ~ f.saved[t] THEN g.regs ELSE own)
           /\ OthersSame(g, f, t)
<1>1. FpregsForSignal(f, t) = own
  BY DEF FpregsForSignal, Held, FpuTyped
<1>2. CASE f.saved[t] \/ ~ f.uses[t]
  <2>1. g = f
    BY <1>2 DEF AfterFpregsForSignal
  <2> QED
    BY <1>1, <1>2, <2>1 DEF Held, OthersSame, FpuTyped
<1>3. CASE ~ (f.saved[t] \/ ~ f.uses[t])
  <2>1. g = AfterSave(f, cpu)
    BY <1>3 DEF AfterFpregsForSignal
  <2>2. /\ FpuTyped(g) /\ g.fault = (f.fault \/ f.ts) /\ g.uses = f.uses
        /\ g.area = f.area /\ g.saved = f.saved /\ g.ts = f.ts
    BY <2>1 DEF AfterSave, FpuTyped, IsFpu, FpuFields, FpuValues
  <2> QED
    BY <1>1, <1>3, <2>2 DEF Held, OthersSame, FpuTyped
<1> QED
  BY <1>2, <1>3

(* return_from_signal gives the thread the FPU state of the signal frame,  *)
(* and no other thread's state moves.                                      *)
LEMMA FpregsRestored ==
    ASSUME NEW f, NEW g, NEW t \in Threads, NEW fpregs \in FpuValues,
           FpuTyped(f), ~ f.fault, FpuLoaded(f, t), g = RestoreFpregsForSignal(f, t, fpregs)
    PROVE  FpuTyped(g) /\ ~ g.fault /\ Held(g, t, fpregs) /\ OthersSame(g, f, t)
<1>1. CASE ~ f.uses[t]
  <2>1. g = [f EXCEPT !.area[t] = fpregs]
    BY <1>1 DEF RestoreFpregsForSignal
  <2>2. /\ FpuTyped(g) /\ g.fault = f.fault /\ g.area = [f.area EXCEPT ![t] = fpregs]
        /\ g.uses = f.uses /\ g.saved = f.saved
    BY <2>1 DEF FpuTyped, IsFpu, FpuFields
  <2> QED
    BY <1>1, <2>2 DEF Held, OthersSame, FpuTyped
<1>2. CASE f.uses[t]
  <2>1. g = [f EXCEPT !.regs = fpregs, !.saved[t] = FALSE, !.fault = @ \/ f.ts]
    BY <1>2 DEF RestoreFpregsForSignal
  <2>2. /\ IsFpu(g) /\ g.fault = (f.fault \/ f.ts) /\ g.area = f.area
        /\ g.uses = f.uses /\ g.saved = [f.saved EXCEPT ![t] = FALSE]
        /\ g.regs = fpregs /\ g.ts = f.ts
    BY <2>1 DEF FpuTyped, IsFpu, FpuFields
  <2>3. FpuTyped(g)
    BY <2>2 DEF FpuTyped
  <2> QED
    BY <1>2, <2>2, <2>3 DEF Held, FpuLoaded, OthersSame, FpuTyped
<1> QED
  BY <1>1, <1>2

(* use_fpu, for the thread that met #NM in user space.                     *)
LEMMA UseFpuHolds ==
    ASSUME NEW f, NEW g, NEW t \in Threads, NEW own,
           FpuTyped(f), ~ f.fault, Held(f, t, own), FpuLoaded(f, t), f.ts, g = UseFpu(f, t)
    PROVE  FpuTyped(g) /\ ~ g.fault /\ Held(g, t, own) /\ OthersSame(g, f, t)
<1>1. /\ FpuTyped(g) /\ g.fault = f.fault /\ g.area = f.area
      /\ g.uses = [f.uses EXCEPT ![t] = TRUE] /\ g.saved = [f.saved EXCEPT ![t] = TRUE]
  BY DEF UseFpu, FpuTyped, IsFpu, FpuFields
<1> QED
  BY <1>1 DEF Held, FpuLoaded, OthersSame, FpuTyped

(* prepare_fpu_area, for a thread that does not run.                       *)
LEMMA PrepareFpuParks ==
    ASSUME NEW f, NEW g, NEW t \in Threads, FpuTyped(f), ~ f.fault, g = PrepareFpu(f, t)
    PROVE  /\ FpuTyped(g) /\ ~ g.fault /\ Parked(g, t, InitFpu)
           /\ g.regs = f.regs /\ g.ts = f.ts /\ OthersSame(g, f, t)
<1>1. /\ FpuTyped(g) /\ g.fault = f.fault /\ g.regs = f.regs /\ g.ts = f.ts
      /\ g.area = [f.area EXCEPT ![t] = InitFpu]
      /\ g.uses = [f.uses EXCEPT ![t] = FALSE] /\ g.saved = [f.saved EXCEPT ![t] = FALSE]
  BY DEF PrepareFpu, FpuTyped, IsFpu, FpuFields, FpuValues
<1> QED
  BY <1>1 DEF Parked, OthersSame, FpuTyped

-----------------------------------------------------------------------------
SameSched(a, b) ==
    /\ a.cur = b.cur /\ a.ready = b.ready /\ a.halted = b.halted /\ a.handler = b.handler
    /\ a.cpu = b.cpu /\ a.state = b.state /\ a.fresh = b.fresh /\ a.awaiter = b.awaiter

SameCounts(a, b) ==
    /\ a.posted = b.posted /\ a.handled = b.handled /\ a.dropped = b.dropped
    /\ a.forgotten = b.forgotten /\ a.pending = b.pending /\ a.ppending = b.ppending

SameUser(a, b) ==
    /\ a.blocked = b.blocked /\ a.ctx = b.ctx /\ a.frames = b.frames
    /\ a.stackok = b.stackok

(* Apart from entering handle_signal.                                      *)
SameVisits(a, b) ==
    \A t \in Threads, place \in Places \ {"handle"} : Visits(a, t, place) <=> Visits(b, t, place)

(* The first signal of a set of pending ones is one of them.               *)
LEMMA MinInSet ==
    ASSUME NEW T, T \subseteq Nat, T # {}
    PROVE  Min(T) \in T
<1> DEFINE R == {ss \in Nat \X Nat : ss[1] < ss[2]}
<1>1. IsWellFoundedOn(R, Nat)
  BY NatLessThanWellFounded, Zenon DEF OpToRel
<1>2. \A x, y \in Nat : <<x, y>> \in R <=> x < y
  OBVIOUS
<1> HIDE DEF R
<1>3. PICK x \in T : \A y \in T : ~ (<<y, x>> \in R)
  BY <1>1, WFMin
<1>4. \A y \in T : ~ (y < x)
  BY <1>2, <1>3
<1>5. \A y \in T : x <= y
  BY <1>4
<1> QED
  BY <1>5 DEF Min

(* What check_for_signal does when it finds a signal: the pending bit of   *)
(* the thread, or else of the process, is cleared, the signal is blocked,  *)
(* and it is dropped or a frame is made for it.                            *)
Taken(kk, k1, s) ==
    LET t == kk.cur
    IN  \/ /\ s \in kk.pending[t] /\ k1.ppending = kk.ppending
           /\ k1.pending = [kk.pending EXCEPT ![t] = @ \ {s}]
        \/ /\ s \in kk.ppending /\ k1.ppending = kk.ppending \ {s}
           /\ k1.pending = kk.pending

Dropped(kk, k1, s) ==
    /\ k1.dropped = [kk.dropped EXCEPT ![s] = @ + 1] /\ k1.handled = kk.handled
    /\ k1.fpu = kk.fpu /\ k1.ctx = kk.ctx /\ k1.frames = kk.frames

Entered(kk, k1, s) ==
    LET t == kk.cur
        live == kk.fpu.uses[t] /\ ~ kk.fpu.saved[t]
    IN  /\ k1.handled = [kk.handled EXCEPT ![s] = @ + 1] /\ k1.dropped = kk.dropped
        /\ k1.fpu = AfterFpregsForSignal(kk.fpu, t, kk.cpu)
        /\ k1.ctx = [kk.ctx EXCEPT ![t] =
                        Context("handle", IF live THEN k1.fpu.regs ELSE @.own)]
        /\ k1.frames = [kk.frames EXCEPT ![t] =
                Append(@, [signo |-> s, mask |-> kk.blocked[t], ctx |-> kk.ctx[t],
                           fpregs |-> FpregsForSignal(kk.fpu, t)])]

TakesSignal(kk, k1, s) ==
    /\ IsKernel(k1) /\ SameSched(k1, kk)
    /\ Taken(kk, k1, s) /\ (Dropped(kk, k1, s) \/ Entered(kk, k1, s))
    /\ k1.posted = kk.posted /\ k1.forgotten = kk.forgotten /\ k1.stackok = kk.stackok
    /\ k1.blocked = [kk.blocked EXCEPT ![kk.cur] = @ \cup {s}]

(* check_for_signal either finds nothing to deliver or takes one signal.   *)
LEMMA CheckForSignalTakes ==
    ASSUME NEW kk, NEW k1, KernelTyped(kk), k1 = CheckForSignal(kk)
    PROVE  k1 = kk \/ \E s \in SignalSet : TakesSignal(kk, k1, s)
<1> DEFINE t == kk.cur
           sigmask == kk.blocked[t]
           signals == (kk.ppending \cup kk.pending[t]) \ sigmask
           s == Min(signals)
           kb == [kk EXCEPT !.blocked[t] = @ \cup {s}]
           k2 == IF s \in kk.pending[t] THEN [kb EXCEPT !.pending[t] = @ \ {s}]
                                         ELSE [kb EXCEPT !.ppending = @ \ {s}]
<1>1. CASE signals = {} \/ ~ kk.handler
  BY <1>1 DEF CheckForSignal
<1>2. CASE ~ (signals = {} \/ ~ kk.handler)
  <2>1. t \in Threads /\ signals \subseteq SignalSet /\ signals # {}
    BY <1>2 DEF KernelTyped, SchedTyped, CountsTyped, UserTyped
  <2>2. s \in signals
    BY <2>1, MinInSet, SignalsAssumption
  <2>3. s \in SignalSet /\ (s \in kk.ppending \/ s \in kk.pending[t])
    BY <2>1, <2>2
  <2>4. k1 = DeliverSignal(k2, s, sigmask)
    BY <1>2 DEF CheckForSignal
  <2> HIDE DEF signals, s
  <2>5. /\ IsKernel(k2) /\ SameSched(k2, kk) /\ Taken(kk, k2, s)
        /\ k2.blocked = [kk.blocked EXCEPT ![t] = @ \cup {s}]
        /\ k2.ctx = kk.ctx /\ k2.frames = kk.frames /\ k2.stackok = kk.stackok
        /\ k2.fpu = kk.fpu /\ k2.posted = kk.posted /\ k2.forgotten = kk.forgotten
        /\ k2.handled = kk.handled /\ k2.dropped = kk.dropped
    BY <2>3 DEF KernelTyped, IsKernel, KernelFields, SameSched, Taken
  <2> HIDE DEF k2
  <2>6. CASE ~ k2.stackok[t]
    <3>1. k1 = [k2 EXCEPT !.dropped[s] = @ + 1]
      BY <2>4, <2>5, <2>6 DEF DeliverSignal, SameSched
    <3>2. /\ IsKernel(k1) /\ SameSched(k1, k2)
          /\ k1.pending = k2.pending /\ k1.ppending = k2.ppending
          /\ k1.dropped = [k2.dropped EXCEPT ![s] = @ + 1] /\ k1.handled = k2.handled
          /\ k1.fpu = k2.fpu /\ k1.ctx = k2.ctx /\ k1.frames = k2.frames
          /\ k1.posted = k2.posted /\ k1.forgotten = k2.forgotten
          /\ k1.stackok = k2.stackok /\ k1.blocked = k2.blocked
      BY <2>5, <3>1 DEF IsKernel, KernelFields, SameSched
    <3>3. Taken(kk, k1, s) /\ Dropped(kk, k1, s) /\ SameSched(k1, kk)
      BY <2>5, <3>2 DEF Taken, Dropped, SameSched
    <3> QED
      BY <2>3, <2>5, <3>2, <3>3 DEF TakesSignal
  <2>7. CASE k2.stackok[t]
    <3> DEFINE live == kk.fpu.uses[t] /\ ~ kk.fpu.saved[t]
               g == AfterFpregsForSignal(kk.fpu, t, kk.cpu)
               frame == [signo |-> s, mask |-> sigmask, ctx |-> kk.ctx[t],
                         fpregs |-> FpregsForSignal(kk.fpu, t)]
               c == Context("handle", IF live THEN g.regs ELSE kk.ctx[t].own)
    <3>1. t \in DOMAIN k2.ctx
      BY <2>1, <2>5 DEF KernelTyped, UserTyped
    <3>2. k1 = [k2 EXCEPT !.frames[t] = Append(@, frame), !.ctx[t] = c, !.fpu = g,
                          !.handled[s] = @ + 1]
      BY <2>4, <2>5, <2>7, <3>1 DEF DeliverSignal, SameSched
    <3> HIDE DEF live, g, frame, c, t
    <3>3. IsKernel(k2)
      BY <2>5
    <3>4. IsKernel(k1)
      BY <3>2, <3>3 DEF IsKernel, KernelFields
    <3>5. /\ SameSched(k1, k2)
          /\ k1.pending = k2.pending /\ k1.ppending = k2.ppending
          /\ k1.handled = [k2.handled EXCEPT ![s] = @ + 1] /\ k1.dropped = k2.dropped
          /\ k1.fpu = g /\ k1.frames = [k2.frames EXCEPT ![t] = Append(@, frame)]
          /\ k1.ctx = [k2.ctx EXCEPT ![t] = c]
          /\ k1.posted = k2.posted /\ k1.forgotten = k2.forgotten
          /\ k1.stackok = k2.stackok /\ k1.blocked = k2.blocked
      BY <3>3, <3>2 DEF IsKernel, KernelFields, SameSched
    <3>6. Taken(kk, k1, s) /\ SameSched(k1, kk)
      BY <2>5, <3>5 DEF Taken, SameSched
    <3>7. Entered(kk, k1, s)
      BY <2>5, <3>1, <3>5 DEF Entered, live, g, frame, c, t
    <3> QED
      BY <2>3, <2>5, <3>4, <3>5, <3>6, <3>7 DEF TakesSignal, t
  <2> QED
    BY <2>6, <2>7
<1> QED
  BY <1>1, <1>2

(* The frames of one thread when one is pushed, and popped.                *)
LEMMA PushFrame ==
    ASSUME NEW fs \in Seq(FrameType), NEW frame \in FrameType, NEW c, NEW c1, NEW mask,
           NEW mask1, Nested(c, fs), frame.ctx = c, frame.fpregs = c.own, c1.at = "handle"
    PROVE  /\ Append(fs, frame) \in Seq(FrameType)
           /\ Nested(c1, Append(fs, frame))
           /\ Unblocked(mask, fs) /\ frame.mask = mask /\ mask1 = mask \cup {frame.signo}
                => Unblocked(mask1, Append(fs, frame))
           /\ \A place \in Places \ {"handle"} :
                VisitedBy(c1, Append(fs, frame), place) <=> VisitedBy(c, fs, place)
<1> DEFINE n == Len(fs)
           gs == Append(fs, frame)
<1>1. /\ gs \in Seq(FrameType) /\ n \in Nat /\ DOMAIN fs = 1..n /\ DOMAIN gs = 1..(n + 1)
      /\ Len(gs) = n + 1 /\ gs[n + 1] = frame /\ \A i \in 1..n : gs[i] = fs[i]
  OBVIOUS
<1> HIDE DEF gs, n
<1>2. Nested(c1, gs)
  <2>1. c.at \in PlacesAt(n + 1)
    BY DEF Nested, n
  <2>2. ASSUME NEW i \in 1..(n + 1)
        PROVE  gs[i].ctx.at \in PlacesAt(i) /\ gs[i].fpregs = gs[i].ctx.own
    <3>1. CASE i = n + 1
      BY <1>1, <2>1, <3>1
    <3>2. CASE i \in 1..n
      BY <1>1, <3>2 DEF Nested
    <3> QED
      BY <1>1, <3>1, <3>2
  <2>3. c1.at \in PlacesAt(n + 1 + 1)
    BY <1>1 DEF PlacesAt, HandlerPlaces
  <2> QED
    BY <1>1, <2>2, <2>3 DEF Nested
<1>3. ASSUME Unblocked(mask, fs), frame.mask = mask, mask1 = mask \cup {frame.signo}
      PROVE  Unblocked(mask1, gs)
  <2>1. SIGCANCEL \in mask => \E i \in 1..n : gs[i].signo = SIGCANCEL
    BY <1>1, <1>3 DEF Unblocked
  <2>2. SIGCANCEL \in mask1 => \E i \in 1..(n + 1) : gs[i].signo = SIGCANCEL
    BY <1>1, <1>3, <2>1
  <2>3. ASSUME NEW j \in 1..n, SIGCANCEL \in gs[j].mask
        PROVE  \E i \in 1..(n + 1) : i < j /\ gs[i].signo = SIGCANCEL
    <3>1. PICK i \in 1..n : i < j /\ fs[i].signo = SIGCANCEL
      BY <1>1, <1>3, <2>3 DEF Unblocked
    <3> QED
      BY <1>1, <3>1
  <2>4. SIGCANCEL \in gs[n + 1].mask => \E i \in 1..(n + 1) : i < n + 1 /\ gs[i].signo = SIGCANCEL
    BY <1>1, <1>3, <2>1
  <2>5. ASSUME NEW j \in 1..(n + 1), SIGCANCEL \in gs[j].mask
        PROVE  \E i \in 1..(n + 1) : i < j /\ gs[i].signo = SIGCANCEL
    <3>1. j \in 1..n \/ j = n + 1
      BY <1>1
    <3> QED
      BY <2>3, <2>4, <2>5, <3>1
  <2> QED
    BY <1>1, <2>2, <2>5 DEF Unblocked
<1>4. ASSUME NEW place \in Places \ {"handle"}
      PROVE  VisitedBy(c1, gs, place) <=> VisitedBy(c, fs, place)
  <2>1. VisitedBy(c1, gs, place) <=> \E i \in 1..(n + 1) : gs[i].ctx.at = place
    BY <1>1 DEF VisitedBy
  <2>2. (\E i \in 1..(n + 1) : gs[i].ctx.at = place)
          <=> c.at = place \/ \E i \in 1..n : gs[i].ctx.at = place
    BY <1>1
  <2> QED
    BY <1>1, <2>1, <2>2 DEF VisitedBy
<1> QED
  BY <1>1, <1>2, <1>3, <1>4 DEF gs

(* Cardinalities of the sets that SignalsAccounted counts.                 *)
LEMMA CountOf ==
    ASSUME NEW S \in SUBSET Threads
    PROVE  /\ Cardinality(S) \in Nat
           /\ \A t \in S : Cardinality(S \ {t}) = Cardinality(S) - 1
           /\ \A t \in Threads \ S : Cardinality(S \cup {t}) = Cardinality(S) + 1
<1>1. IsFiniteSet(S)
  BY FS_Subset, SignalsAssumption
<1>2. Cardinality(S) \in Nat
  BY <1>1, FS_CardinalityType
<1>3. ASSUME NEW t \in S PROVE Cardinality(S \ {t}) = Cardinality(S) - 1
  BY <1>1, FS_RemoveElement
<1>4. ASSUME NEW t \in Threads \ S PROVE Cardinality(S \cup {t}) = Cardinality(S) + 1
  BY <1>1, FS_AddElement
<1> QED
  BY <1>2, <1>3, <1>4

(* How often s is pending for the process, none or once.                   *)
LEMMA CountOne ==
    ASSUME NEW s, NEW P
    PROVE  Cardinality({s} \cap P) = IF s \in P THEN 1 ELSE 0
<1>1. CASE s \in P
  <2>1. {s} \cap P = {s}
    BY <1>1
  <2> QED
    BY <1>1, <2>1, FS_Singleton
<1>2. CASE s \notin P
  <2>1. {s} \cap P = {}
    BY <1>2
  <2> QED
    BY <1>2, <2>1, FS_EmptySet
<1> QED
  BY <1>1, <1>2

(* A signal that is taken goes from the pending ones to the handled or the *)
(* dropped ones: none is lost or counted twice.                            *)
LEMMA TakesAccounted ==
    ASSUME NEW kk, NEW k1, NEW s \in SignalSet, KernelTyped(kk), Accounted(kk),
           TakesSignal(kk, k1, s)
    PROVE  CountsTyped(k1) /\ Accounted(k1)
<1> DEFINE t == kk.cur
<1>1. CountsTyped(kk) /\ t \in Threads
  BY DEF KernelTyped, SchedTyped
<1>2. k1.posted = kk.posted /\ k1.forgotten = kk.forgotten
  BY DEF TakesSignal
<1>3. \/ k1.dropped = [kk.dropped EXCEPT ![s] = @ + 1] /\ k1.handled = kk.handled
      \/ k1.handled = [kk.handled EXCEPT ![s] = @ + 1] /\ k1.dropped = kk.dropped
  BY DEF TakesSignal, Dropped, Entered
<1>4. Taken(kk, k1, s)
  BY DEF TakesSignal
<1>5. CountsTyped(k1)
  BY <1>1, <1>2, <1>3, <1>4 DEF CountsTyped, Taken
<1> SUFFICES ASSUME NEW x \in SignalSet
             PROVE  k1.posted[x] = k1.handled[x] + k1.dropped[x] + k1.forgotten[x]
                      + Cardinality(PendingFor(k1, x)) + Cardinality({x} \cap k1.ppending)
  BY <1>5 DEF Accounted
<1>6. kk.posted[x] = kk.handled[x] + kk.dropped[x] + kk.forgotten[x]
        + Cardinality(PendingFor(kk, x)) + Cardinality({x} \cap kk.ppending)
  BY DEF Accounted
<1>7. PendingFor(kk, x) \in SUBSET Threads
  BY DEF PendingFor
<1>8. Cardinality(PendingFor(kk, x)) \in Nat
  BY <1>7, CountOf
<1>9. /\ Cardinality({x} \cap kk.ppending) = IF x \in kk.ppending THEN 1 ELSE 0
      /\ Cardinality({x} \cap k1.ppending) = IF x \in k1.ppending THEN 1 ELSE 0
  BY CountOne
<1>10. k1.handled[x] + k1.dropped[x] = kk.handled[x] + kk.dropped[x] + (IF x = s THEN 1 ELSE 0)
  BY <1>1, <1>3 DEF CountsTyped
<1>11. k1.handled[x] \in Nat /\ k1.dropped[x] \in Nat /\ kk.handled[x] \in Nat
       /\ kk.dropped[x] \in Nat /\ kk.forgotten[x] \in Nat
  BY <1>1, <1>5 DEF CountsTyped
<1>12. CASE /\ s \in kk.pending[t] /\ k1.ppending = kk.ppending
            /\ k1.pending = [kk.pending EXCEPT ![t] = @ \ {s}]
  <2>1. CASE x = s
    <3>1. PendingFor(k1, x) = PendingFor(kk, x) \ {t} /\ t \in PendingFor(kk, x)
      BY <1>1, <1>12, <2>1 DEF PendingFor, CountsTyped
    <3>2. Cardinality(PendingFor(k1, x)) = Cardinality(PendingFor(kk, x)) - 1
      BY <1>7, <3>1, CountOf
    <3> QED
      BY <1>2, <1>6, <1>8, <1>9, <1>10, <1>11, <1>12, <2>1, <3>2
  <2>2. CASE x # s
    <3>1. PendingFor(k1, x) = PendingFor(kk, x)
      BY <1>1, <1>12, <2>2 DEF PendingFor, CountsTyped
    <3> QED
      BY <1>2, <1>6, <1>8, <1>9, <1>10, <1>11, <1>12, <2>2, <3>1
  <2> QED
    BY <2>1, <2>2
<1>13. CASE /\ s \in kk.ppending /\ k1.ppending = kk.ppending \ {s}
            /\ k1.pending = kk.pending
  <2>1. PendingFor(k1, x) = PendingFor(kk, x)
    BY <1>13 DEF PendingFor
  <2> QED
    BY <1>2, <1>6, <1>8, <1>9, <1>10, <1>11, <1>13, <2>1
<1> QED
  BY <1>4, <1>12, <1>13 DEF Taken

(* Delivering a signal on the way out of the kernel keeps the invariant,   *)
(* the scheduler's state and the code that every thread is in.             *)
LEMMA CheckForSignalStep ==
    ASSUME NEW kk, NEW k1, KernelInv(kk), k1 = CheckForSignal(kk)
    PROVE  KernelInv(k1) /\ SameSched(k1, kk) /\ SameVisits(k1, kk)
<1>1. CASE k1 = kk
  BY <1>1 DEF SameSched, SameVisits
<1>2. CASE \E s \in SignalSet : TakesSignal(kk, k1, s)
  <2> PICK s \in SignalSet : TakesSignal(kk, k1, s)
    BY <1>2
  <2> DEFINE t == kk.cur
             frame == [signo |-> s, mask |-> kk.blocked[t], ctx |-> kk.ctx[t],
                       fpregs |-> FpregsForSignal(kk.fpu, t)]
             own == IF kk.fpu.uses[t] /\ ~ kk.fpu.saved[t] THEN k1.fpu.regs
                                                           ELSE kk.ctx[t].own
  <2>1. /\ KernelTyped(kk) /\ SchedTyped(kk) /\ UserTyped(kk) /\ FpuTyped(kk.fpu)
        /\ kk.cpu \in CpuTypes /\ t \in Threads
    BY DEF KernelInv, KernelTyped, SchedTyped
  <2>2. IsKernel(k1) /\ SameSched(k1, kk)
    BY DEF TakesSignal
  <2>3. CountsTyped(k1) /\ Accounted(k1)
    BY TakesAccounted, <2>1 DEF KernelInv
  <2>4. SchedTyped(k1) /\ Scheduled(k1)
    BY <2>1, <2>2 DEF SchedTyped, SameSched, KernelInv, Scheduled, Queued, Live, Awaits
  <2>5. /\ k1.blocked = [kk.blocked EXCEPT ![t] = @ \cup {s}]
        /\ k1.blocked \in [Threads -> SUBSET SignalSet] /\ k1.stackok \in [Threads -> BOOLEAN]
    BY <2>1 DEF TakesSignal, UserTyped
  <2>6. CASE Dropped(kk, k1, s)
    <3>1. k1.fpu = kk.fpu /\ k1.ctx = kk.ctx /\ k1.frames = kk.frames
      BY <2>6 DEF Dropped
    <3>2. KernelTyped(k1)
      BY <2>1, <2>2, <2>3, <2>4, <2>5, <3>1 DEF KernelTyped, UserTyped
    <3>3. FpuKept(k1) /\ FramesNest(k1)
      BY <2>2, <3>1 DEF KernelInv, FpuKept, FramesNest, SameSched, Live
    <3>4. CancelUnblocked(k1)
      <4>1. k1.dropped[SIGCANCEL] = 0 => kk.dropped[SIGCANCEL] = 0 /\ s # SIGCANCEL
        BY <2>1, <2>6, CancelAssumption DEF Dropped, KernelTyped, CountsTyped
      <4>2. ASSUME s # SIGCANCEL, NEW u \in Threads
            PROVE  SIGCANCEL \in k1.blocked[u] => SIGCANCEL \in kk.blocked[u]
        BY <2>1, <2>5, <4>2 DEF UserTyped
      <4>3. ASSUME k1.dropped[SIGCANCEL] = 0, NEW u \in Threads
            PROVE  Unblocked(k1.blocked[u], k1.frames[u])
        <5>1. Unblocked(kk.blocked[u], kk.frames[u])
          BY <4>1, <4>3 DEF KernelInv, CancelUnblocked
        <5> QED
          BY <3>1, <4>1, <4>2, <4>3, <5>1 DEF Unblocked
      <4> QED
        BY <4>3 DEF CancelUnblocked
    <3>5. SameVisits(k1, kk)
      BY <3>1 DEF SameVisits, Visits
    <3> QED
      BY <2>2, <2>3, <2>4, <3>2, <3>3, <3>4, <3>5 DEF KernelInv
  <2>7. CASE Entered(kk, k1, s)
    <3>1. /\ k1.fpu = AfterFpregsForSignal(kk.fpu, t, kk.cpu)
          /\ k1.ctx = [kk.ctx EXCEPT ![t] = Context("handle", own)]
          /\ k1.frames = [kk.frames EXCEPT ![t] = Append(@, frame)]
          /\ k1.dropped = kk.dropped
      BY <2>1, <2>7 DEF Entered, UserTyped
    <3>2. /\ frame.fpregs = kk.ctx[t].own /\ FpuTyped(k1.fpu) /\ ~ k1.fpu.fault
          /\ Held(k1.fpu, t, own) /\ OthersSame(k1.fpu, kk.fpu, t)
      BY <2>1, <3>1, FpregsSaved DEF KernelInv, FpuKept
    <3>3. kk.ctx[t] \in ContextType /\ kk.ctx[t].own \in FpuValues
      BY <2>1 DEF UserTyped, ContextType
    <3>4. frame \in FrameType
      BY <2>1, <3>2, <3>3 DEF FrameType, UserTyped
    <3>5. own \in FpuValues
      BY <3>2, <3>3 DEF FpuTyped
    <3>6. Context("handle", own) \in ContextType /\ Context("handle", own).own = own
          /\ Context("handle", own).at = "handle"
      BY <3>5 DEF Context, ContextType, Places
    <3>7. frame.ctx = kk.ctx[t] /\ frame.signo = s /\ frame.mask = kk.blocked[t]
      OBVIOUS
    <3> HIDE DEF own, frame
    <3>8. /\ \A u \in Threads \ {t} :
               /\ k1.ctx[u] = kk.ctx[u] /\ k1.frames[u] = kk.frames[u]
               /\ k1.blocked[u] = kk.blocked[u]
          /\ k1.ctx[t].at = "handle" /\ k1.ctx[t].own = own
          /\ k1.frames[t] = Append(kk.frames[t], frame)
          /\ k1.blocked[t] = kk.blocked[t] \cup {s}
          /\ kk.frames[t] \in Seq(FrameType)
      BY <2>1, <2>5, <3>1, <3>6 DEF UserTyped
    <3>9. /\ Nested(k1.ctx[t], k1.frames[t])
          /\ Unblocked(kk.blocked[t], kk.frames[t]) => Unblocked(k1.blocked[t], k1.frames[t])
          /\ \A place \in Places \ {"handle"} : Visits(k1, t, place) <=> Visits(kk, t, place)
      <4>1. Nested(kk.ctx[t], kk.frames[t])
        BY <2>1 DEF KernelInv, FramesNest
      <4>2. frame \in FrameType /\ frame.fpregs = kk.ctx[t].own
        BY <3>2, <3>4, <3>7
      <4>3. \A mask, mask1 :
              /\ Nested(k1.ctx[t], Append(kk.frames[t], frame))
              /\ Unblocked(mask, kk.frames[t]) /\ frame.mask = mask
                   /\ mask1 = mask \cup {frame.signo}
                   => Unblocked(mask1, Append(kk.frames[t], frame))
              /\ \A place \in Places \ {"handle"} :
                   VisitedBy(k1.ctx[t], Append(kk.frames[t], frame), place)
                     <=> VisitedBy(kk.ctx[t], kk.frames[t], place)
        <5>1. /\ kk.frames[t] \in Seq(FrameType) /\ frame.ctx = kk.ctx[t]
              /\ k1.ctx[t].at = "handle"
          BY <3>7, <3>8, Zenon
        <5> QED
          BY <5>1, <4>1, <4>2, PushFrame, Zenon
      <4> QED
        BY <3>7, <3>8, <4>3, Zenon DEF Visits
    <3>10. KernelTyped(k1)
      <4>1. UserTyped(k1)
        BY <2>1, <2>5, <3>1, <3>4, <3>6, <3>8 DEF UserTyped
      <4> QED
        BY <2>2, <2>3, <2>4, <3>2, <4>1 DEF KernelTyped
    <3>11. FpuKept(k1)
      <4>1. k1.cur = t /\ Held(k1.fpu, t, k1.ctx[t].own) /\ ~ k1.fpu.fault
        BY <2>2, <3>2, <3>8 DEF SameSched
      <4>2. ASSUME NEW u \in Threads \ {t}, Live(k1, u)
            PROVE  Parked(k1.fpu, u, k1.ctx[u].own)
        <5>1. Parked(kk.fpu, u, kk.ctx[u].own)
          BY <2>2, <4>2 DEF KernelInv, FpuKept, SameSched, Live
        <5> QED
          BY <2>1, <3>2, <3>8, <5>1, ParkedSame
      <4> QED
        BY <4>1, <4>2 DEF FpuKept
    <3>12. FramesNest(k1)
      BY <3>8, <3>9 DEF KernelInv, FramesNest
    <3>13. CancelUnblocked(k1)
      BY <3>1, <3>8, <3>9 DEF KernelInv, CancelUnblocked
    <3>14. SameVisits(k1, kk)
      BY <3>8, <3>9 DEF SameVisits, Visits
    <3> QED
      BY <2>2, <2>3, <2>4, <3>10, <3>11, <3>12, <3>13, <3>14 DEF KernelInv
  <2> QED
    BY <2>6, <2>7 DEF TakesSignal
<1> QED
  BY <1>1, <1>2, CheckForSignalTakes DEF KernelInv

-----------------------------------------------------------------------------
(* Steps of the kernel that leave signals and user contexts alone.         *)
LEMMA KernelSame ==
    ASSUME NEW kk, NEW k1, KernelInv(kk), IsKernel(k1), SameCounts(k1, kk), SameUser(k1, kk),
           SchedTyped(k1), Scheduled(k1), FpuTyped(k1.fpu), FpuKept(k1)
    PROVE  KernelInv(k1) /\ SameVisits(k1, kk)
<1>1. CountsTyped(k1) /\ Accounted(k1)
  BY DEF KernelInv, KernelTyped, CountsTyped, Accounted, PendingFor, SameCounts
<1>2. UserTyped(k1) /\ FramesNest(k1)
  BY DEF KernelInv, KernelTyped, UserTyped, FramesNest, SameUser
<1>3. CancelUnblocked(k1)
  BY DEF KernelInv, CancelUnblocked, SameUser, SameCounts
<1>4. SameVisits(k1, kk)
  BY DEF SameVisits, Visits, SameUser
<1> QED
  BY <1>1, <1>2, <1>3, <1>4 DEF KernelInv, KernelTyped

(* What a path through the kernel leaves alone.                            *)
Follows(k1, kk) ==
    k1.state = kk.state /\ k1.awaiter = kk.awaiter /\ SameVisits(k1, kk)

(* The way out of the kernel: the FPU is loaded for the thread that goes   *)
(* on, or TS is set.                                                       *)
LEMMA LeaveKernelStep ==
    ASSUME NEW kk, NEW k1, KernelInv(kk), k1 = LeaveKernel(kk)
    PROVE  /\ KernelInv(k1) /\ SameSched(k1, kk) /\ SameVisits(k1, kk)
           /\ FpuLoaded(k1.fpu, k1.cur)
<1> DEFINE t == kk.cur
           g == RestoreFpuState(kk.fpu, t)
<1>1. IsKernel(kk) /\ t \in Threads /\ FpuTyped(kk.fpu) /\ SchedTyped(kk)
  BY DEF KernelInv, KernelTyped, SchedTyped
<1>2. k1 = [kk EXCEPT !.fpu = g]
  BY <1>1 DEF LeaveKernel
<1> HIDE DEF g
<1>3. /\ IsKernel(k1) /\ SameSched(k1, kk) /\ SameCounts(k1, kk) /\ SameUser(k1, kk)
      /\ k1.fpu = g
  BY <1>1, <1>2 DEF IsKernel, KernelFields, SameSched, SameCounts, SameUser
<1>4. ~ kk.fpu.fault /\ Held(kk.fpu, t, kk.ctx[t].own)
  BY DEF KernelInv, FpuKept
<1>5. /\ FpuTyped(g) /\ ~ g.fault /\ Held(g, t, kk.ctx[t].own) /\ FpuLoaded(g, t)
      /\ OthersSame(g, kk.fpu, t)
  BY <1>1, <1>4, RestoreFpuLoads DEF g
<1>6. k1.cur = t /\ k1.ctx = kk.ctx /\ k1.state = kk.state
  BY <1>3 DEF SameSched, SameUser
<1>7. FpuKept(k1)
  <2>1. ASSUME NEW u \in Threads \ {t}, Live(k1, u)
        PROVE  Parked(g, u, kk.ctx[u].own)
    <3>1. Parked(kk.fpu, u, kk.ctx[u].own)
      BY <1>6, <2>1 DEF KernelInv, FpuKept, Live
    <3> QED
      BY <1>1, <1>5, <3>1, ParkedSame
  <2> QED
    BY <1>3, <1>5, <1>6, <2>1 DEF FpuKept
<1>8. SchedTyped(k1) /\ Scheduled(k1)
  BY <1>1, <1>3 DEF SchedTyped, SameSched, KernelInv, Scheduled, Queued, Live, Awaits
<1> QED
  BY <1>3, <1>5, <1>6, <1>7, <1>8, KernelSame

(* A switch to a live thread parks the FPU state of the old one and leaves *)
(* the kernel in the new one.                                              *)
LEMMA SwitchThreadStep ==
    ASSUME NEW kk, NEW k1, NEW to \in Threads, KernelInv(kk), k1 = SwitchThread(kk, to),
           Live(kk, to)
    PROVE  /\ KernelInv(k1) /\ FpuLoaded(k1.fpu, k1.cur) /\ k1.cur = to
           /\ k1.ready = kk.ready /\ k1.halted = kk.halted /\ Follows(k1, kk)
<1> DEFINE t == kk.cur
           g == SaveFpuState(kk.fpu, t, kk.cpu)
           k2 == [kk EXCEPT !.fpu = g, !.cur = to, !.fresh[to] = FALSE]
           k3 == IF kk.fresh[to] THEN k2 ELSE CheckForSignal(k2)
<1>1. /\ IsKernel(kk) /\ t \in Threads /\ kk.cpu \in CpuTypes /\ FpuTyped(kk.fpu)
      /\ SchedTyped(kk)
  BY DEF KernelInv, KernelTyped, SchedTyped
<1>2. k1 = LeaveKernel(k3)
  BY <1>1 DEF SwitchThread
<1>3. ~ kk.fpu.fault /\ Held(kk.fpu, t, kk.ctx[t].own)
  BY DEF KernelInv, FpuKept
<1>4. FpuTyped(g) /\ ~ g.fault /\ Parked(g, t, kk.ctx[t].own) /\ OthersSame(g, kk.fpu, t)
  BY <1>1, <1>3, SaveFpuParks
<1> HIDE DEF g
<1>5. /\ IsKernel(k2) /\ SameCounts(k2, kk) /\ SameUser(k2, kk)
      /\ k2.cur = to /\ k2.ready = kk.ready /\ k2.halted = kk.halted
      /\ k2.handler = kk.handler /\ k2.cpu = kk.cpu /\ k2.state = kk.state
      /\ k2.awaiter = kk.awaiter /\ k2.fresh = [kk.fresh EXCEPT ![to] = FALSE] /\ k2.fpu = g
  BY <1>1 DEF IsKernel, KernelFields, SameCounts, SameUser
<1> HIDE DEF k2
<1>6. SchedTyped(k2) /\ Scheduled(k2)
  BY <1>1, <1>5 DEF SchedTyped, KernelInv, Scheduled, Queued, Live, Awaits
<1>7. FpuKept(k2)
  <2>1. ASSUME NEW u \in Threads, Live(kk, u)
        PROVE  Parked(g, u, kk.ctx[u].own)
    <3>1. CASE u = t
      BY <1>4, <3>1
    <3>2. CASE u # t
      <4>1. Parked(kk.fpu, u, kk.ctx[u].own)
        BY <2>1, <3>2 DEF KernelInv, FpuKept
      <4> QED
        BY <1>1, <1>4, <3>2, <4>1, ParkedSame
    <3> QED
      BY <3>1, <3>2
  <2>2. Held(g, to, kk.ctx[to].own)
    BY <1>4, <2>1, ParkedHeld
  <2>3. k2.ctx = kk.ctx
    BY <1>5 DEF SameUser
  <2> QED
    BY <1>4, <1>5, <2>1, <2>2, <2>3 DEF FpuKept, Live
<1>8. KernelInv(k2) /\ SameVisits(k2, kk)
  BY <1>4, <1>5, <1>6, <1>7, KernelSame
<1>9. KernelInv(k3) /\ SameSched(k3, k2) /\ SameVisits(k3, kk)
  <2>1. CASE kk.fresh[to]
    BY <1>8, <2>1 DEF SameSched
  <2>2. CASE ~ kk.fresh[to]
    <3>1. KernelInv(k3) /\ SameSched(k3, k2) /\ SameVisits(k3, k2)
      BY <1>8, <2>2, CheckForSignalStep
    <3> QED
      BY <1>8, <3>1 DEF SameVisits
  <2> QED
    BY <2>1, <2>2
<1> HIDE DEF k3
<1>10. /\ KernelInv(k1) /\ SameSched(k1, k3) /\ SameVisits(k1, k3)
       /\ FpuLoaded(k1.fpu, k1.cur)
  BY <1>2, <1>9, LeaveKernelStep
<1>11. SameVisits(k1, kk)
  BY <1>9, <1>10 DEF SameVisits
<1> QED
  BY <1>5, <1>9, <1>10, <1>11 DEF SameSched, Follows

-----------------------------------------------------------------------------
(* Taking the head of the ready queue.                                     *)
LEMMA QueueTail ==
    ASSUME NEW q \in Seq(Threads), q # <<>>, Distinct(q)
    PROVE  /\ Head(q) \in Threads /\ Tail(q) \in Seq(Threads) /\ Distinct(Tail(q))
           /\ InQueue(q, Head(q))
           /\ \A t : InQueue(Tail(q), t) <=> InQueue(q, t) /\ t # Head(q)
<1> DEFINE n == Len(q)
           r == Tail(q)
<1>1. /\ n \in Nat \ {0} /\ DOMAIN q = 1..n /\ r \in Seq(Threads) /\ DOMAIN r = 1..(n - 1)
      /\ Head(q) = q[1] /\ q[1] \in Threads /\ \A i \in 1..(n - 1) : r[i] = q[i + 1]
  OBVIOUS
<1> HIDE DEF n, r
<1>2. \A i, j \in 1..n : q[i] = q[j] => i = j
  BY <1>1 DEF Distinct
<1>3. \A i \in 1..(n - 1) : i \in Nat /\ i + 1 \in 1..n
  BY <1>1
<1>4. Distinct(r)
  <2> SUFFICES ASSUME NEW i \in 1..(n - 1), NEW j \in 1..(n - 1), r[i] = r[j]
               PROVE  i = j
    BY <1>1 DEF Distinct
  <2>1. i + 1 = j + 1
    BY <1>1, <1>2, <1>3
  <2> QED
    BY <1>3, <2>1
<1>5. InQueue(q, Head(q))
  BY <1>1 DEF InQueue
<1>6. ASSUME NEW t PROVE InQueue(r, t) <=> InQueue(q, t) /\ t # Head(q)
  <2>1. ASSUME InQueue(r, t) PROVE InQueue(q, t) /\ t # Head(q)
    <3>1. PICK i \in 1..(n - 1) : r[i] = t
      BY <1>1, <2>1 DEF InQueue
    <3>2. q[i + 1] = t /\ i + 1 \in 1..n /\ i + 1 # 1 /\ 1 \in 1..n
      BY <1>1, <1>3, <3>1
    <3> QED
      BY <1>1, <1>2, <3>2 DEF InQueue
  <2>2. ASSUME InQueue(q, t), t # Head(q) PROVE InQueue(r, t)
    <3>1. PICK i \in 1..n : q[i] = t
      BY <1>1, <2>2 DEF InQueue
    <3>2. i # 1 /\ i - 1 \in 1..(n - 1) /\ (i - 1) + 1 = i
      BY <1>1, <2>2, <3>1
    <3>3. r[i - 1] = t
      BY <1>1, <3>1, <3>2
    <3> QED
      BY <1>1, <3>2, <3>3 DEF InQueue
  <2> QED
    BY <2>1, <2>2
<1> QED
  BY <1>1, <1>4, <1>5, <1>6 DEF r

(* Adding a thread to the ready queue that was not on it.                  *)
LEMMA QueueAppend ==
    ASSUME NEW q \in Seq(Threads), NEW x \in Threads, Distinct(q), ~ InQueue(q, x)
    PROVE  /\ Append(q, x) \in Seq(Threads) /\ Distinct(Append(q, x))
           /\ \A t : InQueue(Append(q, x), t) <=> InQueue(q, t) \/ t = x
<1> DEFINE n == Len(q)
           r == Append(q, x)
<1>1. /\ n \in Nat /\ DOMAIN q = 1..n /\ r \in Seq(Threads) /\ DOMAIN r = 1..(n + 1)
      /\ r[n + 1] = x /\ \A i \in 1..n : r[i] = q[i]
  OBVIOUS
<1> HIDE DEF n, r
<1>2. \A i \in 1..(n + 1) : i \in 1..n \/ i = n + 1
  BY <1>1
<1>3. \A i \in 1..n : i \in 1..(n + 1) /\ q[i] # x
  BY <1>1 DEF InQueue
<1>4. Distinct(r)
  BY <1>1, <1>2, <1>3 DEF Distinct
<1>5. \A t : InQueue(r, t) <=> InQueue(q, t) \/ t = x
  BY <1>1, <1>2, <1>3 DEF InQueue
<1> QED
  BY <1>1, <1>4, <1>5 DEF r

(* What a ready thread is: alive, and waiting for nobody.                  *)
LEMMA ReadyRuns ==
    ASSUME NEW kk, KernelInv(kk), NEW t \in Threads, Queued(kk, t)
    PROVE  Live(kk, t) /\ \A u \in Threads : ~ Awaits(kk, t, u)
BY DEF KernelInv, Scheduled

(* A switch to a thread that is not in the new ready queue.                *)
LEMMA DispatchStep ==
    ASSUME NEW kk, NEW k1, NEW q \in Seq(Threads), NEW to \in Threads, KernelInv(kk),
           Distinct(q), ~ InQueue(q, to),
           \A t \in Threads : InQueue(q, t) \/ t = to =>
               Live(kk, t) /\ \A u \in Threads : ~ Awaits(kk, t, u),
           k1 = SwitchThread([kk EXCEPT !.ready = q], to)
    PROVE  InUser(k1) /\ Follows(k1, kk)
<1> DEFINE k2 == [kk EXCEPT !.ready = q]
<1>1. IsKernel(kk) /\ SchedTyped(kk) /\ FpuTyped(kk.fpu) /\ FpuKept(kk)
  BY DEF KernelInv, KernelTyped
<1>2. /\ IsKernel(k2) /\ SameCounts(k2, kk) /\ SameUser(k2, kk)
      /\ k2.cur = kk.cur /\ k2.ready = q /\ k2.halted = kk.halted
      /\ k2.handler = kk.handler /\ k2.cpu = kk.cpu /\ k2.state = kk.state
      /\ k2.awaiter = kk.awaiter /\ k2.fresh = kk.fresh /\ k2.fpu = kk.fpu
  BY <1>1 DEF IsKernel, KernelFields, SameCounts, SameUser
<1>3. k1 = SwitchThread(k2, to)
  OBVIOUS
<1> HIDE DEF k2
<1>4. SchedTyped(k2)
  BY <1>1, <1>2 DEF SchedTyped
<1>5. Scheduled(k2)
  BY <1>2 DEF KernelInv, Scheduled, Queued, Live, Awaits
<1>6. FpuKept(k2)
  BY <1>1, <1>2 DEF FpuKept, SameUser, Live
<1>7. KernelInv(k2) /\ SameVisits(k2, kk) /\ Live(k2, to)
  BY <1>1, <1>2, <1>4, <1>5, <1>6, KernelSame DEF Live
<1>8. /\ KernelInv(k1) /\ FpuLoaded(k1.fpu, k1.cur) /\ k1.cur = to
      /\ k1.ready = k2.ready /\ k1.halted = k2.halted /\ Follows(k1, k2)
  BY <1>3, <1>7, SwitchThreadStep
<1>9. Follows(k1, kk)
  BY <1>2, <1>7, <1>8 DEF Follows, SameVisits
<1>10. CurrentRuns(k1)
  BY <1>2, <1>8, <1>9 DEF CurrentRuns, Queued, Live, Awaits, Follows
<1> QED
  BY <1>8, <1>9, <1>10 DEF InUser

(* The current thread gives up the CPU: it blocks or exits.                *)
LEMMA SwitchAwayStep ==
    ASSUME NEW kk, NEW k1, KernelInv(kk), k1 = SwitchAway(kk), ~ kk.halted
    PROVE  InUser(k1) /\ Follows(k1, kk)
<1>1. IsKernel(kk) /\ SchedTyped(kk) /\ FpuTyped(kk.fpu) /\ FpuKept(kk) /\ Distinct(kk.ready)
  BY DEF KernelInv, KernelTyped, Scheduled
<1>2. CASE kk.ready = <<>>
  <2>1. k1 = [kk EXCEPT !.halted = TRUE]
    BY <1>2 DEF SwitchAway
  <2>2. /\ IsKernel(k1) /\ SameCounts(k1, kk) /\ SameUser(k1, kk)
        /\ k1.cur = kk.cur /\ k1.ready = kk.ready /\ k1.halted = TRUE
        /\ k1.handler = kk.handler /\ k1.cpu = kk.cpu /\ k1.state = kk.state
        /\ k1.awaiter = kk.awaiter /\ k1.fresh = kk.fresh /\ k1.fpu = kk.fpu
    BY <1>1, <2>1 DEF IsKernel, KernelFields, SameCounts, SameUser
  <2>3. SchedTyped(k1)
    BY <1>1, <2>2 DEF SchedTyped
  <2>4. Scheduled(k1)
    BY <2>2 DEF KernelInv, Scheduled, Queued, Live, Awaits
  <2>5. FpuKept(k1)
    BY <1>1, <2>2 DEF FpuKept, SameUser, Live
  <2>6. KernelInv(k1) /\ SameVisits(k1, kk)
    BY <1>1, <2>2, <2>3, <2>4, <2>5, KernelSame
  <2> QED
    BY <2>2, <2>6 DEF InUser, Follows
<1>3. CASE kk.ready # <<>>
  <2> DEFINE to == Head(kk.ready)
             q == Tail(kk.ready)
  <2>1. k1 = SwitchThread([kk EXCEPT !.ready = q], to)
    BY <1>1, <1>3 DEF SwitchAway
  <2>2. /\ to \in Threads /\ q \in Seq(Threads) /\ Distinct(q) /\ Queued(kk, to)
        /\ \A t : InQueue(q, t) <=> Queued(kk, t) /\ t # to
    BY <1>1, <1>3, QueueTail DEF SchedTyped, Queued
  <2> HIDE DEF q, to
  <2>3. \A t \in Threads : InQueue(q, t) \/ t = to =>
          Live(kk, t) /\ \A u \in Threads : ~ Awaits(kk, t, u)
    BY <2>2, ReadyRuns
  <2> QED
    BY <2>1, <2>2, <2>3, DispatchStep
<1> QED
  BY <1>2, <1>3

(* The end of a trap: the current thread goes on, or is preempted.         *)
LEMMA TrapReturnsStep ==
    ASSUME NEW kk, NEW k1, KernelInv(kk), CurrentRuns(kk), k1 \in TrapReturns(kk)
    PROVE  InUser(k1) /\ Follows(k1, kk)
<1>1. CASE k1 = LeaveKernel(CheckForSignal(kk))
  <2> DEFINE k2 == CheckForSignal(kk)
  <2>1. KernelInv(k2) /\ SameSched(k2, kk) /\ SameVisits(k2, kk)
    BY CheckForSignalStep
  <2> HIDE DEF k2
  <2>2. /\ KernelInv(k1) /\ SameSched(k1, k2) /\ SameVisits(k1, k2)
        /\ FpuLoaded(k1.fpu, k1.cur)
    BY <1>1, <2>1, LeaveKernelStep DEF k2
  <2>3. SameSched(k1, kk) /\ SameVisits(k1, kk)
    BY <2>1, <2>2 DEF SameSched, SameVisits
  <2>4. CurrentRuns(k1)
    BY <2>3 DEF SameSched, CurrentRuns, Queued, Live, Awaits
  <2> QED
    BY <2>2, <2>3, <2>4 DEF InUser, Follows, SameSched
<1>2. CASE /\ 1 \in DOMAIN kk.ready
           /\ k1 = SwitchThread([kk EXCEPT !.ready = Append(Tail(@), kk.cur)], Head(kk.ready))
  <2> DEFINE to == Head(kk.ready)
             c == kk.cur
             q == Append(Tail(kk.ready), c)
  <2>1. /\ IsKernel(kk) /\ kk.ready \in Seq(Threads) /\ kk.ready # <<>> /\ c \in Threads
        /\ Distinct(kk.ready)
    BY <1>2 DEF KernelInv, KernelTyped, SchedTyped, Scheduled
  <2>2. /\ to \in Threads /\ Tail(kk.ready) \in Seq(Threads) /\ Distinct(Tail(kk.ready))
        /\ Queued(kk, to)
        /\ \A t : InQueue(Tail(kk.ready), t) <=> Queued(kk, t) /\ t # to
    BY <2>1, QueueTail DEF Queued
  <2>3. ~ Queued(kk, c) /\ Live(kk, c) /\ \A u \in Threads : ~ Awaits(kk, c, u)
    BY DEF CurrentRuns
  <2>4. /\ q \in Seq(Threads) /\ Distinct(q)
        /\ \A t : InQueue(q, t) <=> InQueue(Tail(kk.ready), t) \/ t = c
    BY <2>1, <2>2, <2>3, QueueAppend
  <2>5. k1 = SwitchThread([kk EXCEPT !.ready = q], to)
    BY <1>2, <2>1
  <2> HIDE DEF q, to
  <2>6. \A t \in Threads : InQueue(q, t) \/ t = to =>
          Live(kk, t) /\ \A u \in Threads : ~ Awaits(kk, t, u)
    BY <2>2, <2>3, <2>4, ReadyRuns
  <2>7. ~ InQueue(q, to)
    BY <2>2, <2>3, <2>4
  <2> QED
    BY <2>2, <2>4, <2>5, <2>6, <2>7, DispatchStep
<1> QED
  BY <1>1, <1>2 DEF TrapReturns

-----------------------------------------------------------------------------
(* Steps that change what the current thread has in user space, and no     *)
(* other thread's.                                                         *)
UserChanges(k1, kk) ==
    /\ IsKernel(k1) /\ SameCounts(k1, kk)
    /\ k1.halted \in BOOLEAN /\ k1.handler \in BOOLEAN
    /\ k1.cur = kk.cur /\ k1.ready = kk.ready /\ k1.cpu = kk.cpu
    /\ k1.state = kk.state /\ k1.fresh = kk.fresh /\ k1.awaiter = kk.awaiter
    /\ \A u \in Threads \ {kk.cur} :
         /\ k1.ctx[u] = kk.ctx[u] /\ k1.frames[u] = kk.frames[u]
         /\ k1.blocked[u] = kk.blocked[u]

(* A system call that changes only what belongs to the thread that made    *)
(* it: it suffices that its own mask, frames and FPU state are right.      *)
LEMMA UserChangesStep ==
    ASSUME NEW kk, NEW k1, NEW t, t = kk.cur, KernelInv(kk), UserChanges(k1, kk),
           UserTyped(k1), Nested(k1.ctx[t], k1.frames[t]),
           Unblocked(kk.blocked[t], kk.frames[t]) => Unblocked(k1.blocked[t], k1.frames[t]),
           FpuTyped(k1.fpu), ~ k1.fpu.fault, Held(k1.fpu, t, k1.ctx[t].own),
           OthersSame(k1.fpu, kk.fpu, t)
    PROVE  KernelInv(k1) /\ (CurrentRuns(kk) => CurrentRuns(k1))
<1>1. SchedTyped(k1) /\ t \in Threads
  BY DEF KernelInv, KernelTyped, SchedTyped, UserChanges
<1>2. Scheduled(k1) /\ (CurrentRuns(kk) => CurrentRuns(k1))
  BY DEF KernelInv, UserChanges, Scheduled, CurrentRuns, Queued, Live, Awaits
<1>3. CountsTyped(k1) /\ Accounted(k1)
  BY DEF KernelInv, KernelTyped, CountsTyped, Accounted, PendingFor, SameCounts, UserChanges
<1>4. FpuKept(k1)
  <2>1. ASSUME NEW u \in Threads \ {t}, Live(k1, u)
        PROVE  Parked(k1.fpu, u, k1.ctx[u].own)
    <3>1. Parked(kk.fpu, u, kk.ctx[u].own) /\ k1.ctx[u] = kk.ctx[u]
      BY <2>1 DEF KernelInv, FpuKept, Live, UserChanges
    <3> QED
      BY <1>1, <3>1, ParkedSame
  <2>2. k1.cur = t
    BY DEF UserChanges
  <2> QED
    BY <2>1, <2>2 DEF FpuKept
<1>5. FramesNest(k1)
  BY DEF KernelInv, FramesNest, UserChanges
<1>6. CancelUnblocked(k1)
  BY DEF KernelInv, CancelUnblocked, UserChanges, SameCounts
<1> QED
  BY <1>1, <1>2, <1>3, <1>4, <1>5, <1>6 DEF KernelInv, KernelTyped, UserChanges

(* Where the code at a place may go on: it stays under its signal frames.  *)
Leads(at, place) ==
    \/ at \in BasePlaces \ HandlerPlaces /\ place \in BasePlaces
    \/ at \in HandlerPlaces \ BasePlaces /\ place \in HandlerPlaces
    \/ at \in {"exit", "link", "free", "gone"} /\ place \in {"link", "free", "gone"}

(* The current thread of k goes on at place.                               *)
Goes(k1, place) ==
    /\ k1.cur = cur /\ k1.state = k.state /\ k1.frames = k.frames
    /\ \A t \in Threads \ {cur} : k1.ctx[t] = k.ctx[t]
    /\ k1.ctx[cur].at = place /\ k1.ctx[cur].own = k.ctx[cur].own

(* A thread that goes from one place of its code to the next.              *)
LEMMA GoStep ==
    ASSUME NEW k1, NEW place, InUser(k), ~ k.halted, k1 = Go(k, place),
           Leads(k.ctx[cur].at, place)
    PROVE  /\ KernelInv(k1) /\ CurrentRuns(k1) /\ k1.fpu = k.fpu /\ ~ k1.halted
           /\ Goes(k1, place)
<1> DEFINE c == k.ctx[cur]
           c1 == [[c EXCEPT !.at = place] EXCEPT !.args = "mine"]
<1>1. KernelInv(k) /\ IsKernel(k) /\ SchedTyped(k) /\ UserTyped(k) /\ FpuTyped(k.fpu)
      /\ cur \in Threads /\ CurrentRuns(k)
  BY DEF InUser, KernelInv, KernelTyped, SchedTyped, cur
<1>2. c \in ContextType /\ Nested(c, k.frames[cur]) /\ Len(k.frames[cur]) \in Nat
  BY <1>1 DEF UserTyped, KernelInv, FramesNest
<1>3. place \in Places /\ place \in PlacesAt(Len(k.frames[cur]) + 1)
  BY <1>2 DEF Leads, Nested, PlacesAt, BasePlaces, HandlerPlaces, Places
<1>4. c1 \in ContextType /\ c1.at = place /\ c1.own = c.own
  BY <1>2, <1>3 DEF ContextType
<1>5. k1 = [k EXCEPT !.ctx = [@ EXCEPT ![cur] = c1]]
  BY <1>1 DEF Go, IsKernel, KernelFields, UserTyped
<1> HIDE DEF c1
<1>6. /\ IsKernel(k1) /\ SameSched(k1, k) /\ SameCounts(k1, k) /\ k1.fpu = k.fpu
      /\ k1.frames = k.frames /\ k1.blocked = k.blocked /\ k1.stackok = k.stackok
      /\ k1.ctx = [k.ctx EXCEPT ![cur] = c1]
  BY <1>1, <1>5 DEF IsKernel, KernelFields, SameSched, SameCounts
<1>7. /\ UserTyped(k1) /\ k1.ctx[cur] = c1
      /\ \A u \in Threads \ {cur} : k1.ctx[u] = k.ctx[u]
  BY <1>1, <1>4, <1>6 DEF UserTyped
<1>8. UserChanges(k1, k)
  BY <1>1, <1>6, <1>7 DEF UserChanges, SameSched, SchedTyped, cur
<1>9. Nested(c1, k1.frames[cur])
  BY <1>2, <1>3, <1>4, <1>6 DEF Nested
<1>10. ~ k1.fpu.fault /\ Held(k1.fpu, cur, c1.own) /\ OthersSame(k1.fpu, k.fpu, cur)
  BY <1>1, <1>4, <1>6 DEF KernelInv, FpuKept, OthersSame, cur
<1>11. KernelInv(k1) /\ CurrentRuns(k1)
  BY <1>1, <1>6, <1>7, <1>8, <1>9, <1>10, UserChangesStep DEF cur
<1> QED
  BY <1>4, <1>6, <1>7, <1>11 DEF Goes, SameSched, cur

(* System calls of the current thread that set flags or its mask.          *)
LEMMA FlagStep ==
    ASSUME NEW kk, NEW k1, KernelInv(kk), CurrentRuns(kk),
           k1 \in {SetThreadLocal(kk), SetSignalHandler(kk)}
    PROVE  KernelInv(k1) /\ CurrentRuns(k1) /\ Follows(k1, kk)
<1>1. IsKernel(kk) /\ SchedTyped(kk) /\ FpuTyped(kk.fpu) /\ Scheduled(kk) /\ FpuKept(kk)
  BY DEF KernelInv, KernelTyped
<1>2. /\ IsKernel(k1) /\ SameCounts(k1, kk) /\ SameUser(k1, kk) /\ k1.fpu = kk.fpu
      /\ k1.cur = kk.cur /\ k1.ready = kk.ready /\ k1.halted = kk.halted
      /\ k1.cpu = kk.cpu /\ k1.state = kk.state /\ k1.fresh = kk.fresh
      /\ k1.awaiter = kk.awaiter /\ k1.handler \in {kk.handler, TRUE}
  BY <1>1 DEF SetThreadLocal, SetSignalHandler, IsKernel, KernelFields, SameCounts, SameUser
<1>3. SchedTyped(k1)
  BY <1>1, <1>2 DEF SchedTyped
<1>4. Scheduled(k1) /\ CurrentRuns(k1)
  BY <1>1, <1>2 DEF Scheduled, CurrentRuns, Queued, Live, Awaits
<1>5. FpuKept(k1)
  BY <1>1, <1>2 DEF FpuKept, SameUser, Live
<1> QED
  BY <1>1, <1>2, <1>3, <1>4, <1>5, KernelSame DEF Follows

(* A mask that blocks SIGCANCEL no more than before.                       *)
LEMMA UnblockedLess ==
    ASSUME NEW m, NEW n, NEW fs, NEW gs, gs = fs, SIGCANCEL \in n => SIGCANCEL \in m
    PROVE  Unblocked(m, fs) => Unblocked(n, gs)
BY DEF Unblocked

(* GET_SET_SIGNAL_MASK, for the calls that do not block SIGCANCEL.         *)
LEMMA SigmaskStep ==
    ASSUME NEW kk, NEW k1, NEW how, NEW set \in SUBSET SignalSet, KernelInv(kk),
           CurrentRuns(kk), how = "unblock" \/ SIGCANCEL \notin set,
           k1 = GetSetSignalMask(kk, how, set)
    PROVE  KernelInv(k1) /\ CurrentRuns(k1) /\ Follows(k1, kk)
<1> DEFINE t == kk.cur
           old == kk.blocked[t]
           mask == CASE how = "block" -> old \cup set
                     [] how = "setmask" -> set
                     [] how = "unblock" -> old \ set
                     [] OTHER -> old
<1>1. /\ IsKernel(kk) /\ SchedTyped(kk) /\ UserTyped(kk) /\ FpuTyped(kk.fpu) /\ FpuKept(kk)
      /\ t \in Threads /\ Nested(kk.ctx[t], kk.frames[t])
  BY DEF KernelInv, KernelTyped, SchedTyped, FramesNest
<1>2. mask \in SUBSET SignalSet /\ (SIGCANCEL \in mask => SIGCANCEL \in old)
  BY <1>1 DEF UserTyped
<1>3. k1 = [kk EXCEPT !.blocked = [@ EXCEPT ![t] = mask]]
  BY <1>1 DEF GetSetSignalMask, IsKernel, KernelFields
<1> HIDE DEF mask, old
<1>4. /\ IsKernel(k1) /\ SameSched(k1, kk) /\ SameCounts(k1, kk) /\ k1.fpu = kk.fpu
      /\ k1.frames = kk.frames /\ k1.ctx = kk.ctx /\ k1.stackok = kk.stackok
      /\ k1.blocked = [kk.blocked EXCEPT ![t] = mask]
  BY <1>1, <1>3 DEF IsKernel, KernelFields, SameSched, SameCounts
<1>5. /\ UserTyped(k1) /\ k1.blocked[t] = mask
      /\ \A u \in Threads \ {t} : k1.blocked[u] = kk.blocked[u]
  BY <1>1, <1>2, <1>4 DEF UserTyped
<1>6. UserChanges(k1, kk)
  BY <1>1, <1>4, <1>5 DEF UserChanges, SameSched, SchedTyped
<1>7. Unblocked(kk.blocked[t], kk.frames[t]) => Unblocked(k1.blocked[t], k1.frames[t])
  <2>1. /\ k1.frames[t] = kk.frames[t]
        /\ SIGCANCEL \in k1.blocked[t] => SIGCANCEL \in kk.blocked[t]
    BY <1>2, <1>4, <1>5 DEF old
  <2> QED
    BY <2>1, UnblockedLess
<1>8. ~ k1.fpu.fault /\ Held(k1.fpu, t, k1.ctx[t].own) /\ OthersSame(k1.fpu, kk.fpu, t)
  BY <1>1, <1>4 DEF FpuKept, OthersSame
<1>9. KernelInv(k1) /\ CurrentRuns(k1)
  BY <1>1, <1>4, <1>5, <1>6, <1>7, <1>8, UserChangesStep
<1> QED
  BY <1>4, <1>9 DEF Follows, SameSched, SameVisits, Visits

(* Signals made pending.                                                   *)
LEMMA CountsChangeStep ==
    ASSUME NEW kk, NEW k1, KernelInv(kk), CurrentRuns(kk), IsKernel(k1), SameSched(k1, kk),
           SameUser(k1, kk), k1.fpu = kk.fpu, k1.dropped = kk.dropped, CountsTyped(k1),
           Accounted(k1)
    PROVE  KernelInv(k1) /\ CurrentRuns(k1) /\ Follows(k1, kk)
<1>1. SchedTyped(k1)
  BY DEF KernelInv, KernelTyped, SchedTyped, SameSched
<1>2. Scheduled(k1) /\ CurrentRuns(k1)
  BY DEF KernelInv, Scheduled, CurrentRuns, Queued, Live, Awaits, SameSched
<1>3. FpuKept(k1)
  BY DEF KernelInv, FpuKept, SameUser, SameSched, Live
<1>4. UserTyped(k1) /\ FramesNest(k1)
  BY DEF KernelInv, KernelTyped, UserTyped, FramesNest, SameUser
<1>5. CancelUnblocked(k1)
  BY DEF KernelInv, CancelUnblocked, SameUser
<1>6. Follows(k1, kk)
  BY DEF Follows, SameVisits, Visits, SameUser, SameSched
<1> QED
  BY <1>1, <1>2, <1>3, <1>4, <1>5, <1>6 DEF KernelInv, KernelTyped

(* SIGNAL_THREAD: the signal becomes pending for the thread.               *)
LEMMA SignalThreadStep ==
    ASSUME NEW kk, NEW k1, NEW t \in Threads, NEW s \in SignalSet, KernelInv(kk),
           CurrentRuns(kk), k1 = SignalThread(kk, t, s)
    PROVE  KernelInv(k1) /\ CurrentRuns(k1) /\ Follows(k1, kk)
<1>1. IsKernel(kk) /\ CountsTyped(kk) /\ Accounted(kk)
  BY DEF KernelInv, KernelTyped
<1>2. /\ IsKernel(k1) /\ SameSched(k1, kk) /\ SameUser(k1, kk) /\ k1.fpu = kk.fpu
      /\ k1.handled = kk.handled /\ k1.dropped = kk.dropped /\ k1.forgotten = kk.forgotten
      /\ k1.ppending = kk.ppending /\ k1.pending = [kk.pending EXCEPT ![t] = @ \cup {s}]
      /\ k1.posted = [kk.posted EXCEPT ![s] = IF s \in kk.pending[t] THEN @ ELSE @ + 1]
  BY <1>1 DEF SignalThread, IsKernel, KernelFields, SameSched, SameUser
<1>3. CountsTyped(k1)
  BY <1>1, <1>2 DEF CountsTyped
<1>4. ASSUME NEW x \in SignalSet
      PROVE  k1.posted[x] = k1.handled[x] + k1.dropped[x] + k1.forgotten[x]
               + Cardinality(PendingFor(k1, x)) + Cardinality({x} \cap k1.ppending)
  <2>1. kk.posted[x] = kk.handled[x] + kk.dropped[x] + kk.forgotten[x]
          + Cardinality(PendingFor(kk, x)) + Cardinality({x} \cap kk.ppending)
    BY <1>1 DEF Accounted
  <2>2. PendingFor(kk, x) \in SUBSET Threads
    BY DEF PendingFor
  <2>3. CASE x # s \/ s \in kk.pending[t]
    <3>1. k1.posted[x] = kk.posted[x] /\ PendingFor(k1, x) = PendingFor(kk, x)
      BY <1>1, <1>2, <2>3 DEF PendingFor, CountsTyped
    <3> QED
      BY <1>2, <2>1, <3>1
  <2>4. CASE x = s /\ s \notin kk.pending[t]
    <3>1. /\ k1.posted[x] = kk.posted[x] + 1 /\ t \notin PendingFor(kk, x)
          /\ PendingFor(k1, x) = PendingFor(kk, x) \cup {t}
      BY <1>1, <1>2, <2>4 DEF PendingFor, CountsTyped
    <3>2. /\ Cardinality(PendingFor(k1, x)) = Cardinality(PendingFor(kk, x)) + 1
          /\ Cardinality(PendingFor(kk, x)) \in Nat
      BY <2>2, <3>1, CountOf
    <3>3. Cardinality({x} \cap kk.ppending) \in Nat
      BY CountOne
    <3>4. kk.handled[x] \in Nat /\ kk.dropped[x] \in Nat /\ kk.forgotten[x] \in Nat
      BY <1>1 DEF CountsTyped
    <3> QED
      BY <1>2, <2>1, <3>1, <3>2, <3>3, <3>4
  <2> QED
    BY <2>3, <2>4
<1> QED
  BY <1>2, <1>3, <1>4, CountsChangeStep DEF Accounted

(* SIGNAL_PROCESS: the signal becomes pending for the process.             *)
LEMMA SignalProcessStep ==
    ASSUME NEW kk, NEW k1, NEW s \in SignalSet, KernelInv(kk), CurrentRuns(kk),
           k1 = SignalProcess(kk, s)
    PROVE  KernelInv(k1) /\ CurrentRuns(k1) /\ Follows(k1, kk)
<1>1. IsKernel(kk) /\ CountsTyped(kk) /\ Accounted(kk)
  BY DEF KernelInv, KernelTyped
<1>2. /\ IsKernel(k1) /\ SameSched(k1, kk) /\ SameUser(k1, kk) /\ k1.fpu = kk.fpu
      /\ k1.handled = kk.handled /\ k1.dropped = kk.dropped /\ k1.forgotten = kk.forgotten
      /\ k1.ppending = kk.ppending \cup {s} /\ k1.pending = kk.pending
      /\ k1.posted = [kk.posted EXCEPT ![s] = IF s \in kk.ppending THEN @ ELSE @ + 1]
  BY <1>1 DEF SignalProcess, IsKernel, KernelFields, SameSched, SameUser
<1>3. CountsTyped(k1)
  BY <1>1, <1>2 DEF CountsTyped
<1>4. ASSUME NEW x \in SignalSet
      PROVE  k1.posted[x] = k1.handled[x] + k1.dropped[x] + k1.forgotten[x]
               + Cardinality(PendingFor(k1, x)) + Cardinality({x} \cap k1.ppending)
  <2>1. kk.posted[x] = kk.handled[x] + kk.dropped[x] + kk.forgotten[x]
          + Cardinality(PendingFor(kk, x)) + Cardinality({x} \cap kk.ppending)
    BY <1>1 DEF Accounted
  <2>2. PendingFor(kk, x) \in SUBSET Threads /\ PendingFor(k1, x) = PendingFor(kk, x)
    BY <1>2 DEF PendingFor
  <2>3. Cardinality(PendingFor(kk, x)) \in Nat
    BY <2>2, CountOf
  <2>4. /\ Cardinality({x} \cap kk.ppending) = IF x \in kk.ppending THEN 1 ELSE 0
        /\ Cardinality({x} \cap k1.ppending) = IF x \in k1.ppending THEN 1 ELSE 0
    BY CountOne
  <2>5. /\ kk.handled[x] \in Nat /\ kk.dropped[x] \in Nat /\ kk.forgotten[x] \in Nat
        /\ kk.posted[x] \in Nat
        /\ k1.posted[x] = kk.posted[x] + IF x = s /\ s \notin kk.ppending THEN 1 ELSE 0
    BY <1>1, <1>2 DEF CountsTyped
  <2>6. x \in k1.ppending <=> x = s \/ x \in kk.ppending
    BY <1>2
  <2> QED
    BY <1>2, <2>1, <2>2, <2>3, <2>4, <2>5, <2>6
<1> QED
  BY <1>2, <1>3, <1>4, CountsChangeStep DEF Accounted

(* START_THREAD of a thread that does not run: a new context, an empty FPU *)
(* state and no frames; the signals that were pending for it are           *)
(* forgotten.                                                              *)
Started(k1, kk, t) ==
    /\ k1.state = [kk.state EXCEPT ![t] = "running"]
    /\ k1.ctx[t].at = "entry" /\ k1.frames[t] = <<>>
    /\ \A u \in Threads \ {t} : k1.ctx[u] = kk.ctx[u] /\ k1.frames[u] = kk.frames[u]

(* START_THREAD preserves the invariant of the kernel.                     *)
LEMMA StartThreadStep ==
    ASSUME NEW kk, NEW k1, NEW t \in Threads, NEW set \in SUBSET SignalSet,
           KernelInv(kk), CurrentRuns(kk), CanStart(kk, t), k1 = StartThread(kk, t, set)
    PROVE  KernelInv(k1) /\ CurrentRuns(k1) /\ Started(k1, kk, t)
<1> DEFINE c == kk.cur
           g == PrepareFpu(kk.fpu, t)
           q == Append(kk.ready, t)
           lost == [s \in SignalSet |-> IF s \in kk.pending[t] THEN kk.forgotten[s] + 1
                                                              ELSE kk.forgotten[s]]
<1>1. /\ IsKernel(kk) /\ SchedTyped(kk) /\ CountsTyped(kk) /\ UserTyped(kk)
      /\ FpuTyped(kk.fpu) /\ Scheduled(kk) /\ FpuKept(kk) /\ c \in Threads
      /\ FramesNest(kk) /\ CancelUnblocked(kk) /\ Accounted(kk)
  BY DEF KernelInv, KernelTyped, SchedTyped
<1>2. ~ Live(kk, t) /\ t # c /\ ~ Queued(kk, t) /\ kk.state[t] # "running"
  BY <1>1 DEF CanStart, Live, CurrentRuns, Scheduled
<1>3. /\ FpuTyped(g) /\ ~ g.fault /\ Parked(g, t, InitFpu)
      /\ g.regs = kk.fpu.regs /\ g.ts = kk.fpu.ts /\ OthersSame(g, kk.fpu, t)
  BY <1>1, PrepareFpuParks DEF FpuKept
<1>4. /\ q \in Seq(Threads) /\ Distinct(q)
      /\ \A u : InQueue(q, u) <=> Queued(kk, u) \/ u = t
  BY <1>1, <1>2, QueueAppend DEF SchedTyped, Scheduled, Queued
<1> DEFINE c1 == Context("entry", InitFpu)
           mask == set \cap LowSignals
<1>5. k1 = [kk EXCEPT !.state[t] = "running", !.fresh[t] = TRUE, !.awaiter[t] = t,
                      !.forgotten = lost, !.pending[t] = {}, !.blocked[t] = mask, !.fpu = g,
                      !.ctx[t] = c1, !.frames[t] = <<>>, !.stackok[t] = TRUE, !.ready = q]
  BY <1>1 DEF StartThread, IsKernel, KernelFields
<1> HIDE DEF g, q, lost, c1, mask
<1>6. IsKernel(kk)
  BY <1>1
<1>7. IsKernel(k1)
  BY <1>5, <1>6 DEF IsKernel, KernelFields
<1>8. /\ k1.fpu = g /\ k1.ready = q /\ k1.forgotten = lost
      /\ k1.cur = kk.cur /\ k1.halted = kk.halted /\ k1.handler = kk.handler
      /\ k1.cpu = kk.cpu /\ k1.state = [kk.state EXCEPT ![t] = "running"]
      /\ k1.fresh = [kk.fresh EXCEPT ![t] = TRUE]
      /\ k1.awaiter = [kk.awaiter EXCEPT ![t] = t]
  BY <1>5, <1>6 DEF IsKernel, KernelFields
<1>9. /\ k1.pending = [kk.pending EXCEPT ![t] = {}] /\ k1.ppending = kk.ppending
      /\ k1.posted = kk.posted /\ k1.handled = kk.handled /\ k1.dropped = kk.dropped
      /\ k1.blocked = [kk.blocked EXCEPT ![t] = mask] /\ k1.ctx = [kk.ctx EXCEPT ![t] = c1]
      /\ k1.frames = [kk.frames EXCEPT ![t] = <<>>]
      /\ k1.stackok = [kk.stackok EXCEPT ![t] = TRUE]
  BY <1>5, <1>6 DEF IsKernel, KernelFields
<1>10. /\ SchedTyped(k1) /\ Live(k1, t) /\ \A u \in Threads \ {t} : Live(k1, u) <=> Live(kk, u)
       /\ k1.awaiter[t] = t /\ \A u \in Threads \ {t} : k1.awaiter[u] = kk.awaiter[u]
  <2>1. SchedTyped(kk)
    BY <1>1
  <2>2. /\ k1.state \in [Threads -> {"created", "running", "zombie"}] /\ Live(k1, t)
        /\ \A u \in Threads \ {t} : Live(k1, u) <=> Live(kk, u)
    <3>1. /\ k1.state = [kk.state EXCEPT ![t] = "running"]
          /\ kk.state \in [Threads -> {"created", "running", "zombie"}]
      BY <1>8, <2>1 DEF SchedTyped
    <3> QED
      BY <3>1 DEF Live
  <2>3. /\ k1.fresh \in [Threads -> BOOLEAN] /\ k1.awaiter \in [Threads -> Threads]
        /\ k1.awaiter[t] = t /\ \A u \in Threads \ {t} : k1.awaiter[u] = kk.awaiter[u]
    <3>1. /\ k1.fresh = [kk.fresh EXCEPT ![t] = TRUE] /\ kk.fresh \in [Threads -> BOOLEAN]
          /\ k1.awaiter = [kk.awaiter EXCEPT ![t] = t] /\ kk.awaiter \in [Threads -> Threads]
      BY <1>8, <2>1 DEF SchedTyped
    <3> QED
      BY <3>1
  <2>4. /\ k1.cur = kk.cur /\ k1.ready = q /\ k1.halted = kk.halted
        /\ k1.handler = kk.handler /\ k1.cpu = kk.cpu /\ q \in Seq(Threads)
    BY <1>4, <1>8
  <2> QED
    BY <2>1, <2>2, <2>3, <2>4 DEF SchedTyped
<1>11. \A a, u \in Threads : Awaits(k1, a, u) <=> u # t /\ Awaits(kk, a, u)
  BY <1>10 DEF Awaits
<1>12. \A u : Queued(k1, u) <=> Queued(kk, u) \/ u = t
  BY <1>4, <1>8 DEF Queued
<1>13. Scheduled(k1)
  <2>1. \A u \in Threads : Queued(k1, u) => Live(k1, u)
    BY <1>1, <1>10, <1>12 DEF Scheduled
  <2>2. ASSUME NEW a \in Threads, NEW u \in Threads, Awaits(k1, a, u)
        PROVE  /\ Live(k1, a) /\ ~ Queued(k1, a)
               /\ \A v \in Threads : Awaits(k1, a, v) => v = u
    <3>1. /\ Live(kk, a) /\ ~ Queued(kk, a)
          /\ \A v \in Threads : Awaits(kk, a, v) => v = u
      BY <1>1, <1>11, <2>2 DEF Scheduled
    <3> QED
      BY <1>2, <1>10, <1>11, <1>12, <3>1
  <2> QED
    BY <1>4, <1>8, <2>1, <2>2 DEF Scheduled
<1>14. CurrentRuns(k1)
  BY <1>1, <1>2, <1>8, <1>10, <1>11, <1>12 DEF CurrentRuns
<1>15. /\ \A u \in Threads \ {t} :
            /\ k1.ctx[u] = kk.ctx[u] /\ k1.frames[u] = kk.frames[u]
            /\ k1.blocked[u] = kk.blocked[u]
       /\ k1.ctx[t] = c1 /\ k1.frames[t] = <<>> /\ k1.blocked[t] = mask
  <2>1. UserTyped(kk)
    BY <1>1
  <2> QED
    BY <1>9, <2>1 DEF UserTyped
<1>16. /\ k1.ctx[t].at = "entry" /\ k1.ctx[t].own = InitFpu /\ c1 \in ContextType
  BY <1>15 DEF c1, Context, ContextType, Places, FpuValues
<1>17. UserTyped(k1)
  <2>1. UserTyped(kk)
    BY <1>1
  <2>2. mask \in SUBSET SignalSet /\ <<>> \in Seq(FrameType)
    BY DEF mask
  <2>3. /\ k1.blocked \in [Threads -> SUBSET SignalSet]
        /\ k1.stackok \in [Threads -> BOOLEAN]
    BY <1>9, <2>1, <2>2 DEF UserTyped
  <2>4. k1.ctx \in [Threads -> ContextType] /\ k1.frames \in [Threads -> Seq(FrameType)]
    BY <1>9, <1>16, <2>1, <2>2 DEF UserTyped
  <2> QED
    BY <2>3, <2>4 DEF UserTyped
<1>18. FpuKept(k1)
  <2>1. Held(g, c, kk.ctx[c].own)
    BY <1>1, <1>2, <1>3 DEF FpuKept, Held, OthersSame
  <2>2. ASSUME NEW u \in Threads \ {c}, Live(k1, u)
        PROVE  Parked(g, u, k1.ctx[u].own)
    <3>1. CASE u = t
      BY <1>3, <1>16, <3>1
    <3>2. CASE u # t
      <4>1. Parked(kk.fpu, u, kk.ctx[u].own)
        BY <1>1, <1>10, <2>2, <3>2 DEF FpuKept
      <4> QED
        BY <1>3, <1>15, <3>2, <4>1, ParkedSame
    <3> QED
      BY <3>1, <3>2
  <2>3. k1.fpu = g /\ k1.cur = c /\ k1.ctx[c] = kk.ctx[c]
    BY <1>1, <1>2, <1>8, <1>15
  <2> QED
    BY <1>3, <2>1, <2>2, <2>3 DEF FpuKept
<1>19. FramesNest(k1)
  <2>1. Nested(k1.ctx[t], k1.frames[t])
    BY <1>15, <1>16 DEF Nested, PlacesAt, BasePlaces
  <2> QED
    BY <1>1, <1>15, <2>1 DEF FramesNest
<1>20. CancelUnblocked(k1)
  <2>1. Unblocked(k1.blocked[t], k1.frames[t])
    BY <1>15, CancelAssumption DEF Unblocked, mask
  <2> QED
    BY <1>1, <1>9, <1>15, <2>1 DEF CancelUnblocked
<1>21. CountsTyped(k1)
  <2>1. CountsTyped(kk)
    BY <1>1
  <2>2. k1.forgotten \in [SignalSet -> Nat]
    BY <1>8, <2>1 DEF CountsTyped, lost
  <2>3. k1.pending \in [Threads -> SUBSET SignalSet]
    BY <1>9, <2>1 DEF CountsTyped
  <2> QED
    BY <1>9, <2>1, <2>2, <2>3 DEF CountsTyped
<1>22. ASSUME NEW x \in SignalSet
       PROVE  k1.posted[x] = k1.handled[x] + k1.dropped[x] + k1.forgotten[x]
                + Cardinality(PendingFor(k1, x)) + Cardinality({x} \cap k1.ppending)
  <2>1. kk.posted[x] = kk.handled[x] + kk.dropped[x] + kk.forgotten[x]
          + Cardinality(PendingFor(kk, x)) + Cardinality({x} \cap kk.ppending)
    BY <1>1 DEF Accounted
  <2>2. PendingFor(kk, x) \in SUBSET Threads /\ (t \in PendingFor(kk, x) <=> x \in kk.pending[t])
    BY DEF PendingFor
  <2>3. PendingFor(k1, x) = PendingFor(kk, x) \ {t}
    BY <1>1, <1>9 DEF PendingFor, CountsTyped
  <2>4. /\ Cardinality(PendingFor(kk, x)) \in Nat
        /\ Cardinality(PendingFor(k1, x)) = Cardinality(PendingFor(kk, x))
                                              - IF x \in kk.pending[t] THEN 1 ELSE 0
    <3>1. CASE x \in kk.pending[t]
      BY <2>2, <2>3, <3>1, CountOf
    <3>2. CASE x \notin kk.pending[t]
      <4>1. PendingFor(k1, x) = PendingFor(kk, x)
        BY <2>2, <2>3, <3>2
      <4> QED
        BY <2>2, <3>2, <4>1, CountOf
    <3> QED
      BY <3>1, <3>2
  <2>5. Cardinality({x} \cap kk.ppending) \in Nat
    BY CountOne
  <2>6. /\ kk.handled[x] \in Nat /\ kk.dropped[x] \in Nat /\ kk.forgotten[x] \in Nat
        /\ k1.forgotten[x] = kk.forgotten[x] + IF x \in kk.pending[t] THEN 1 ELSE 0
    <3>1. CountsTyped(kk) /\ k1.forgotten = lost
      BY <1>1, <1>8
    <3> QED
      BY <3>1 DEF CountsTyped, lost
  <2>7. /\ k1.posted[x] = kk.posted[x] /\ k1.handled[x] = kk.handled[x]
        /\ k1.dropped[x] = kk.dropped[x] /\ k1.ppending = kk.ppending
    BY <1>9
  <2> QED
    BY <2>1, <2>4, <2>5, <2>6, <2>7
<1>23. Accounted(k1)
  BY <1>22 DEF Accounted
<1>24. KernelInv(k1)
  BY <1>3, <1>7, <1>8, <1>10, <1>13, <1>17, <1>18, <1>19, <1>20, <1>21, <1>23
     DEF KernelInv, KernelTyped
<1> QED
  BY <1>8, <1>14, <1>15, <1>16, <1>24 DEF Started

(* EXIT_THREAD.                                                            *)
LEMMA ExitThreadStep ==
    ASSUME NEW kk, NEW k1, KernelInv(kk), CurrentRuns(kk), ~ kk.halted, k1 = ExitThread(kk)
    PROVE  /\ InUser(k1) /\ SameVisits(k1, kk)
           /\ k1.state = [kk.state EXCEPT ![kk.cur] = "zombie"]
<1> DEFINE t == kk.cur
           a == kk.awaiter[t]
           q == IF a # t THEN Append(kk.ready, a) ELSE kk.ready
           k2 == [kk EXCEPT !.state[t] = "zombie", !.ready = q]
<1>1. /\ IsKernel(kk) /\ SchedTyped(kk) /\ FpuTyped(kk.fpu) /\ Scheduled(kk) /\ FpuKept(kk)
      /\ t \in Threads /\ a \in Threads /\ kk.ready \in Seq(Threads)
  BY DEF KernelInv, KernelTyped, SchedTyped
<1>2. k1 = SwitchAway(k2)
  BY <1>1 DEF ExitThread
<1>3. a # t => Awaits(kk, a, t) /\ Live(kk, a) /\ ~ Queued(kk, a)
  BY <1>1 DEF Scheduled, Awaits, CurrentRuns
<1>4. /\ q \in Seq(Threads) /\ Distinct(q)
      /\ \A u : InQueue(q, u) <=> Queued(kk, u) \/ (u = a /\ a # t)
  <2>1. Distinct(kk.ready)
    BY <1>1 DEF Scheduled
  <2>2. CASE a # t
    <3>1. ~ InQueue(kk.ready, a) /\ q = Append(kk.ready, a)
      BY <1>3, <2>2 DEF Queued
    <3> QED
      BY <1>1, <2>1, <2>2, <3>1, QueueAppend DEF Queued
  <2>3. CASE a = t
    BY <1>1, <2>1, <2>3 DEF Queued
  <2> QED
    BY <2>2, <2>3
<1> HIDE DEF q
<1>5. /\ IsKernel(k2) /\ SameCounts(k2, kk) /\ SameUser(k2, kk) /\ k2.fpu = kk.fpu
      /\ k2.cur = kk.cur /\ k2.ready = q /\ k2.halted = kk.halted /\ k2.handler = kk.handler
      /\ k2.cpu = kk.cpu /\ k2.fresh = kk.fresh /\ k2.awaiter = kk.awaiter
      /\ k2.state = [kk.state EXCEPT ![t] = "zombie"]
  BY <1>1 DEF IsKernel, KernelFields, SameCounts, SameUser
<1> HIDE DEF k2, a
<1>6. SchedTyped(k2) /\ ~ Live(k2, t) /\ \A u \in Threads \ {t} : Live(k2, u) <=> Live(kk, u)
  BY <1>1, <1>4, <1>5 DEF SchedTyped, Live
<1>7. \A b, u \in Threads : Awaits(k2, b, u) <=> u # t /\ Awaits(kk, b, u)
  BY <1>1, <1>5, <1>6 DEF Awaits
<1>8. \A u : Queued(k2, u) <=> Queued(kk, u) \/ (u = a /\ a # t)
  BY <1>4, <1>5 DEF Queued
<1>9. Scheduled(k2)
  <2>1. \A u \in Threads : Queued(k2, u) => Live(k2, u)
    BY <1>1, <1>3, <1>6, <1>8 DEF Scheduled, CurrentRuns
  <2>2. ASSUME NEW b \in Threads, NEW u \in Threads, Awaits(k2, b, u)
        PROVE  /\ Live(k2, b) /\ ~ Queued(k2, b)
               /\ \A v \in Threads : Awaits(k2, b, v) => v = u
    <3>1. /\ Live(kk, b) /\ ~ Queued(kk, b) /\ u # t /\ b # t
          /\ \A v \in Threads : Awaits(kk, b, v) => v = u
      BY <1>1, <1>7, <2>2 DEF Scheduled, CurrentRuns
    <3>2. a # t => b # a
      BY <1>1, <1>3, <3>1
    <3> QED
      BY <1>6, <1>7, <1>8, <3>1, <3>2
  <2> QED
    BY <1>4, <1>5, <2>1, <2>2 DEF Scheduled
<1>10. FpuKept(k2)
  BY <1>1, <1>5, <1>6 DEF FpuKept, SameUser
<1>11. KernelInv(k2) /\ SameVisits(k2, kk)
  BY <1>1, <1>5, <1>6, <1>9, <1>10, KernelSame
<1>12. InUser(k1) /\ Follows(k1, k2)
  BY <1>2, <1>5, <1>11, SwitchAwayStep
<1> QED
  BY <1>5, <1>11, <1>12 DEF Follows, SameVisits

(* AWAIT_THREAD.                                                           *)
LEMMA AwaitThreadStep ==
    ASSUME NEW kk, NEW k1, NEW t \in Threads, KernelInv(kk), CurrentRuns(kk), ~ kk.halted,
           k1 \in AwaitThread(kk, t)
    PROVE  InUser(k1) /\ SameVisits(k1, kk) /\ k1.state = kk.state
<1> DEFINE c == kk.cur
           k2 == [kk EXCEPT !.awaiter[t] = c]
<1>1. /\ IsKernel(kk) /\ SchedTyped(kk) /\ FpuTyped(kk.fpu) /\ Scheduled(kk) /\ FpuKept(kk)
      /\ c \in Threads
  BY DEF KernelInv, KernelTyped, SchedTyped
<1>2. CASE kk.state[t] = "created" \/ kk.awaiter[t] # t \/ t = c
  BY <1>2, TrapReturnsStep DEF AwaitThread, Follows
<1>3. CASE ~ (kk.state[t] = "created" \/ kk.awaiter[t] # t \/ t = c)
  <2>1. /\ IsKernel(k2) /\ SameCounts(k2, kk) /\ SameUser(k2, kk) /\ k2.fpu = kk.fpu
        /\ k2.cur = kk.cur /\ k2.ready = kk.ready /\ k2.halted = kk.halted
        /\ k2.handler = kk.handler /\ k2.cpu = kk.cpu /\ k2.fresh = kk.fresh
        /\ k2.state = kk.state /\ k2.awaiter = [kk.awaiter EXCEPT ![t] = c]
    BY <1>1 DEF IsKernel, KernelFields, SameCounts, SameUser
  <2>2. (k1 \in TrapReturns(k2) /\ ~ Live(kk, t)) \/ k1 = SwitchAway(k2)
    BY <1>1, <1>3 DEF AwaitThread, Live
  <2> HIDE DEF k2
  <2>3. SchedTyped(k2)
    BY <1>1, <2>1 DEF SchedTyped
  <2>4. /\ \A u \in Threads : (Live(k2, u) <=> Live(kk, u)) /\ (Queued(k2, u) <=> Queued(kk, u))
        /\ \A a, u \in Threads : Awaits(k2, a, u) =>
             (Awaits(kk, a, u) /\ u # t) \/ (a = c /\ u = t /\ Live(kk, t))
    BY <1>1, <1>3, <2>1 DEF Live, Queued, Awaits, SchedTyped
  <2>5. Scheduled(k2)
    <3>1. ASSUME NEW a \in Threads, NEW u \in Threads, Awaits(k2, a, u)
          PROVE  /\ Live(k2, a) /\ ~ Queued(k2, a)
                 /\ \A v \in Threads : Awaits(k2, a, v) => v = u
      <4>1. CASE a = c
        BY <1>1, <2>4, <3>1, <4>1 DEF CurrentRuns
      <4>2. CASE a # c
        <5>1. /\ Live(kk, a) /\ ~ Queued(kk, a)
              /\ \A v \in Threads : Awaits(kk, a, v) => v = u
          BY <1>1, <2>4, <3>1, <4>2 DEF Scheduled
        <5> QED
          BY <2>4, <4>2, <5>1
      <4> QED
        BY <4>1, <4>2
    <3> QED
      BY <1>1, <2>1, <2>4, <3>1 DEF Scheduled
  <2>6. FpuKept(k2)
    BY <1>1, <2>1 DEF FpuKept, SameUser, Live
  <2>7. KernelInv(k2) /\ SameVisits(k2, kk)
    BY <1>1, <2>1, <2>3, <2>5, <2>6, KernelSame
  <2>8. CASE k1 \in TrapReturns(k2) /\ ~ Live(kk, t)
    <3>1. CurrentRuns(k2)
      BY <1>1, <2>1, <2>4, <2>8 DEF CurrentRuns
    <3> QED
      BY <2>1, <2>7, <2>8, <3>1, TrapReturnsStep DEF Follows, SameVisits
  <2>9. CASE k1 = SwitchAway(k2)
    BY <2>1, <2>7, <2>9, SwitchAwayStep DEF Follows, SameVisits
  <2> QED
    BY <2>2, <2>8, <2>9
<1> QED
  BY <1>2, <1>3

-----------------------------------------------------------------------------
(* The return from a signal pops the frame on top.                         *)
LEMMA PopFrame ==
    ASSUME NEW fs \in Seq(FrameType), Len(fs) > 0, NEW c, NEW c1, NEW mask, Nested(c, fs),
           c1.at = fs[Len(fs)].ctx.at
    PROVE  /\ SubSeq(fs, 1, Len(fs) - 1) \in Seq(FrameType)
           /\ Nested(c1, SubSeq(fs, 1, Len(fs) - 1))
           /\ Unblocked(mask, fs) =>
                Unblocked(fs[Len(fs)].mask, SubSeq(fs, 1, Len(fs) - 1))
           /\ \A place \in Places : place # c.at =>
                (VisitedBy(c1, SubSeq(fs, 1, Len(fs) - 1), place) <=> VisitedBy(c, fs, place))
<1> DEFINE n == Len(fs)
           gs == SubSeq(fs, 1, n - 1)
<1>1. /\ gs \in Seq(FrameType) /\ n \in Nat \ {0} /\ DOMAIN fs = 1..n /\ DOMAIN gs = 1..(n - 1)
      /\ Len(gs) = n - 1 /\ \A i \in 1..(n - 1) : gs[i] = fs[i]
  <2>1. n \in Nat \ {0} /\ DOMAIN fs = 1..n
    OBVIOUS
  <2>2. Len(gs) = n - 1 /\ DOMAIN gs = 1..(n - 1)
    BY <2>1
  <2>3. \A i \in 1..(n - 1) : gs[i] = fs[i]
    BY <2>1
  <2>4. gs \in Seq(FrameType)
    BY <2>1
  <2> QED
    BY <2>1, <2>2, <2>3, <2>4
<1>2. c1.at = fs[n].ctx.at
  OBVIOUS
<1> HIDE DEF gs, n
<1>3. \A i \in 1..n : i \in 1..(n - 1) \/ i = n
  BY <1>1
<1>4. Nested(c1, gs)
  <2>1. /\ n \in 1..n /\ \A i \in 1..(n - 1) : i \in 1..n
        /\ (n - 1) + 1 = n
    BY <1>1
  <2> QED
    BY <1>1, <1>2, <2>1 DEF Nested
<1>5. ASSUME Unblocked(mask, fs) PROVE Unblocked(fs[n].mask, gs)
  <2>1. ASSUME NEW j \in 1..n, SIGCANCEL \in fs[j].mask
        PROVE  \E i \in 1..(n - 1) : i < j /\ gs[i].signo = SIGCANCEL
    <3>1. PICK i \in 1..n : i < j /\ fs[i].signo = SIGCANCEL
      BY <1>1, <1>5, <2>1 DEF Unblocked
    <3>2. i \in 1..(n - 1)
      BY <1>1, <3>1
    <3> QED
      BY <1>1, <3>1, <3>2
  <2>2. n \in 1..n /\ \A i \in 1..(n - 1) : i \in 1..n
    BY <1>1
  <2> QED
    BY <1>1, <2>1, <2>2 DEF Unblocked
<1>6. ASSUME NEW place \in Places, place # c.at
      PROVE  VisitedBy(c1, gs, place) <=> VisitedBy(c, fs, place)
  <2>1. n \in 1..n /\ \A i \in 1..(n - 1) : i \in 1..n
    BY <1>1
  <2> QED
    BY <1>1, <1>2, <1>3, <1>6, <2>1 DEF VisitedBy
<1> QED
  BY <1>1, <1>4, <1>5, <1>6 DEF gs, n

(* RETURN_FROM_SIGNAL: the innermost frame is taken off and the thread     *)
(* resumes what that signal interrupted.                                   *)
LEMMA ReturnFromSignalStep ==
    ASSUME NEW kk, NEW k1, KernelInv(kk), CurrentRuns(kk), FpuLoaded(kk.fpu, kk.cur),
           kk.ctx[kk.cur].at = "sigret", k1 = ReturnFromSignal(kk)
    PROVE  /\ KernelInv(k1) /\ CurrentRuns(k1) /\ k1.state = kk.state
           /\ \A t \in Threads, place \in Places \ {"sigret"} :
                Visits(k1, t, place) <=> Visits(kk, t, place)
<1> DEFINE t == kk.cur
           fs == kk.frames[t]
           n == Len(fs)
           frame == fs[n]
           g == RestoreFpregsForSignal(kk.fpu, t, frame.fpregs)
           c1 == [frame.ctx EXCEPT !.args = "zero"]
           gs == SubSeq(fs, 1, n - 1)
<1>1. /\ IsKernel(kk) /\ SchedTyped(kk) /\ UserTyped(kk) /\ FpuTyped(kk.fpu) /\ FpuKept(kk)
      /\ t \in Threads /\ Nested(kk.ctx[t], fs)
  BY DEF KernelInv, KernelTyped, SchedTyped, FramesNest
<1>2. fs \in Seq(FrameType) /\ n \in Nat /\ n > 0
  <2>1. fs \in Seq(FrameType) /\ n \in Nat
    BY <1>1 DEF UserTyped
  <2>2. n + 1 # 1
    BY <1>1, <2>1 DEF Nested, PlacesAt, BasePlaces
  <2> QED
    BY <2>1, <2>2
<1>3. frame \in FrameType /\ frame.fpregs = frame.ctx.own
  <2>1. n \in DOMAIN fs /\ frame \in FrameType
    BY <1>2
  <2> HIDE DEF frame, fs
  <2> QED
    BY <1>1, <2>1 DEF Nested, frame
<1>4. /\ frame = fs[Len(fs)] /\ gs = SubSeq(fs, 1, Len(fs) - 1) /\ fs = kk.frames[t]
      /\ kk.ctx[t].at = "sigret" /\ FpuLoaded(kk.fpu, t)
  OBVIOUS
<1>5. k1 = [kk EXCEPT !.fpu = g, !.blocked[t] = frame.mask, !.frames[t] = gs, !.ctx[t] = c1]
  BY <1>1 DEF ReturnFromSignal, IsKernel, KernelFields
<1> HIDE DEF g, gs, frame, fs, n
<1>6. frame.fpregs \in FpuValues /\ frame.mask \in SUBSET SignalSet /\ frame.ctx \in ContextType
  BY <1>3 DEF FrameType
<1>7. c1 \in ContextType /\ c1.at = frame.ctx.at /\ c1.own = frame.ctx.own
  BY <1>6 DEF ContextType
<1> HIDE DEF c1, t
<1>8. FpuTyped(g) /\ ~ g.fault /\ Held(g, t, frame.fpregs) /\ OthersSame(g, kk.fpu, t)
  <2>1. FpuTyped(kk.fpu) /\ ~ kk.fpu.fault /\ t \in Threads
    BY <1>1 DEF FpuKept
  <2> QED
    BY <1>4, <1>6, <2>1, FpregsRestored DEF g
<1>9. /\ gs \in Seq(FrameType) /\ Nested(c1, gs)
      /\ Unblocked(kk.blocked[t], fs) => Unblocked(frame.mask, gs)
      /\ \A place \in Places : place # kk.ctx[t].at =>
           (VisitedBy(c1, gs, place) <=> VisitedBy(kk.ctx[t], fs, place))
  <2>1. Len(fs) > 0
    BY <1>2 DEF n
  <2> QED
    BY <1>1, <1>2, <1>4, <1>7, <2>1, PopFrame
<1>10. IsKernel(kk) /\ SchedTyped(kk) /\ UserTyped(kk) /\ t \in Threads
  BY <1>1
<1>11. IsKernel(k1) /\ SameCounts(k1, kk)
  BY <1>5, <1>10 DEF IsKernel, KernelFields, SameCounts
<1>12. SameSched(k1, kk) /\ k1.fpu = g /\ k1.stackok = kk.stackok
  BY <1>5, <1>10 DEF IsKernel, KernelFields, SameSched
<1>13. /\ k1.frames = [kk.frames EXCEPT ![t] = gs] /\ k1.ctx = [kk.ctx EXCEPT ![t] = c1]
       /\ k1.blocked = [kk.blocked EXCEPT ![t] = frame.mask]
  BY <1>5, <1>10 DEF IsKernel, KernelFields
<1>14. /\ k1.ctx[t] = c1 /\ k1.frames[t] = gs /\ k1.blocked[t] = frame.mask
       /\ \A u \in Threads \ {t} :
            /\ k1.ctx[u] = kk.ctx[u] /\ k1.frames[u] = kk.frames[u]
            /\ k1.blocked[u] = kk.blocked[u]
  BY <1>10, <1>13 DEF UserTyped
<1>15. UserTyped(k1)
  <2>1. k1.blocked \in [Threads -> SUBSET SignalSet] /\ k1.stackok \in [Threads -> BOOLEAN]
    BY <1>6, <1>10, <1>12, <1>13 DEF UserTyped
  <2>2. kk.ctx \in [Threads -> ContextType] /\ kk.frames \in [Threads -> Seq(FrameType)]
    BY <1>10 DEF UserTyped
  <2>3. k1.ctx \in [Threads -> ContextType]
    BY <1>7, <1>10, <1>13, <2>2
  <2>4. gs \in Seq(FrameType)
    BY <1>9
  <2>5. k1.frames \in [Threads -> Seq(FrameType)]
    BY <1>10, <1>13, <2>2, <2>4
  <2> QED
    BY <2>1, <2>3, <2>5 DEF UserTyped
<1>16. UserChanges(k1, kk)
  <2>1. /\ k1.halted \in BOOLEAN /\ k1.handler \in BOOLEAN
        /\ k1.cur = kk.cur /\ k1.ready = kk.ready /\ k1.cpu = kk.cpu
        /\ k1.state = kk.state /\ k1.fresh = kk.fresh /\ k1.awaiter = kk.awaiter
    BY <1>10, <1>12 DEF SameSched, SchedTyped
  <2> QED
    BY <1>11, <1>14, <2>1, Zenon DEF UserChanges, t
<1>17. KernelInv(k1) /\ CurrentRuns(k1)
  <2>1. Held(k1.fpu, t, k1.ctx[t].own)
    BY <1>3, <1>7, <1>8, <1>12, <1>14
  <2> QED
    BY <1>4, <1>8, <1>9, <1>12, <1>14, <1>15, <1>16, <2>1, UserChangesStep DEF t
<1>18. \A u \in Threads, place \in Places \ {"sigret"} :
         Visits(k1, u, place) <=> Visits(kk, u, place)
  <2> SUFFICES ASSUME NEW u \in Threads, NEW place \in Places \ {"sigret"}
               PROVE  Visits(k1, u, place) <=> Visits(kk, u, place)
    OBVIOUS
  <2>1. CASE u = t
    BY <1>4, <1>9, <1>14, <2>1 DEF Visits
  <2>2. CASE u # t
    BY <1>14, <2>2 DEF Visits
  <2> QED
    BY <2>1, <2>2
<1> QED
  BY <1>12, <1>17, <1>18 DEF SameSched
=============================================================================
