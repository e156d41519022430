# Verification of the jinue microkernel

TLA+ models of the jinue kernel (i686), checked with TLC on small instances,
with theorems proved by TLAPS for every value of the constants. Every
definition that models code names its source lines in `PROJECT.json` ("map").

## How the kernel executes, and what an action is

Jinue runs on one CPU. Interrupts are disabled while it is in the kernel and
the kernel is not preemptible, so a path through the kernel runs undisturbed
from the trap to the point where it switches to another thread, or to the
return to user space. Hence:

- a system call is one action up to the point where it switches thread; what
  it does when it is switched back to is a second action, and the state between
  the two is visible to all other threads;
- where one call does an unbounded number of nested things (a dropped
  reference that frees objects that drop references), the steps are separate
  actions, but nothing else is enabled until they are done (`exiting` and
  `pc = "close"` in `Ipc`, `work` in `Objects`);
- a timer interrupt happens in user mode only;
- before the first thread runs there is nothing to interleave: a function of the
  boot code is an operator that returns the new state, and the steps of `Boot`
  are the points where something else can be observed (paging enabled, the
  kernel entered, a process started, a message sent).

The spin locks have no effect on one CPU. They are written for several, so
`Spinlock` models the lock itself with several CPUs, and the other modules
leave lock and unlock out.

## The parts of the system

State, operations, interactions, and what makes each part hard to get right.

| Part | State | Operations | Hard because |
|---|---|---|---|
| Ticket spin lock | one 32-bit word | `spin_lock`, `spin_unlock` | 16-bit wrap; unlock's `inc` is not locked |
| Scheduler | ready queue, thread states, CPU credits | `ready_thread`, `reschedule`, `switch_to_thread`, `..._and_block`, `block_current_thread_and_unlock`, `switch_from_exiting_thread`, tick, yield | shared list node; panics when nothing is ready; fairness |
| IPC | send and receive queue of each endpoint; message fields of each thread; `thread->sender` | SEND, RECEIVE, REPLY, REPLY_ERROR, abort | rendezvous in either order; state used after a switch; replies that fail half way; destruction while threads wait |
| Threads | `state`, `awaiter`, `process` | create, start, exit, await; thread objects are reused | exit races await; exit of a thread that services a message |
| Objects | `ref_count`, `flags` | open, close, destroy, add and drop a reference, free | nested destruction; self references; memory reused with the counts its last user left |
| Descriptors | table of each process | access, reserve, open, close, DUP, MINT | late discovery of destroyed objects; ownership |
| Processes | descriptors, running thread count, pending signals, address space | create, destroy with the last thread | cycles of references; threads that are not running |
| Signals | pending (process and thread) and blocked masks, handler | SIGNAL_*, SET_SIGNAL_HANDLER, mask, delivery at the end of a trap, return | which pending bit is taken; partial delivery |
| Kernel log | byte ring, tail, write pointer, readers | log, register a reader | variable-length entries, wrap, slow readers |
| Slab, page, boot allocators | lists of slabs, free pages | alloc, free, reap | three lists with garbage `prev` pointers; links inside the objects |
| Kernel mapping area, address map | last mapping, regions | map, resize, undo, lookup | a cached "latest" mapping; ranges that overlap, start or end inside a page |
| Page tables | PAE and non-PAE tables, PDPT registers, TLB | create, map, switch, destroy | two formats, shared kernel part, failure half way, what the CPU has cached |
| FPU | two flags per thread, save area, TS | first use, save, restore, signals | registers or save area hold the truth |
| Command line, ELF, exec | parser automaton; segments | parse, load | parsed again for each purpose; pages that are shared, copied or padded |
| Boot, firmware tables, drivers | boot information, page tables, static variables | setup code, kernel initialisation, scans | order; temporary mappings; memory that is used before it is owned |
| User space libraries, loader | heap, pthreads, tar and stream readers | malloc, mmap, join, cancel, extract | pthread join, exit and cancel race; memory handed from one process to the next |

Interactions: a trap runs a system call or an interrupt handler, then
`reschedule` (and signal delivery). System calls find their objects through the
descriptor table and hold a reference while they run or block. IPC and await
block and ready threads through the scheduler. The exit of the last thread of a
process destroys the process, which closes its descriptors, which may destroy
endpoints, which aborts the IPC that waits on them, which readies threads.
Before all this the setup code maps the kernel, the kernel takes its share of
memory and starts the user space loader, the loader extracts the RAM disk and
starts the initial program, and that takes over what memory is left when the
loader exits.

## The modules

| Module | Models | Source (`kernel/`) |
|---|---|---|
| `FifoLock` | what a fair lock promises | (abstract) |
| `Spinlock` | the ticket lock, instruction by instruction | `infrastructure/i686/atomic/spinlock.asm` |
| `Scheduler` | ready queue, credits, switches (operators used by `Ipc`) | `domain/services/scheduler.c` |
| `Ipc` | IPC, endpoint queues, thread life cycle, on `Scheduler` | `domain/services/ipc.c`, `domain/entities/endpoint.c`, `thread.c`, `interface/i686/trap.c` |
| `Objects` | reference counts, descriptors, processes | `domain/entities/object.c`, `descriptor.c`, `process.c`, `application/syscalls/` |
| `Console` | the text console | `infrastructure/i686/drivers/console.c` |
| `KernelLog` | the log ring and its readers | `domain/services/logging.c`, `application/syscalls/puts.c` |
| `LogDevices` | what the readers' devices show, on `KernelLog` and `Console` | `drivers/vga.c`, `uart16550a.c` |
| `Fpu` | lazy FPU state | `infrastructure/i686/fpu.c` |
| `Signals` | traps, switches and signals of the threads of a process, on `Fpu` | `interface/signal.c`, `interface/i686/signal.c`, `trap.asm`, `application/syscalls/` |
| `Cancel` | signal dispatch, threads and cancellation in the C library, on `Signals` | `userspace/lib/libc/signal.c`, `libc/pthread/` |
| `Slab` | page and slab allocators, word by word | `domain/alloc/slab.c`, `page_alloc.c` |
| `Pmap` | address spaces, on `Slab` | `infrastructure/i686/pmap/` |
| `Memory` | processes, threads and clients of caches, on `Pmap` | `domain/entities/process.c`, `thread.c` |
| `CpuInfo`, `Cmdline` | the CPU's features; the command line | `infrastructure/i686/cpuinfo.c`; `domain/services/cmdline.c` |
| `Setup` | the 32-bit setup code | `interface/i686/setup/` |
| `AddrMap` | the address map and the boot allocators | `infrastructure/i686/memory/`, `boot_alloc.c` |
| `Firmware` | the mapping area, ACPI, MP tables, BIOS data | `domain/services/mman.c`, `infrastructure/acpi/`, `i686/firmware/` |
| `KernelInit`, `KernelExec` | `kmain` up to the first thread; the first process | `application/kmain.c`, `i686/init.c`, `infrastructure/elf.c` |
| `Libc` | start-up and memory allocators of a process, and the system calls under them | `userspace/lib/libc/` |
| `Ramdisk`, `Loader` | the user space loader | `userspace/loader/` |
| `TestServer` | the initial program and its client | `userspace/testapp/server/` |
| `Boot` | the modules from `CpuInfo` on as one system | |
| `MC...` | instances for TLC | |
| `SpinlockProofs`, `IpcLemmas`, `IpcProofs`, `ObjectsCallProofs`, `ObjectsProofs`, `CancelKernelProofs`, `CancelProofs`, `KernelLogProofs` | theorems | |

Operators that a comment calls a plausible mistake are wrong variants of the
definition that follows. They are not part of any specification; putting one in
place of its original must make the property `PROJECT.json` names for it fail.

### Spinlock

The lock word is two halves that wrap at `W` (2^16 in the code). `TakeTicket`
is the locked `xadd`; `LeaveLoop` is the poll that finds its ticket served;
`UnlockRead` and `UnlockWrite` are the two memory accesses of the `inc` in
`spin_unlock`, between which another CPU may take a ticket. Memory is
sequentially consistent; on x86 the locked `xadd` and the ordering of stores
make this adequate for one lock word. `line` is a history variable, and the
refinement maps the lock to `FifoLock` with the set of CPUs that are past
`spin_lock`.

### Scheduler and Ipc

`current`, `tstate`, `ready`, `credits` are the scheduler's variables, `NULL`
for `current` meaning that the kernel has panicked (`select_next_ready_thread`
with an empty queue) and the CPU is halted. `pc[t]` is where thread `t` is: in
user space, at a switch inside `send_message`, `receive_message` or
`thread_await`, inside DESTROY or CLOSE, or at the end of `handle_trap`.
START_THREAD is one action, so the state `THREAD_STATE_STARTING` that a thread
has only in the middle of it is not a state of the model.

`ep`, `msg`, `room`, `errno` are the local variables and `thread_t` fields of
the call in progress. A message is its kind (request or reply, because both go
through the sender's one buffer) and its size; `gather_message` and
`scatter_message` succeed or fail. `EndCall` forgets these fields when a call
ends, since the next call writes them before it reads them.

`AppMay` says which of two things applications do that the kernel permits: call
RECEIVE while a message still waits for its reply ("receive_again"), and change
the buffers of a blocked RECEIVE ("change_buffers"). Safety is checked and
proved for every value of `AppMay`; `SendersReachable` holds only without them.

### Objects

`work` is the stack of `object_close`, `object_sub_ref` and free operations in
progress, with one entry for each descriptor that `close_descriptors` has yet to
visit (`SkipDescriptor` passes over one that is not open). A system call pushes
what it drops; `Unwind` runs it to its end.
`holds[t]` is the reference that SEND, RECEIVE or AWAIT_THREAD keeps while it
is blocked. References that a call takes and drops without blocking cancel out
and are left out. Memory for objects is reused: a created object takes any one
that is not `live`, with the counts that were left in it, as the slab
constructors do. When a descriptor is found to refer to a destroyed object, the
call it was found by fails, whichever it was (`AccessDestroyed`).

`AppMay = {"start_orphan"}` allows START_THREAD on a thread whose process was
destroyed; the kernel does not prevent it (`process.c:169`, TODO).

### KernelLog

`ring` is a function on aligned offsets; the header of an event holds its
length, its level and its text, and writing an event destroys whatever lies
under it. `log_message` holds a lock from its beginning to its end; in the model
it is a sequence of steps, one for each iteration of a loop, and `phase` keeps
everything else out: `PushTail` drops the oldest event while it is in the
redzone, first at the end of the buffer and then at its start, `WriteTerminator`
and `WriteEvent` write, `SyncReader` gives the reader at the cursor `cur` its next
event or goes on to the next reader. A reader is registered at any time and then
sees what is still in the ring. PUTS is the same call with the checks of the
system call before it. `sent`, `place`, `offset` and `heard` are histories: the
events, where each was written, how many bytes were logged before it, and what
each reader was given. The log function of a reader is a parameter, `DoLog`;
`LogDevices` has the console and the serial port.

### Signals and Cancel

One record `k` is the kernel and the saved user contexts of a process with
several threads. A step of user code, or an interrupt between two of them, goes
into the kernel and comes out again in one action: `handle_trap`, `reschedule`,
the switch, the delivery of a signal. A context says where the thread is and
whether its registers are its own. `posted`, `handled`, `dropped` and
`forgotten` are histories. `Cancel` adds the C library: where the library reads
a flag and acts on it later, these are two steps. The list of thread structures
to reuse is not protected: `get_thread_from_pool` reads it in one step and
changes it in the next (`PthreadCreate`, `TakeThread`), and the two assignments
of `free_thread_to_pool` are two steps, in `pthread_exit` (`PthreadFree`) and in
a `pthread_create` that could not start its thread (`PthreadPutBack`); a timer
interrupt, a signal or another thread may come in between. The applications are sets of
library calls; `MCCancel` chooses four.

### Slab, Pmap and Memory

Memory is a word for each address: free pages and free buffers are linked
through words that their next or last owner also writes, which is how the code
can go wrong. `Pmap` reads and writes its tables there. The CPU has a CR3, the
PDPT registers and, for each page, the set of translations that may be cached.
In `Memory` a heap has a bounded number of pages, so any allocation of any
operation may be the one that fails. Some systems have a client that uses an
object after it was freed or writes past its end, for the debugging checks.

### Boot

`machine` is what the boot loader left: CPU, memory map, firmware tables,
command line, RAM disk, screen. The setup code and the kernel's initialisation
work on records of their static variables, on page tables, and on memory that is
read and written cell by cell (`KernelExec`); so do `malloc`, the tar reader and
the two ELF loaders of user space. A panic, an error exit or a fault ends a
process or the boot and is a state of the model. From the first process on,
loader, init and client interleave; how messages travel is left to `Ipc`.
Sizes are scaled: a page is 8 cells, and a character is a run of letters that no
code splits. The slabs of the kernel take no page in `Boot`; they are the
subject of `Memory`.

## What is checked

| Run | Instance | Shows |
|---|---|---|
| `spinlock` | 3 CPUs, `W` = 3 | mutual exclusion, the inductive invariant, refinement of `FifoLock`, every ticket is served |
| `ipc` | 3 threads, 2 endpoints, sizes 0 and 1, both freedoms | the six safety invariants of `Ipc` |
| `ipc_fair` | 3 threads, 1 endpoint, no freedoms, credits up to 2 | no sender is orphaned; every ready thread runs |
| `ipc_lost` | 3 threads, 1 endpoint, "receive_again" | `SendersReachable` fails (below) |
| `objects` | 2 processes, 2 threads, 1 endpoint, 2 descriptors each | counts exact, nothing referenced is freed, nothing is left behind, one owner |
| `objects_orphan` | as above, "start_orphan" | a count goes negative (below) |
| `log` | a ring of 12 words, 7 events, console of 2 x 3 | the ring never damages an event a reader may be sent to, forgets no more than it must, readers hear an unbroken log (but for events without text, below), the console shows its end |
| `signals` | 2 threads, 2 signals, 4 applications, 4 CPU types | FPU state is private, no signal is lost or delivered twice, cancellation takes effect |
| `signal_registers` | as above | a handler's return does not restore the registers (below) |
| `memory` | 2 processes, 4 to 6 pages, and 7 layouts of a cache | pages have one owner, objects are intact, allocation and its checks are honest, translations are exact |
| `pdpt_stale` | as above | PDPT registers are stale after a failed MMAP (below) |
| `boot` | 292 machines | the setup code can run at each step, memory has one owner, arguments, environment (but for options of the machine, below), RAM disk and programs arrive as they were given |

Bounds. As many CPUs as ticket numbers is the tightest case the code allows,
and it makes the numbers wrap every three grants. Three threads give a client, a server and a third that competes with
either; two endpoints let a receiver be on one while the message it services
came from the other. Sizes 0 and 1 tell empty, fitting and too big apart.
`MaxCredits` saturates a counter that the code lets grow: every property
depends only on it being zero or not. Two descriptors per process are enough
for a process to refer to itself, to its child and to an endpoint in turn, and
for the child to refer back, so destruction nests; `MintPerms` lists the
permission sets the applications ask MINT for. The same instance with six
permission sets (2,387,387 states) was also explored without error. `objects`
and its companion do not check deadlock: a kernel with no thread to run
panics, and `Objects` leaves that to `Ipc`.

The log's ring holds three redzones, so it wraps after a few events and
seven of them go round it, twice if they are long; a tab, a linefeed, no text at all, the
longest message and one that PUTS rejects are among the texts. A message without
text is the last one (`EmptyLogged`; see below for what the code does after it). One signal is in each word of a
signal set; two posts let a signal be pending for the thread and for the
process. In `memory` a page table has two or three entries and a directory two,
so a mapping of four pages needs several of each, and the pools are small enough
to be empty at every place where the code allocates; `MaxMisuse` is 1 because
one wrong write must already be reported. `boot` varies one feature of the
machine at a time (features of the CPU together with the format of the RAM disk, the
firmware and the screen); in 61 sizes of memory, two pages apart, the loader and
init run out at successive points. These runs do not check
deadlock: the log, the posts and the system calls are bounded, and a machine
that has booted, failed or panicked stops.

Fairness. `Spinlock` assumes weak fairness of each CPU's own steps except
taking a ticket: a CPU that polls goes on polling, and critical sections end
because no kernel path blocks with a lock held. `Ipc` assumes weak fairness of
the kernel's steps, since the CPU executes the kernel to its end with
interrupts disabled, and strong fairness of the timer tick of each thread: the
periodic timer stays pending during kernel execution and is taken in user mode,
but a thread may enter the kernel again before it fires.
No fairness is assumed of applications. `KernelLog` needs none: that its loops end is part of
`TypeOK`, since each iteration increments an id that stays below `write_id`. `Cancel` assumes that a thread which
may be preempted for ever is, that a timer interrupt is taken while a signal can
be delivered, both for the reason just given, and that a thread which runs goes
on with library code that it is in; library code does not wait but in system
calls.

## Findings

- `ipc_lost`: a receiver that calls RECEIVE again before replying has its
  `receiver->sender` overwritten. The earlier sender stays blocked and no later
  call can reach it, although `send.md` says the call "blocks until the message
  is received and replied to". (A RECEIVE that fails in `scatter_message`
  because its buffers changed clears the pointer, with the same effect.)
- `objects_orphan`: `destroy_op` of a process leaves its idle thread objects
  usable and its descriptor table uncleared. Starting such a thread again makes
  it close descriptors a second time; `object_sub_ref` then panics on a negative
  count.

- `signal_registers`: `sys_return_from_signal` stores its return value in the
  trap frame after `return_from_signal` has put the interrupted context there,
  so `eax`, `ebx`, `esi` and `edi` of code that was interrupted by the timer are
  lost. `trap.asm:201` wants "all registers" restored.
- `pdpt_stale`: `machine_map_userspace` returns early when it is out of memory,
  without the reload of CR3 that `pae.c:206` says must follow any change of a
  PDPT. `TranslationExact` is therefore stated up to the first failed mapping.

Seen while modelling, in code that the models follow as it is (no run of its own):

- `puts.c:38`, `logging.c:226`, `logging.c:243`: PUTS accepts an empty string
  (`puts.md` says "at most 480 characters"), and the event that is logged then
  has the length that marks a terminator. The tail and the readers that come to
  it go back to the start of the buffer: a reader is given the event that lies
  there in place of the empty one, and what it is given next is not what its id
  says, although `sync_reader` is to "Catch up a log reader to all events in the
  ring buffer". `RingHoldsTheLatest` and `ReadersHearUnbrokenLog` are therefore
  false of empty events and of what follows them, and say nothing of either.
  In the run an empty event may be logged at any time and then is the last one
  (`EmptyLogged`): the properties hold of every other event, also after the
  readers have come to the empty one. In the theorems no message is empty (`NoEmptyMessage`).
- `cmdline.c:923`: `filter_userspace_environ` looks in the names of the kernel's
  own options, `on_panic` only. The options of the machine (`nx`, `vga_enable`,
  `serial_...`) reach the environment of the loader and of init, although
  `cmdline.md` says "Kernel options are not passed to user space as environment
  variables", and so does the comment above the function. The model follows the code;
  `ArgumentsDelivered` says that every other variable arrives, in its order, that
  `on_panic` does not, and nothing of the options of the machine.
- `loader.c:65`: `init=` with nothing after it is not taken for no `init`: the
  loader looks for a file without a name, and init is never started.
- `addrmap.c:306`: what is left of a range on either side of a clipped one is
  computed in a `size_t`, so that the smaller part may be kept when one is 4 GB
  or more. One of the machines of `boot` has such a range.
- `mman.c:169`: `resize_map_in_kernel` moves the end of the region first, so it
  maps or unmaps nothing; a firmware table that crosses a page is then read
  where nothing is mapped.
- `pmap.c:509`: `lookup_kernel_page_directory_entry` counts from `JINUE_KLIMIT`,
  also without PAE, where `kernel_page_directory` is the whole directory; with
  PSE and no PAE a framebuffer is not mapped where it is used.
- `addrmap.c:344`: the range for the loader may lie above 4 GB without PAE.
  `addrmap.c:557` reports the kernel image with a macro for another region.
- `boot_alloc.c`, `addrmap.c` (16 entries), `loader/core/meminfo.c` (8 segments,
  8 mappings) do not check their limits.
- `cmdline.md` and `cmdline.c`: hexadecimal numbers are rejected and leading
  zeros accepted (`cmdline.c:677` compares with 0, not `'0'`); an option that
  starts with two dashes loses characters; after `--` the quotes of `x="y"` are kept.
- `cpuid.asm`: on the failing path the saved flags stay on the stack.
- `elf.c` of the kernel writes to a padded segment that is mapped read-only
  although CR0.WP is set, and does not check `page_alloc` there.
- `videofb.c`: `map_bpp` ignores its argument; the size that is mapped is not
  the one that was limited.
- `gzip.c`: an archive with a single trailer block ends in an error.
  `ramdisk.c`: `detect_format` ignores the status of a reset.
- `malloc.c`: a split leaves the `prev` of the buffer after it stale, so a later
  free may merge buffers that are not adjacent. The calls that the boot run makes
  do no harm.
- `map_anon.c`: `paddr < 0` is tested on an unsigned number; a return is missing
  after the length check. `tar.c:759` overwrites the major device number.
- `map_arch_page_flags` drops NX; frames that the kernel allocated for the
  loader's segments are not freed when it exits.

## What is proved

For every set of CPUs no larger than `W`, from `SpinlockAssumption`:
`TicketInv` is inductive (the tickets of the CPUs in `line` are consecutive
modulo `W` from `serving`, and only the head may be past the loop). Mutual
exclusion alone is not inductive: it needs to know that no two CPUs in line
hold equal tickets, which holds because there are at most `W` of them. From it
follow `TicketMutualExclusion` and `TicketLockIsFifo`, the step-by-step
refinement of `FifoLock`.

For all sets of threads and endpoints, sizes, credits and `AppMay`, from
`SchedulerAssumption` and `IpcAssumption`: `IpcInv`, the conjunction of
`TypeOK`, `ListsConsistent`, `ServicedSendersWait`, `NoMissedRendezvous`,
`WakesWithOutcome` and `AwaitersReleased`, is inductive, and each conjunct is
a theorem of its own. The conjuncts need each other: a reply readies a thread, which keeps
the lists consistent only because the serviced sender is blocked and off every
queue; that the woken receiver may use its endpoint without checking it again
(`WakesWithOutcome`) depends on its running at once, before anyone can destroy
the endpoint. `IpcLemmas` states once what each scheduler operator does to the
queue and the states. Then there is one lemma per action, with one step per
conjunct that the action disturbs: `IpcLemmas` has SEND, REPLY, the destruction of
an endpoint and the exit of a thread, `IpcProofs` RECEIVE, the starting and
awaiting of threads, and the theorems.

`SendersReachable` has the hypothesis `NoFreedoms`, that `AppMay` is empty;
`ipc_lost` shows that it is needed. It is not inductive: a message delivered
to a waiting receiver overwrites `receiver->sender`, so `IdleReceivers` says that a
receiver which waits, or whose wait was aborted, services nobody, and that no
error has been stored for one that still waits.

For all finite sets of processes, endpoints and threads, any size of the
descriptor table and any permissions asked of MINT, from `ObjectsAssumption`:
`ObjectsInv` is inductive, and `TypeOK`, `RefsCounted`, `FreedUnreferenced`,
`NothingLeftBehind`, `OwnerUnique` and `CountsNeverNegative` follow from it. The
sets are finite because a reference count is a cardinality; memory is finite.
The theorems have one hypothesis, `NoOrphans`: no application starts a thread of a
process that was destroyed. Without it they are false, as `objects_orphan` shows.
`ObjectsInv` counts for every object, free or live, so that a freed one is known to
have no references left; it counts the receivers of an endpoint and the drops on
the `work` stack in the same way, since between two steps of a nested destruction
these are what keeps an object alive; and it says what the stack may hold: a
pending free is of a destroyed object with no references, and no object is freed
twice. Each step moves references from one place to another (`Binds`, `Unbinds`,
`MovesTo`, `Pops` describe the moves), so the proofs count how a set of slots or
stack positions changes by one element, or by the table of a process that becomes
part of the stack. `ObjectsCallProofs` has the invariant, the counting lemmas and the system
calls, `ObjectsProofs` the exit of a thread, the unwinding and the theorems.

For all finite sets of threads, all sets of signals, all CPU types, any numbers
of posts and starts and any set of applications, from `SignalsAssumption` and
`CancelAssumption`: `Inv` of `CancelKernelProofs` is inductive, and `TypeOK`,
`FpuIsOwn` and `SignalsAccounted` follow from it. None of the three is inductive
alone. That the FPU state of the current thread is its own depends on where that
of every other thread is kept (`Parked`), on the registers being usable whenever
they hold the truth (`Held`, `FpuLoaded`), and on every signal frame carrying the
state of the context under it (`FramesNest`), since the return from a signal
loads that. Switches keep this only because the thread switched to is alive,
which needs the ready queue and the awaiters (`Scheduled`, `CurrentRuns`). A path through the kernel is a
composition of operators on the record `k`, so `CancelKernelProofs` has one lemma
for each operator, stating what it changes and that it keeps `KernelInv`, in which
nothing is yet said of the thread that will run; `CancelProofs` puts them
together, one lemma per group of actions.

`CancellationHonoured` follows from `CancelInv`, which adds that a thread that
must exit at once is, at some level of its stack, about to notice it (`Pursued`),
and that a thread structure is not reused while a thread may still be in its
code (`NoReuse`: nobody is in `free_thread_to_pool`, and `pthread_create` finds
the list empty). It has the hypothesis `Exclusive`: no application has both detached
threads and threads that set how they are cancelled. The hypothesis came out of
the proof. A detached thread that can be cancelled asynchronously may be
interrupted by SIGCANCEL after `pthread_exit` has put it in the pool and before
it has left; the handler runs `pthread_exit` again and pools it a second time,
so that its structure can be given to two threads (`thread.c` has a TODO about
such races). The applications of `MCCancel` satisfy `Exclusive`. That SIGCANCEL is
never blocked outside its own handler does not need it.

For all sizes of the ring, of headers, of the alignment and of the longest
message, all readers and whatever their log functions do, from
`KernelLogAssumption`: `LogInv` is inductive, and `TypeOK`, `RingHoldsTheLatest`,
`RetainsWhatFits` and `ReadersHearUnbrokenLog` follow from it. The assumption is
what `logging.c` relies on without saying so: headers and the longest message
fill whole words, and the ring holds three redzones. The hypothesis
`NoEmptyMessage` leaves out the events without text that are described above. That the ring keeps its events is not
inductive, since nothing says where an event lies relative to the others. `Laps` says
it: the events in the ring belong to at most two laps; those of the lap that is
being written are at the distances of their offsets from the start of the buffer,
and those that are left of the lap before end at a terminator, above the write
pointer. An event that is written then harms none of them once the tail is out of
the redzone, and a terminator that sends a reader to the start is where
the last event of the older lap ends. `TailKept` says that at least one event is
kept, which is why `push_tail` ends. `ReadersKept` says that a reader which was
given nothing is where the tail is or was, and that any other one is just behind
its last event, which is still in the ring. `KernelLogProofs` has first the arithmetic of
aligned sizes, then one lemma per action for the ring and for the readers.

Model-checked only: `ConsoleShowsLastRows`, which is about what the recursive
walk of a text over the screen computes; the properties of `Memory` and `Boot`;
and liveness (`EveryTicketServed`, `ReadyThreadsRun`, `CancellationDelivered`),
which is out of this prover's reach. `Boot`, `Memory` and the modules under them
use recursive operators and are not open to proofs as they stand.

## What is not modelled

- Exceptions that panic; hardware interrupts, which are logged and acknowledged.
- The 16-bit setup code, which asks the BIOS for the boot parameters; bits of
  descriptor tables, device registers, pixels and fonts.
- `vmalloc.c`, whose operations panic, and `remove_page_frame`, which nobody calls.
- The contents of messages, and the cookie and the function number sent along,
  in `Ipc`. `Boot` has the messages that loader, init and client exchange.
- The descriptor number `JINUE_DESC_NUM`, which `dereference` accepts although
  it is one past the table: `Objects` takes numbers inside the table.
- Failed allocations change nothing in `Ipc` and `Objects` and are not actions
  there; what they leave behind is the subject of `Memory` and `Boot`. A
  reservation of a descriptor is always completed or undone in the same call.
- Which thread runs, in `Objects`, and why an endpoint is destroyed, in `Ipc`:
  each leaves open what the other says.
- Strings and formatting (`string.c`, `vsnprintf.c`), clean-up handlers and
  thread attributes; the zlib and bzip2 libraries, which are external; the tests
  that the test application runs, the debugging dumps, and the reboot.

## Plan

1. `Ipc` and `Objects` composed, so that the panic of an exiting thread is
   related to the threads its cleanup would have readied, on an instance small
   enough; the composition shown to implement both.
2. `malloc.c` alone, under every sequence of calls.
3. Proofs: the page accounting of `Slab`, once its list walks are recursive
   functions.
