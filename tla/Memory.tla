------------------------------ MODULE Memory ------------------------------
(***************************************************************************)
(* The kernel's memory at run time: processes with their address spaces    *)
(* (module Pmap), threads, and the caches and pages they are made of       *)
(* (module Slab), under every order of creation, mapping, switching and    *)
(* destruction, with the pool of pages running out anywhere.               *)
(*                                                                         *)
(* A system is chosen at the start.  One with a "client" cache exercises   *)
(* the whole interface of the slab allocator, misuse by its client         *)
(* included, for one layout of the cache.  The others have the kernel's    *)
(* own caches, with and without PAE.                                       *)
(***************************************************************************)
EXTENDS Pmap

CONSTANTS
  Systems,        \* records: pages (in the pool), pae, pat, caches (name -> description),
                  \* calls (that allocate, in a behaviour), maps (arguments of MMAP:
                  \* va, size, frame, prot, flags)
  Procs,          \* processes that may exist at the same time
  MaxThreads,     \* threads that exist at the same time
  MaxMisuse       \* buffers misused by the client at a time

ASSUME MemoryBounds == {MaxThreads, MaxMisuse} \subseteq Nat

VARIABLES
  sys,       \* the system
  h, cpu,    \* the heap and the CPU
  proc,      \* per process: its state and the address of its process_t
  threads,   \* pages that hold a thread
  objs,      \* objects that the client of the "client" cache holds
  dirty,     \* buffers written where their owner should not have written
  map,       \* what each process was told is mapped where
  calls,     \* creations, calls to MMAP and allocations so far
  honest,    \* the last allocation or free did what slab.c documents
  failed     \* MMAP into the current address space has failed since it was loaded

vars == <<sys, h, cpu, proc, threads, objs, dirty, map, calls, honest, failed>>

KernelTable == KernelDirectory + 1
InitialPdpt == KernelDirectory + 2
AllPages == Pages \cup {KernelDirectory, KernelTable, InitialPdpt}

NoProc == [state |-> "none", obj |-> NULL, top |-> NULL]
NoMap(s) == [va \in UserPages(s.pae) |-> Zero]

IsClient(s) == "client" \in DOMAIN s.caches

---------------------------------------------------------------------------
(* The state in which the kernel starts its first process: the pages that  *)
(* the boot allocator left are freed in ascending order, the caches are    *)
(* initialized, and the CPU is in the initial address space, whose kernel  *)
(* part is the template.                                                   *)

InitialMem ==
  [p \in AllPages |-> [w \in 0 .. SLAB_SIZE - 1 |->
     IF p = KernelDirectory /\ w >= KlimitEntry THEN Table(KernelTable)
     ELSE IF p = InitialPdpt /\ w = KlimitDirectory THEN Table(KernelDirectory)
     ELSE Zero]]

RECURSIVE FreeAll(_, _)
FreeAll(heap, pool) ==
  IF pool = {} THEN heap
  ELSE LET p == CHOOSE q \in pool : \A r \in pool : q <= r IN
       FreeAll(PageFree(heap, AddrOf(p)), pool \ {p})

EmptyHeap(s) ==
  [mem |-> InitialMem,
   slab |-> [p \in Pages |-> [prev |-> NULL, next |-> NULL, cache |-> "none",
                              obj_count |-> 0, colour |-> 0, free_list |-> NULL]],
   cache |-> [n \in DOMAIN s.caches |-> SlabCacheLayout(s.caches[n])],
   head |-> NULL, count |-> 0, warned |-> {}]

RECURSIVE InitCaches(_, _, _)
InitCaches(heap, s, names) ==
  IF names = {} THEN heap
  ELSE LET n == CHOOSE x \in names : TRUE IN
       InitCaches(SlabCacheInit(heap, n, s.caches[n]), s, names \ {n})

InitialTop(s) == AddrOf(IF s.pae THEN InitialPdpt ELSE KernelDirectory)

Init ==
  /\ sys \in Systems
  /\ h = InitCaches(FreeAll(EmptyHeap(sys), 1 .. sys.pages), sys, DOMAIN sys.caches)
  /\ cpu = LoadCr3(h, InitialTop(sys), sys.pae)
  /\ proc = [p \in Procs |-> NoProc]
  /\ threads = {} /\ objs = {} /\ dirty = {}
  /\ map = [p \in Procs |-> NoMap(sys)]
  /\ calls = 0 /\ honest = TRUE /\ failed = FALSE

---------------------------------------------------------------------------
(* Processes and threads.                                                  *)

Current(p) == proc[p].state = "live" /\ cpu.cr3 = proc[p].top

\* The end of every action of a system without a client.
KernelReturns(heap, c) ==
  /\ h' = heap
  /\ cpu' = Speculate(heap, c, sys.pae)
  /\ UNCHANGED <<sys, objs, dirty, honest>>

\* process_new() as create_process() calls it: the object, then its address
\* space; without one the object goes back to its cache.
CreateProcess(p) ==
  /\ ~IsClient(sys) /\ proc[p].state = "none" /\ calls < sys.calls
  /\ \E r \in {SlabCacheAlloc(h, "process")} : \E s \in {PmapCreateAddrSpace(r.h, sys.pae)} :
       /\ KernelReturns(IF r.buffer = NULL THEN r.h
                        ELSE IF s.top = NULL THEN SlabCacheFree(s.h, r.buffer)
                        ELSE Store(s.h, r.buffer + 1, Addr(s.top)), cpu)
       /\ proc' = IF r.buffer = NULL \/ s.top = NULL THEN proc
                  ELSE [proc EXCEPT ![p] = [state |-> "live", obj |-> r.buffer, top |-> s.top]]
  /\ map' = [map EXCEPT ![p] = NoMap(sys)]
  /\ calls' = calls + 1
  /\ UNCHANGED <<threads, failed>>

\* process_switch_to() another process.
SwitchTo(p) ==
  /\ proc[p].state = "live" /\ ~Current(p)
  /\ KernelReturns(h, LoadCr3(h, PtrOf(Load(h, proc[p].obj + 1)), sys.pae))
  /\ failed' = FALSE
  /\ UNCHANGED <<proc, threads, map, calls>>

\* The MMAP system call on process p, by the process that runs; on failure
\* the pages done so far stay mapped.
Mmap(p, args) ==
  LET flags == MapArchPageFlags(args.prot, args.flags, sys.pat)
      top == PtrOf(Load(h, proc[p].obj + 1)) IN
  /\ proc[p].state = "live" /\ calls < sys.calls
  \* lookup_userspace_page_table() asserts that the addresses are user space's
  /\ args.va \in UserPages(sys.pae) /\ args.va + args.size <= Cardinality(UserPages(sys.pae))
  /\ \E r \in {MachineMapUserspace(h, cpu, sys.pae, top, args, flags)} :
       /\ KernelReturns(r.h, r.cpu)
       /\ map' = [map EXCEPT ![p] = [va \in DOMAIN @ |->
                     IF va - args.va \in 0 .. r.done - 1
                       THEN Pte(args.frame + va - args.va, flags \cup {"user"}) ELSE @[va]]]
       /\ failed' = (failed \/ (Current(p) /\ r.pt = NULL))
  /\ calls' = calls + 1
  /\ UNCHANGED <<proc, threads>>

\* The destroy operation: the address space goes, the process_t stays until
\* its last reference is dropped.  The address space in use is never
\* destroyed: switch_from_exiting_thread() leaves it first.
DestroyProcess(p) ==
  /\ proc[p].state = "live" /\ ~Current(p)
  /\ KernelReturns(PmapDestroyAddrSpace(h, sys.pae, PtrOf(Load(h, proc[p].obj + 1))), cpu)
  /\ proc' = [proc EXCEPT ![p].state = "destroyed"]
  /\ UNCHANGED <<threads, map, calls, failed>>

FreeProcess(p) ==
  /\ proc[p].state = "destroyed"
  /\ KernelReturns(SlabCacheFree(h, proc[p].obj), cpu)
  /\ proc' = [proc EXCEPT ![p] = NoProc]
  /\ UNCHANGED <<threads, map, calls, failed>>

\* machine_alloc_thread(), whose page the thread and its kernel stack fill.
AllocThread ==
  /\ ~IsClient(sys) /\ Cardinality(threads) < MaxThreads /\ calls < sys.calls
  /\ KernelReturns(IF h.head = NULL THEN h ELSE Fill(PageAlloc(h), h.head, SLAB_SIZE, Data(1)), cpu)
  /\ threads' = threads \cup ({PageOf(h.head)} \ {0})
  /\ calls' = calls + 1
  /\ UNCHANGED <<proc, map, failed>>

FreeThread(t) ==
  /\ t \in threads
  /\ KernelReturns(PageFree(h, AddrOf(t)), cpu)
  /\ threads' = threads \ {t}
  /\ UNCHANGED <<proc, map, calls, failed>>

---------------------------------------------------------------------------
(* The pages and buffers reached through the structures in memory.  A walk *)
(* is cut after as many steps as there are pages or words, so that it ends *)
(* when a list has become a cycle.                                         *)

RECURSIVE FreePages(_, _)
FreePages(a, n) ==
  IF a = NULL \/ n = 0 THEN <<>> ELSE <<PageOf(a)>> \o FreePages(PtrOf(Load(h, a)), n - 1)

RECURSIVE SlabsFrom(_, _, _)
SlabsFrom(heap, s, n) ==
  IF s = NULL \/ n = 0 THEN <<>> ELSE <<PageOf(s)>> \o SlabsFrom(heap, NextOf(heap, s), n - 1)

RECURSIVE BuffersFrom(_, _, _)
BuffersFrom(c, bufctl, n) ==
  IF bufctl = NULL \/ n = 0 THEN <<>>
  ELSE <<bufctl - c.bufctl_offset>> \o BuffersFrom(c, PtrOf(Load(h, bufctl)), n - 1)

Limit == Cardinality(Pages) + 1

FreeList == FreePages(h.head, Limit)
SlabList(heap, n, list) == SlabsFrom(heap, heap.cache[n][list], Limit)
Slabs(heap, n) ==
  SlabList(heap, n, "empty") \o SlabList(heap, n, "partial") \o SlabList(heap, n, "full")
SlabPages(heap, n) == LET all == Slabs(heap, n) IN {all[i] : i \in DOMAIN all}

---------------------------------------------------------------------------
(* A client of one cache.  It fills the object it allocates, and gives it  *)
(* back as it was constructed; it may write a freed object of a poisoned   *)
(* cache, or one word past the end of an object with a red zone.           *)

ClientCache == h.cache["client"]

ClientReturns == UNCHANGED <<sys, cpu, proc, threads, map, failed>>

\* What the allocator promises about a buffer: constructed if the cache has
\* a constructor, except for a bufctl that the client allowed inside it.
BufferReady(heap, c, a) ==
  \A i \in 0 .. c.obj_size - 1 :
     c.ctor /\ i # c.bufctl_offset => Load(heap, a + i) = Constructed

ClientAlloc ==
  /\ IsClient(sys) /\ calls < sys.calls
  /\ \E r \in {SlabCacheAlloc(h, "client")} :
       /\ h' = IF r.buffer = NULL THEN r.h ELSE Fill(r.h, r.buffer, ClientCache.obj_size, Data(r.buffer))
       /\ objs' = objs \cup ({r.buffer} \ {NULL})
       /\ dirty' = dirty \ {r.buffer}
       /\ honest' = /\ r.buffer # NULL => BufferReady(r.h, ClientCache, r.buffer)
                    /\ r.buffer = NULL => h.head = NULL
                    /\ (r.h.warned # {}) = (r.buffer \in dirty)
  /\ calls' = calls + 1
  /\ ClientReturns

ClientFree(a) ==
  /\ a \in objs
  /\ h' = SlabCacheFree(IF ClientCache.ctor THEN Fill(h, a, ClientCache.obj_size, Constructed) ELSE h, a)
  /\ objs' = objs \ {a}
  /\ dirty' = dirty \ {a}
  /\ honest' = ((h'.warned # {}) = (a \in dirty))
  /\ ClientReturns /\ UNCHANGED calls

\* A write one word past the end of an object.
ClientOverrun(a) ==
  /\ a \in objs /\ "RED_ZONE" \in ClientCache.flags /\ Cardinality(dirty) < MaxMisuse
  /\ h' = Store(h, a + ClientCache.obj_size, Data(0))
  /\ dirty' = dirty \cup {a}
  /\ ClientReturns /\ UNCHANGED <<objs, calls, honest>>

\* Buffers that the cache has made and nobody holds.
FreeBuffers ==
  UNION {{AddrOf(p) + b - ClientCache.bufctl_offset : b \in Bufctls(ClientCache, h.slab[p].colour)} :
           p \in SlabPages(h, "client")} \ objs

\* A write to an object after it was freed.
ClientWriteFreed ==
  /\ IsClient(sys) /\ "POISON" \in ClientCache.flags /\ Cardinality(dirty) < MaxMisuse
  /\ \E a \in FreeBuffers :
       /\ h' = Store(h, a, Data(0))
       /\ dirty' = dirty \cup {a}
  /\ ClientReturns /\ UNCHANGED <<objs, calls, honest>>

Reap ==
  /\ IsClient(sys)
  /\ h' = SlabCacheReap(h, "client")
  /\ dirty' = {a \in dirty : PageOf(a) \in SlabPages(h', "client")}
  /\ ClientReturns /\ UNCHANGED <<objs, calls, honest>>

SetWorkingSet(n) ==
  /\ IsClient(sys) /\ ClientCache.working_set # n
  /\ h' = SlabCacheSetWorkingSet(h, "client", n)
  /\ ClientReturns /\ UNCHANGED <<objs, dirty, calls, honest>>

Next ==
  \/ \E p \in Procs : CreateProcess(p) \/ SwitchTo(p) \/ DestroyProcess(p) \/ FreeProcess(p)
  \/ \E p \in Procs, args \in sys.maps : Mmap(p, args)
  \/ AllocThread \/ \E t \in threads : FreeThread(t)
  \/ ClientAlloc \/ \E a \in objs : ClientFree(a) \/ ClientOverrun(a)
  \/ ClientWriteFreed \/ Reap \/ SetWorkingSet(0)

Spec == Init /\ [][Next]_vars
---------------------------------------------------------------------------
(* What must hold.                                                         *)

Live == {p \in Procs : proc[p].state = "live"}

\* What refers to page q: the entries of the PDPTs, or the address spaces
\* without PAE; the entries of page directories; the lists of slabs.
DirectoryRefs(q) ==
  IF sys.pae
    THEN {<<p, i>> \in Live \X (0 .. KlimitDirectory - 1) : Load(h, proc[p].top + i) = Table(q)}
  ELSE {p \in Live : proc[p].top = AddrOf(q)}

UserEntries == 0 .. (IF sys.pae THEN PaeEntries ELSE KlimitEntry) - 1

TableRefs(q) ==
  {<<d, i>> \in Pages \X UserEntries : h.mem[d][i] = Table(q) /\ DirectoryRefs(d) # {}}

SlabRefs(q) ==
  UNION {LET all == Slabs(h, n) IN {<<n, i>> : i \in {j \in DOMAIN all : all[j] = q}} :
           n \in DOMAIN h.cache}

Owners(q) ==
  LET free == FreeList IN
  Cardinality({i \in DOMAIN free : free[i] = q})
  + Cardinality(DirectoryRefs(q)) + Cardinality(TableRefs(q)) + Cardinality(SlabRefs(q))
  + Cardinality(threads \cap {q})

\* Every page of the kernel's pool has exactly one owner: the free list, a
\* slab of a cache, one entry of the tables of one process, or a thread; and
\* the counts of the page allocator, of the caches and of the slabs agree
\* with the lists.  A page is neither leaked when a creation or a mapping
\* fails halfway nor given out twice.
PagesAccounted ==
  /\ \A q \in 1 .. sys.pages : Owners(q) = 1
  /\ h.count = Len(FreeList)
  /\ \A n \in DOMAIN h.cache :
       LET c == h.cache[n] IN
       /\ c.empty_count = Len(SlabList(h, n, "empty"))
       /\ \A list \in {"empty", "partial", "full"} :
          LET slabs == SlabList(h, n, list) IN
          \A i \in DOMAIN slabs :
            LET s == h.slab[slabs[i]]
                free == Len(BuffersFrom(c, s.free_list, SLAB_SIZE)) IN
            /\ list = "empty" <=> s.obj_count = 0
            /\ list = "full" <=> free = 0
            /\ s.obj_count + free = (SLAB_SIZE - SlabHeader) \div c.alloc_size

---------------------------------------------------------------------------

\* No allocator writes into memory that somebody holds: a client's object
\* has what the client wrote, a process_t its constructed header and its
\* address space, a thread its page, a page in use as a slab its slab_t, and
\* the kernel's part of every address space is the template's.
ObjectsIntact ==
  /\ \A a \in objs, i \in 0 .. SLAB_SIZE :
       i < h.cache["client"].obj_size => Load(h, a + i) = Data(a)
  /\ \A p \in Procs : proc[p].state # "none" =>
       Load(h, proc[p].obj) = Constructed /\ Load(h, proc[p].obj + 1) = Addr(proc[p].top)
  /\ \A t \in threads, w \in 0 .. SLAB_SIZE - 1 : h.mem[t][w] = Data(1)
  /\ \A n \in DOMAIN h.cache : \A q \in SlabPages(h, n) :
       \A w \in SLAB_SIZE - SlabHeader .. SLAB_SIZE - 1 : h.mem[q][w] = Header
  /\ \A p \in Live :
       IF sys.pae THEN Load(h, proc[p].top + KlimitDirectory) = Table(KernelDirectory)
       ELSE \A w \in KlimitEntry .. NoPaeEntries - 1 :
              h.mem[PageOf(proc[p].top)][w] = h.mem[KernelDirectory][w]

\* A buffer comes out of its cache in its constructed state, an allocation
\* fails only when the page allocator is empty, and the poison and red zone
\* checks report a write outside an object exactly when there was one: at
\* the next allocation of a freed object, or when the object is freed.
AllocationHonest == honest

\* The tables of every process map what the successful part of its MMAP
\* calls mapped, page by page, and, unless one of them failed, the CPU sees
\* just that: neither a stale PDPT register nor a stale TLB entry is left.
TranslationExact ==
  \A p \in Live : \A va \in UserPages(sys.pae) :
     /\ TableWalk(h, proc[p].top, sys.pae, va) = map[p][va]
     /\ Current(p) /\ ~failed =>
          /\ CpuWalk(h, cpu, sys.pae, va) = map[p][va]
          /\ cpu.tlb[va] \subseteq {map[p][va]}

\* pae.c: "Whenever we modify an entry in the PDPT, we must reload CR3."
\* The PDPT registers of the CPU are those of the PDPT it runs on whenever
\* the kernel returns.
PdptReloaded ==
  \A p \in Live : sys.pae /\ Current(p) =>
     \A i \in 0 .. KlimitDirectory : cpu.pdpt[i] = Load(h, cpu.cr3 + i)
=============================================================================
