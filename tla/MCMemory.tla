----------------------------- MODULE MCMemory -----------------------------
(***************************************************************************)
(* Instances of Memory: the kernel with and without PAE, and a client of   *)
(* a cache in each layout that slab_cache_init() distinguishes.            *)
(***************************************************************************)
EXTENDS Memory, TLC

Cache(size, alignment, ctor, flags) ==
  [size |-> size, alignment |-> alignment, ctor |-> ctor, dtor |-> FALSE, flags |-> flags]

\* The kernel's own: a process_t is constructed, a PDPT is aligned on its size.
KernelCaches(pae) ==
  [n \in {"process"} \cup {x \in {"pdpt"} : pae} |->
     IF n = "process" THEN Cache(2, 0, TRUE, {}) ELSE Cache(4, 4, FALSE, {})]

Client(pages, n, size, alignment, ctor, flags) ==
  [pages |-> pages, calls |-> n, pae |-> FALSE, pat |-> FALSE, maps |-> {},
   caches |-> [c \in {"client"} |-> Cache(size, alignment, ctor, flags)]]

Map(va, size, frame, prot, flags) ==
  [va |-> va, size |-> size, frame |-> frame, prot |-> prot, flags |-> flags]

\* With PAE, pages 0 .. 3, 4 .. 7 and 8 .. 11 have a page directory each, with two
\* page tables of two pages; without, a page table has three pages.
PaeMaps ==
  {Map(0, 1, 20, {"read", "write"}, {}),
   Map(0, 1, 30, {"read"}, {"uncacheable"}),
   Map(1, 4, 21, {"read"}, {"write_combine"}),
   Map(5, 0, 41, {"read"}, {})}

NoPaeMaps ==
  {Map(0, 1, 20, {"read", "write"}, {}),
   Map(1, 4, 21, {"read"}, {"write_combine"}),
   Map(2, 1, 31, {}, {})}

MCSystems ==
  {[pages |-> 6, calls |-> 5, pae |-> TRUE, pat |-> TRUE, maps |-> PaeMaps, caches |-> KernelCaches(TRUE)],
   [pages |-> 4, calls |-> 5, pae |-> FALSE, pat |-> FALSE, maps |-> NoPaeMaps, caches |-> KernelCaches(FALSE)],
   Client(3, 7, 2, 0, TRUE, {}),
   Client(3, 5, 4, 0, FALSE, {}),
   Client(2, 6, 1, 0, FALSE, {"HWCACHE_ALIGN"}),
   Client(2, 6, 2, 0, TRUE, {"COMPACT", "HWCACHE_ALIGN"}),
   Client(2, 5, 2, 0, TRUE, {"RED_ZONE"}),
   Client(2, 5, 2, 0, FALSE, {"POISON"}),
   Client(2, 5, 1, 0, TRUE, {"POISON", "RED_ZONE"})}

ProcSymmetry == Permutations(Procs)
=============================================================================
