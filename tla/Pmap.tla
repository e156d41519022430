------------------------------- MODULE Pmap -------------------------------
(***************************************************************************)
(* Address spaces: infrastructure/i686/pmap/{pmap,pae,nopae}.c, over the   *)
(* kernel heap of module Slab, which holds the page directory pointer      *)
(* tables (PDPTs), page directories and page tables.                       *)
(*                                                                         *)
(* A virtual address is a page number.  Page p of the heap is also the     *)
(* page frame p, so that machine_lookup_kernel_paddr() and                 *)
(* lookup_page_frame_address() are inverse to each other; frames that      *)
(* user space maps are numbers of their own.  An entry of a PDPT or page   *)
(* directory is <<"table", page>>, an entry of a page table is             *)
(* <<"pte", frame, flags>>, and the zero word is an entry not present.     *)
(*                                                                         *)
(* The CPU is a record: cr3, the PDPT registers it loads with CR3 in PAE   *)
(* mode, and tlb[va], every translation of va that may be cached.          *)
(***************************************************************************)
EXTENDS Slab

CONSTANTS
  PaeEntries, NoPaeEntries,   \* entries of a page directory or page table
  KlimitDirectory,            \* pdpt_offset_of(JINUE_KLIMIT), the last PDPT entry
  KlimitEntry,                \* nopae_page_directory_offset_of(JINUE_KLIMIT)
  KernelDirectory             \* page of the template's first kernel page directory

ASSUME PmapSizes == /\ {PaeEntries, NoPaeEntries, KlimitDirectory, KlimitEntry} \subseteq Nat \ {0}
                    /\ KlimitEntry < NoPaeEntries
                    /\ KernelDirectory \in Nat \ Pages

EntriesPerPageTable(pae) == IF pae THEN PaeEntries ELSE NoPaeEntries

UserPages(pae) ==
  0 .. (IF pae THEN KlimitDirectory * PaeEntries * PaeEntries ELSE KlimitEntry * NoPaeEntries) - 1

PdptOffsetOf(va) == va \div (PaeEntries * PaeEntries)
PageDirectoryOffsetOf(pae, va) ==
  (va \div EntriesPerPageTable(pae)) % EntriesPerPageTable(pae)
PageTableOffsetOf(pae, va) == va % EntriesPerPageTable(pae)

\* page_directory_offset_of(JINUE_KLIMIT)
KlimitOffset(pae) == IF pae THEN 0 ELSE KlimitEntry

Table(p) == <<"table", p>>
Pte(frame, flags) == <<"pte", frame, flags>>

\* X86_PTE_PRESENT, or X86_PTE_PROT_NONE for a page mapped without access.
PteIsPresent(e) == e[1] # "zero"

\* map_arch_page_flags().  The result is built in an int, which has no room
\* for X86_PTE_NX (bit 63): JINUE_PROT_EXEC makes no difference.
MapArchPageFlags(prot, flags, pat) ==
  IF prot \cap {"read", "write", "exec"} = {} THEN {"prot_none"}
  ELSE {"present"}
       \cup {f \in {"read_write"} : "write" \in prot}
       \cup {f \in {"pcd", "pwt"} : "uncacheable" \in flags}
       \cup {f \in {"pcd"} : "write_combine" \in flags /\ ~pat}
       \cup {f \in {"pwt"} : "write_combine" \in flags}

---------------------------------------------------------------------------
(* The CPU.                                                                *)

LoadCr3(h, cr3, pae) ==
  [cr3 |-> cr3,
   pdpt |-> IF pae THEN [i \in 0 .. KlimitDirectory |-> Load(h, cr3 + i)] ELSE <<>>,
   tlb |-> [va \in UserPages(pae) |-> {}]]

InvlPg(cpu, va) == [cpu EXCEPT !.tlb[va] = {}]

\* The page table entry that a walk finds, from a PDPT entry or, without
\* PAE, from the entry of CR3.
WalkFrom(h, top, pae, va) ==
  IF ~PteIsPresent(top) THEN Zero
  ELSE LET pde == h.mem[top[2]][PageDirectoryOffsetOf(pae, va)] IN
       IF ~PteIsPresent(pde) THEN Zero ELSE h.mem[pde[2]][PageTableOffsetOf(pae, va)]

\* The translation the CPU finds when it walks the tables for va.
CpuWalk(h, cpu, pae, va) ==
  WalkFrom(h, IF pae THEN cpu.pdpt[PdptOffsetOf(va)] ELSE Table(PageOf(cpu.cr3)), pae, va)

\* The mapping of va that the structures of an address space describe.
TableWalk(h, top, pae, va) ==
  WalkFrom(h, IF pae THEN Load(h, top + PdptOffsetOf(va)) ELSE Table(PageOf(top)), pae, va)

\* The CPU may walk the tables, and cache what it finds, at any time.
Speculate(h, cpu, pae) ==
  [cpu EXCEPT !.tlb = [va \in UserPages(pae) |->
     @[va] \cup {e \in {CpuWalk(h, cpu, pae, va)} : e[1] = "pte" /\ "present" \in e[3]}]]

---------------------------------------------------------------------------
(* Creating and destroying an address space.                               *)

\* clone_first_kernel_page_directory(): shared when the kernel has all of it
\* (PAE), else a copy of the kernel's entries; NULL when there is no page.
CloneFirstKernelPageDirectory(h, pae) ==
  IF KlimitOffset(pae) = 0 THEN [h |-> h, pd |-> AddrOf(KernelDirectory)]
  ELSE IF h.head = NULL THEN [h |-> h, pd |-> NULL]
  ELSE [h |-> [PageAlloc(h) EXCEPT !.mem[PageOf(h.head)] =
                 [w \in DOMAIN @ |-> IF w < KlimitOffset(pae) THEN Zero
                                     ELSE IF w < EntriesPerPageTable(pae)
                                       THEN h.mem[KernelDirectory][w] ELSE @[w]]],
        pd |-> h.head]

FreeFirstKernelPageDirectory(h, pae, pd) ==
  IF pd # NULL /\ KlimitOffset(pae) # 0 THEN PageFree(h, pd) ELSE h

\* pae_create_addr_space(): the PDPT, or NULL.
PaeCreateAddrSpace(h, pd) ==
  With(SlabCacheAlloc(h, "pdpt"), LAMBDA r :
    IF r.buffer = NULL THEN [h |-> r.h, top |-> NULL]
    ELSE [h |-> Store(Fill(r.h, r.buffer, KlimitDirectory + 1, Zero),
                      r.buffer + KlimitDirectory, Table(PageOf(pd))),
          top |-> r.buffer])

PmapCreateAddrSpace(h, pae) ==
  With(CloneFirstKernelPageDirectory(h, pae), LAMBDA clone :
    IF clone.pd = NULL THEN [h |-> clone.h, top |-> NULL]
    ELSE IF ~pae THEN [h |-> clone.h, top |-> clone.pd]
    ELSE With(PaeCreateAddrSpace(clone.h, clone.pd), LAMBDA r :
           IF r.top = NULL THEN [r EXCEPT !.h = FreeFirstKernelPageDirectory(r.h, pae, clone.pd)]
           ELSE r))

\* destroy_page_directory(): free the page tables of entries i .. last - 1,
\* then the directory.
RECURSIVE DestroyPageDirectory(_, _, _, _)
DestroyPageDirectory(h, pd, i, last) ==
  IF i = last THEN PageFree(h, AddrOf(pd))
  ELSE LET pde == h.mem[pd][i] IN
       DestroyPageDirectory(IF PteIsPresent(pde) THEN PageFree(h, AddrOf(pde[2])) ELSE h,
                            pd, i + 1, last)

\* pae_destroy_addr_space(), from PDPT entry i; the kernel's page directory
\* is shared and stays.
RECURSIVE PaeDestroyAddrSpace(_, _, _)
PaeDestroyAddrSpace(h, pdpt, i) ==
  IF i = KlimitDirectory THEN SlabCacheFree(h, pdpt)
  ELSE LET pdpte == Load(h, pdpt + i) IN
       PaeDestroyAddrSpace(IF PteIsPresent(pdpte)
                             THEN DestroyPageDirectory(h, pdpte[2], 0, PaeEntries) ELSE h,
                           pdpt, i + 1)

PmapDestroyAddrSpace(h, pae, top) ==
  IF pae THEN PaeDestroyAddrSpace(h, top, 0)
  ELSE DestroyPageDirectory(h, PageOf(top), 0, KlimitEntry)

---------------------------------------------------------------------------
(* Mapping user pages.  st is a record: the heap h, the cpu, and reload,   *)
(* pt and index, the locals must_reload_cr3, pte and pte_index.            *)

\* A page for a new page directory or page table.
ClearedPage(h) == ClearPage(PageAlloc(h), h.head)

\* Entry at address a refers to a table; allocate the table as needed.
LookupOrCreate(h, a) ==
  LET e == Load(h, a) IN
  IF PteIsPresent(e) THEN [h |-> h, table |-> AddrOf(e[2]), created |-> FALSE]
  ELSE IF h.head = NULL THEN [h |-> h, table |-> NULL, created |-> FALSE]
  ELSE [h |-> Store(ClearedPage(h), a, Table(PageOf(h.head))), table |-> h.head, created |-> TRUE]

\* The page directory for va, which without PAE is the whole address space's.
LookupPageDirectory(h, pae, top, va) ==
  IF pae THEN LookupOrCreate(h, top + PdptOffsetOf(va))
  ELSE [h |-> h, table |-> top, created |-> FALSE]

\* A mutant: the change of a PDPT entry does not ask for a reload of CR3.
LookupNoReload(st, pae, top, va) ==
  With(LookupPageDirectory(st.h, pae, top, va), LAMBDA d :
    IF d.table = NULL THEN [st EXCEPT !.h = d.h, !.pt = NULL]
    ELSE With(LookupOrCreate(d.h, d.table + PageDirectoryOffsetOf(pae, va)), LAMBDA t :
           [st EXCEPT !.h = t.h, !.pt = t.table]))

\* lookup_userspace_page_table() with create_as_needed.  Only a new page
\* directory changes the PDPT and asks for a reload of CR3.
LookupUserspacePageTable(st, pae, top, va) ==
  With(LookupPageDirectory(st.h, pae, top, va), LAMBDA d :
    IF d.table = NULL THEN [st EXCEPT !.h = d.h, !.pt = NULL]
    ELSE With(LookupOrCreate(d.h, d.table + PageDirectoryOffsetOf(pae, va)), LAMBDA t :
           [st EXCEPT !.h = t.h, !.pt = t.table, !.reload = @ \/ d.created]))

\* One iteration of machine_map_userspace() on a page whose table is st.pt.
SetUserPte(st, va, frame, flags, invalidate) ==
  [st EXCEPT !.h = Store(@, st.pt + st.index, Pte(frame, flags \cup {"user"})),
             !.cpu = IF invalidate /\ ~st.reload THEN InvlPg(@, va) ELSE @,
             !.index = @ + 1,
             !.done = @ + 1]

\* machine_map_userspace() from page offset st.done on; pt is NULL when it
\* returns false.
RECURSIVE MapPages(_, _, _, _, _, _)
MapPages(st, pae, top, args, flags, invalidate) ==
  IF st.done = args.size
    THEN [st EXCEPT !.cpu = IF invalidate /\ st.reload THEN LoadCr3(st.h, @.cr3, pae) ELSE @]
  ELSE With(IF st.index < EntriesPerPageTable(pae) THEN st
            ELSE [LookupUserspacePageTable(st, pae, top, args.va + st.done)
                    EXCEPT !.index = 0], LAMBDA st1 :
         IF st1.pt = NULL THEN st1
         ELSE MapPages(SetUserPte(st1, args.va + st.done, args.frame + st.done, flags, invalidate),
                       pae, top, args, flags, invalidate))

MachineMapUserspace(h, cpu, pae, top, args, flags) ==
  With(LookupUserspacePageTable(
         [h |-> h, cpu |-> cpu, reload |-> FALSE, pt |-> NULL, done |-> 0,
          index |-> PageTableOffsetOf(pae, args.va)], pae, top, args.va), LAMBDA st :
    IF st.pt = NULL THEN st ELSE MapPages(st, pae, top, args, flags, cpu.cr3 = top))
=============================================================================
