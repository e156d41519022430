---------------------------- MODULE KernelExec ----------------------------
(***************************************************************************)
(* The first process: kmain() creates it and exec() loads the user space   *)
(* loader in it (kernel/domain/services/exec.c, infrastructure/elf.c).     *)
(*                                                                         *)
(* Physical memory is read and written cell by cell.  A cell is            *)
(* <<f, n>>, byte n of the file f; <<"zero", 0>>; <<"char", c>>,           *)
(* <<"word", x>> and <<"name", x>>, written; or <<"junk", 0>>.  A string   *)
(* is the cells of its characters, a word takes one cell.  k.mem holds the *)
(* frames that were written since boot.                                    *)
(***************************************************************************)
EXTENDS KernelInit

CONSTANTS
  JINUE_STACK_SIZE, JINUE_RESERVED_STACK_SIZE,
  PhdrSize        \* sizeof(Elf32_Phdr)

JINUE_STACK_BASE == JINUE_KLIMIT
JINUE_STACK_START == JINUE_STACK_BASE - JINUE_STACK_SIZE

Zero == <<"zero", 0>>
JunkCell == <<"junk", 0>>
Word(x) == <<"word", x>>
Chars(text) == [i \in DOMAIN text |-> <<"char", text[i]>>]

\* What the boot loader and the setup code put at a physical address.
InitialCell(paddr) ==
  LET image == machine.image IN
  CASE paddr \in image.kernel_start .. image.kernel_start + image.kernel.size - 1 ->
         <<image.kernel.name, paddr - image.kernel_start>>
    [] paddr \in image.loader_start .. image.loader_start + image.loader.size - 1 ->
         <<image.loader.name, paddr - image.loader_start>>
    [] paddr \in bi.ramdisk_start .. bi.ramdisk_start + bi.ramdisk_size - 1 ->
         <<"ramdisk", paddr - bi.ramdisk_start>>
    [] OTHER -> JunkCell

Cell(kk, paddr) ==
  IF page_number_of(paddr) \in DOMAIN kk.mem THEN kk.mem[page_number_of(paddr)][paddr % PAGE_SIZE]
  ELSE InitialCell(paddr)

\* cells at consecutive physical addresses
WritePhysical(kk, paddr, cells) ==
  LET touched == {page_number_of(paddr + i - 1) : i \in DOMAIN cells}
  IN [kk EXCEPT !.mem = [f \in DOMAIN kk.mem \cup touched |->
        IF f \notin touched THEN kk.mem[f]
        ELSE [o \in 0 .. PAGE_SIZE - 1 |->
                LET i == f * PAGE_SIZE + o - paddr + 1
                IN IF i \in DOMAIN cells THEN cells[i] ELSE Cell(kk, f * PAGE_SIZE + o)]]]

(***************************************************************************)
(* Processes.  An address space maps pages to frames; its translation      *)
(* tables and its thread are pages of the kernel.  The slabs that hold the *)
(* other objects are the subject of Memory and take no page here.          *)
(***************************************************************************)
NewProcess == [space |-> [p \in {} |-> 0], tables |-> [t \in {} |-> 0], descriptors |-> [d \in {} |-> 0],
               entry |-> 0, stack_addr |-> 0, sigmask |-> 0]

\* A table that is missing takes a page from the page allocator: <<k, succeeded>>
AddTable(kk, name, t) ==
  IF t \in DOMAIN kk.process[name].tables THEN <<kk, TRUE>>
  ELSE IF kk.pages = <<>> THEN <<kk, FALSE>>
  ELSE <<[kk EXCEPT !.pages = Tail(@), !.process[name].tables = t :> Head(kk.pages) @@ @], TRUE>>

\* Without PAE the page directory is a copy of the kernel's, in a page of its own.
\* <<k, succeeded>>
process_new(kk, name) ==
  LET new == [kk EXCEPT !.process = [p \in DOMAIN @ \cup {name} |-> IF p = name THEN NewProcess ELSE @[p]]]
  IN IF UsePae(bi) THEN <<new, TRUE>>
     ELSE IF kk.pages = <<>> THEN <<kk, FALSE>>
     ELSE AddTable(new, name, <<"directory", 0>>)

\* A thread is a page of the kernel, which goes back with the process: the last thread, the
\* only one here, takes it along.  <<k, succeeded>>
thread_new(kk, name) == AddTable(kk, name, <<"thread", 0>>)

\* When its last thread exits, the address space goes with the process.
process_free(kk, name) ==
  LET tables == kk.process[name].tables
  IN [kk EXCEPT !.pages = FoldSet(LAMBDA t, pages : <<tables[t]>> \o pages, @, DOMAIN tables),
                !.process = [p \in DOMAIN @ \ {name} |-> @[p]]]

Mapping(frame, prot) == [frame |-> frame, prot |-> prot]

\* The page table of a page, and with PAE the page directory before it.
lookup_userspace_page_table(kk, name, p) ==
  LET Table(now, succeeded) == IF succeeded THEN AddTable(now, name, <<"table", p \div Ptes(bi)>>) ELSE <<now, FALSE>>
  IN With(IF UsePae(bi) THEN AddTable(kk, name, <<"directory", p \div (Ptes(bi) * Ptes(bi))>>) ELSE <<kk, TRUE>>, Table)

\* Page by page: what was mapped before a failure stays mapped.  What the CPU caches is
\* the subject of Pmap.
machine_map_userspace(kk, name, addr, size, paddr, prot) ==
  LET first == page_number_of(addr)
      Set(now, p) == [now EXCEPT !.process[name].space = p :> Mapping(page_number_of(paddr) + p - first, prot) @@ @]
      MapPage(done, p) ==
        IF ~done[2] THEN done
        ELSE With(lookup_userspace_page_table(done[1], name, p),
                  LAMBDA now, succeeded : <<IF succeeded THEN Set(now, p) ELSE now, succeeded>>)
  IN FoldLeft(MapPage, <<kk, TRUE>>, [i \in 1 .. NUM_PAGES(size) |-> first + i - 1])

\* The cells at an address of a process, and whether it may write them.
PhysicalOf(kk, name, addr) ==
  kk.process[name].space[page_number_of(addr)].frame * PAGE_SIZE + (addr % PAGE_SIZE)

IsMapped(kk, name, addr, size, prot) ==
  \A p \in page_number_of(addr) .. page_number_of(addr + size - 1) :
    p \in DOMAIN kk.process[name].space /\ prot \in kk.process[name].space[p].prot

\* What is not mapped reads as a cell that is like no other.
UserCell(kk, name, addr) ==
  IF page_number_of(addr) \in DOMAIN kk.process[name].space THEN Cell(kk, PhysicalOf(kk, name, addr)) ELSE <<"fault", 0>>

\* A write through the mappings of a process: page by page, or a page fault.
WriteUser(kk, name, addr, cells) ==
  IF cells = <<>> THEN kk
  ELSE IF ~IsMapped(kk, name, addr, Len(cells), "write") THEN Panic(kk, "page fault")
  ELSE LET pages == [i \in 1 .. page_number_of(addr + Len(cells) - 1) - page_number_of(addr) + 1 |->
                       page_number_of(addr) + i - 1]
           Write(now, p) ==
             LET start == Max2(addr, p * PAGE_SIZE)
                 end == Min2(addr + Len(cells), (p + 1) * PAGE_SIZE)
             IN WritePhysical(now, PhysicalOf(now, name, start), SubSeq(cells, start - addr + 1, end - addr))
       IN FoldLeft(Write, kk, pages)

(***************************************************************************)
(* elf.c                                                                   *)
(***************************************************************************)
checked_map_userspace_page(kk, name, vaddr, paddr, prot) ==
  With(machine_map_userspace(kk, name, vaddr, PAGE_SIZE, paddr, prot), LAMBDA mapped, succeeded :
    IF succeeded THEN mapped ELSE Panic(mapped, "Page table allocation error when loading ELF file"))

\* The first segment that is not writable and contains the program headers.
get_at_phdr(elf) ==
  LET end == elf.phoff + Len(elf.phdrs) * PhdrSize
      holds == {i \in DOMAIN elf.phdrs : LET p == elf.phdrs[i] IN
                  /\ p.type = "LOAD" /\ "W" \notin p.flags
                  /\ p.offset <= elf.phoff /\ end <= p.offset + p.filesz}
  IN IF holds = {} THEN 0
     ELSE LET p == elf.phdrs[CHOOSE i \in holds : \A j \in holds : i <= j] IN p.vaddr + elf.phoff - p.offset

\* A segment that is writable is never executable.
map_protection_flags(flags) ==
  (IF "R" \in flags THEN {"read"} ELSE {})
  \cup (IF "W" \in flags THEN {"write"} ELSE IF "X" \in flags THEN {"exec"} ELSE {})

check_userspace_buffer(addr, size) == addr < JINUE_KLIMIT /\ size <= JINUE_KLIMIT - addr

\* Physical address of a byte of the loader's file, through the kernel's mapping.
LoaderFile(kk, offset) == machine_lookup_kernel_paddr(kk, bi.loader_start + offset) + ((bi.loader_start + offset) % PAGE_SIZE)

MapOriginalPage(kk, name, phdr, vaddr, offset) ==
  checked_map_userspace_page(kk, name, vaddr, ALIGN_START(LoaderFile(kk, offset), PAGE_SIZE),
                             map_protection_flags(phdr.flags))

\* Copied through the new mapping, write protected or not, then padded.
CopyPage(kk, name, phdr, vaddr, offset) ==
  LET page == page_alloc(kk)
      mapped == checked_map_userspace_page(page[1], name, vaddr, machine_lookup_kernel_paddr(kk, page[2]),
                                           map_protection_flags(phdr.flags))
  IN Then(mapped, LAMBDA now :
       WriteUser(now, name, vaddr,
         [i \in 1 .. PAGE_SIZE |-> IF vaddr + i - 1 < phdr.vaddr + phdr.filesz
                                     THEN Cell(now, LoaderFile(now, offset + i - 1)) ELSE Zero]))

LoadSegment(kk, name, phdr) ==
  LET start == ALIGN_START(phdr.vaddr, PAGE_SIZE)
      end == ALIGN_END(phdr.vaddr + phdr.memsz, PAGE_SIZE)
      file == ALIGN_START(bi.loader_start + phdr.offset, PAGE_SIZE) - bi.loader_start
      copied == "W" \in phdr.flags \/ phdr.filesz # phdr.memsz
  IN IF phdr.type # "LOAD" THEN kk
     ELSE IF ~check_userspace_buffer(phdr.vaddr, phdr.memsz) THEN Panic(kk, "user space loader memory layout")
     ELSE FoldLeft(LAMBDA now, n : Then(now, LAMBDA so_far :
                     IF copied THEN CopyPage(so_far, name, phdr, start + n * PAGE_SIZE, file + n * PAGE_SIZE)
                     ELSE MapOriginalPage(so_far, name, phdr, start + n * PAGE_SIZE, file + n * PAGE_SIZE)),
                   kk, [n \in 1 .. (end - start) \div PAGE_SIZE |-> n - 1])

load_segments(kk, name, elf) ==
  IF get_at_phdr(elf) = 0 THEN Panic(kk, "Program headers address (AT_PHDR) could not be determined")
  ELSE FoldLeft(LAMBDA now, phdr : Then(now, LAMBDA so_far : LoadSegment(so_far, name, phdr)), kk, elf.phdrs)

AllocateStackPage(kk, name, vaddr) ==
  LET page == page_alloc(kk)
      paddr == machine_lookup_kernel_paddr(kk, page[2])
      cleared == WritePhysical(page[1], paddr, [i \in 1 .. PAGE_SIZE |-> Zero])
  IN checked_map_userspace_page(cleared, name, vaddr, paddr, {"read", "write"})

allocate_stack(kk, name) ==
  FoldLeft(LAMBDA now, n : Then(now, LAMBDA so_far : AllocateStackPage(so_far, name, JINUE_STACK_START + n * PAGE_SIZE)),
           kk, [n \in 1 .. JINUE_STACK_SIZE \div PAGE_SIZE |-> n - 1])

\* The address of each of n strings that follow one another, from their text.
initialize_string_array(n, text, addr) ==
  LET ends == SelectSeq([i \in DOMAIN text |-> i], LAMBDA i : text[i] = NUL)
  IN [i \in 1 .. n |-> addr + (IF i = 1 THEN 0 ELSE ends[i - 1])]

Words(values) == [i \in DOMAIN values |-> Word(values[i])]

\* Auxiliary vectors: the type and the value of each.
Auxv(pairs) ==
  [i \in 1 .. 2 * Len(pairs) |-> IF i % 2 = 1 THEN <<"type", pairs[(i + 1) \div 2][1]>> ELSE pairs[i \div 2][2]]
Name(x) == <<"name", x>>

\* argc, argv, envp, the auxiliary vectors, then the strings.
StackContents(sp, args, environ, argc, nenv, auxv) ==
  LET strings == sp + 1 + (argc + 1) + (nenv + 1) + 2 * Len(auxv)
  IN <<Word(argc)>>
     \o Words(initialize_string_array(argc, args, strings)) \o <<Word(0)>>
     \o Words(initialize_string_array(nenv, environ, strings + Len(args))) \o <<Word(0)>>
     \o Auxv(auxv) \o Chars(args \o environ)

JINUE_PROTOCOL_LOADER == 1
JINUE_PROTOCOL_INIT == 2

Argv0 == <<"jinue-userspace-loader", NUL>>

initialize_stack(kk, name, elf, cmdline) ==
  LET sp == JINUE_STACK_BASE - JINUE_RESERVED_STACK_SIZE
      auxv == << <<"PHDR", Word(get_at_phdr(elf))>>, <<"PHENT", Word(PhdrSize)>>,
                 <<"PHNUM", Word(Len(elf.phdrs))>>, <<"PAGESZ", Word(PAGE_SIZE)>>, <<"ENTRY", Word(elf.entry)>>,
                 <<"STACKBASE", Word(JINUE_STACK_BASE)>>, <<"HOWSYSCALL", Name(kk.syscall_implementation)>>,
                 <<"ACPI_RSDP", Word(kk.rsdp_paddr)>>, <<"PROTOCOL", Word(JINUE_PROTOCOL_LOADER)>>, <<"NULL", Word(0)>> >>
  IN [WriteUser(kk, name, sp, StackContents(sp, cmdline_write_arguments(Argv0, cmdline),
                                            cmdline_write_environ(<<>>, cmdline),
                                            cmdline_count_arguments(cmdline) + 1,
                                            cmdline_count_environ(cmdline), auxv))
      EXCEPT !.process[name].stack_addr = sp]

machine_load_exec(kk, name, elf, cmdline) ==
  IF ~elf_check(elf) THEN Panic(kk, "ELF binary is invalid")
  ELSE Then(Then(load_segments(kk, name, elf), LAMBDA now : allocate_stack(now, name)),
            LAMBDA now : initialize_stack([now EXCEPT !.process[name].entry = elf.entry], name, elf, cmdline))

(***************************************************************************)
(* exec.c                                                                  *)
(***************************************************************************)
JINUE_DESC_SELF_PROCESS == 0
JINUE_DESC_MAIN_THREAD == 1
JINUE_DESC_LOADER_ENDPOINT == 2
JINUE_DESC_LAST == 2

\* An object is its type and a name.
AllPermissions(object) ==
  CASE object[1] = "process" -> {"create_thread", "map", "open", "signal"}
    [] object[1] = "thread" -> {"start", "await", "signal"}
    [] object[1] = "endpoint" -> {"send", "receive"}

OpenDescriptor(kk, name, fd, object, flags) ==
  [kk EXCEPT !.process[name].descriptors = fd :> [object |-> object, flags |-> flags] @@ @]

set_descriptor(kk, name, fd, object) == OpenDescriptor(kk, name, fd, object, AllPermissions(object))

initialize_descriptors(kk, name) ==
  set_descriptor(set_descriptor(kk, name, JINUE_DESC_SELF_PROCESS, <<"process", name>>),
                 name, JINUE_DESC_MAIN_THREAD, <<"thread", name>>)

exec(kk, name, elf, cmdline) == Then(machine_load_exec(kk, name, elf, cmdline), LAMBDA now : initialize_descriptors(now, name))

Exec ==
  KernelStep("exec", "loader",
    LET created == process_new(k, "loader")
        thread == thread_new(created[1], "loader")
    IN IF ~created[2] THEN Panic(k, "Could not create initial process.")
       ELSE IF ~thread[2] THEN Panic(thread[1], "Could not create initial thread.")
       ELSE Then(get_loader_elf(thread[1]), LAMBDA now : exec(now, "loader", machine.image.loader, CommandLine)))

=============================================================================
