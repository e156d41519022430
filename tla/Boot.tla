-------------------------------- MODULE Boot --------------------------------
(***************************************************************************)
(* From the boot loader to the client of the test application: the setup   *)
(* code, the kernel's initialisation, the first process, the user space    *)
(* loader, init and its client, one composed system.                       *)
(***************************************************************************)
EXTENDS TestServer

Processes == {"loader", "init", "client"}

bootVars == <<machine, pc, setupVars, k, user, call>>

BootInit ==
  /\ SetupInit
  /\ k = InitialKernel
  /\ user = [p \in Processes |-> [NewProgram(p) EXCEPT !.at = IF p = "loader" THEN "start" ELSE "none"]]
  /\ call = [e \in {"loader", "init"} |-> NoCall]

BootNext ==
  \/ SetupNext /\ UNCHANGED <<k, user, call>>
  \/ (KernelInitNext \/ Exec) /\ UNCHANGED <<user, call>>
  \/ LoaderNext
  \/ InitNext
  \/ ClientNext

BootSpec == BootInit /\ [][BootNext]_bootVars

(***************************************************************************)
(* From physical to virtual addresses.                                     *)
(***************************************************************************)
SetupPoints == {"adjust_bootinfo_pointers", "adjust_stack", "cleanup_after_paging", "reload_cr3", "kmain"}

\* Where something that was loaded or allocated at low addresses is, before or after the move.
LoadedAt(vaddr, offset) == IF vaddr >= JINUE_KLIMIT THEN vaddr - offset ELSE vaddr

PagesBelowKernel == {i * PAGE_SIZE : i \in 0 .. page_number_of(JINUE_KLIMIT) - 1}
PagesOfKernel == {JINUE_KLIMIT + i * PAGE_SIZE : i \in 0 .. page_number_of(ADDR_4GB - JINUE_KLIMIT) - 1}

DataSegmentInPlace ==
  \A i \in 1 .. bi.segment.size :
    LET at == Translate(bi.segment.start + i - 1)
        phdr == CHOOSE p \in writable_program_header(machine.image.kernel) : TRUE
    IN /\ at.write /\ at.addr = bi.segment.physaddr + i - 1
       /\ ram[bi.segment.physaddr][i] = SegmentByte(machine.image.kernel, phdr, i - 1)

\* From the moment setup32.asm enables paging to the jump to the kernel, the setup code can run
\* at each step: its instructions, its stack and what bootinfo_t points to are where they were
\* loaded, through pointers that are moved one group at a time while the temporary mappings are
\* still there.  When the kernel starts nothing is left below JINUE_KLIMIT, its data segment is
\* a writable copy of the file, its tables are memory that nothing else will be given
\* (prepare_for_paging() gives the temporary ones back while the CPU uses them), and with NX no
\* page can be both written and executed.
SetupMapped ==
  cpu.paging /\ pc \in SetupPoints =>
    /\ Translate(cpu.eip).execute /\ Translate(cpu.eip).addr = LoadedAt(cpu.eip, BOOT_OFFSET_FROM_1MB)
    /\ Translate(cpu.esp).write /\ Translate(cpu.esp).addr = LoadedAt(cpu.esp, BOOT_OFFSET_FROM_16MB)
    /\ \A p \in {bi.image_start, bi.kernel_start, bi.loader_start} :
         Translate(p).addr = LoadedAt(p, BOOT_OFFSET_FROM_1MB)
    /\ \A p \in {bi.bootinfo, bi.boot_heap, bi.acpi_addr_map, bi.cmdline, bi.page_tables, bi.page_directory} :
         Translate(p).write /\ Translate(p).addr = LoadedAt(p, BOOT_OFFSET_FROM_16MB)
    /\ pc = "cleanup_after_paging" /\ cpu.pae => Translate(bi.cr3).write /\ Translate(bi.cr3).addr = bi.cr3
    /\ pc = "kmain" =>
         /\ \A a \in PagesBelowKernel : Translate(a) = Fault
         /\ \A a \in PagesOfKernel : cpu.nx => ~(Translate(a).write /\ Translate(a).execute)
         /\ \A p \in {bi.page_tables, bi.page_directory} : p < bi.boot_end
         /\ DataSegmentInPlace

(***************************************************************************)
(* Who uses which memory.                                                  *)
(***************************************************************************)
FrameOf(vaddr) == page_number_of(VIRT_TO_PHYS_AT_16MB(vaddr))

\* Boot data, translation tables and free pages.
BootFrames == page_number_of(MEMORY_ADDR_16MB) .. FrameOf(bi.boot_end) - 1
TablesOf(p) == {FrameOf(k.process[p].tables[t]) : t \in DOMAIN k.process[p].tables}
FreeFrames == {FrameOf(k.pages[i]) : i \in DOMAIN k.pages}
KernelFrames == BootFrames \cup FreeFrames \cup UNION {TablesOf(p) : p \in DOMAIN k.process}

MappedBy(p) == {k.process[p].space[v].frame : v \in DOMAIN k.process[p].space}

\* The process whose C library hands out physical memory: the loader, then init.
Allocator == IF user["init"].u.alloc_range.limit # 0 THEN "init" ELSE "loader"
Unallocated ==
  LET range == user[Allocator].u.alloc_range
  IN page_number_of(range.addr) .. page_number_of(range.limit) - 1

\* The kernel's allocator, the loader's and, after the hand-over, init's never have the same
\* page: what a process maps is neither the kernel's nor yet to be given out, what is yet to be
\* given out is memory that the address map says is available and that is not the RAM disk, a
\* page that a process may write is not also another of its pages, and no page is free, the
\* kernel's boot data or a translation table more than once, also after a process exited.
MemoryOwnedOnce ==
  pc = "loader" =>
    /\ \A p \in DOMAIN k.process : MappedBy(p) \cap (KernelFrames \cup Unallocated) = {}
    /\ Unallocated \cap KernelFrames = {}
    /\ \A f \in Unallocated : LET page == MemRange(f * PAGE_SIZE, (f + 1) * PAGE_SIZE) IN
         /\ range_is_in_available_memory(page, AcpiMap)
         /\ ~ranges_intersect(page, MemRange(bi.ramdisk_start, bi.ramdisk_start + bi.ramdisk_size))
    /\ \A p \in DOMAIN k.process : LET space == k.process[p].space IN
         \A v, w \in DOMAIN space : v # w /\ "write" \in space[v].prot => space[v].frame # space[w].frame
    /\ Cardinality(KernelFrames)
         = Cardinality(BootFrames) + Len(k.pages)
           + FoldSet(LAMBDA p, sum : sum + Cardinality(DOMAIN k.process[p].tables), 0, DOMAIN k.process)

(***************************************************************************)
(* What the boot loader was given.  machine.parameters is the command line *)
(* before it was written out: arguments and options, those of the kernel   *)
(* included, and double dashes, of which the first counts.                 *)
(***************************************************************************)
View(p) == [k |-> k, u |-> user[p].u]

DashesAt ==
  {i \in DOMAIN machine.parameters : /\ machine.parameters[i].kind = "dashes"
                                     /\ \A j \in 1 .. i - 1 : machine.parameters[j].kind # "dashes"}
IsAfterDashes(i) == \E d \in DashesAt : d < i

\* After the dashes, what looks like an option with a quoted value is an argument as it is written.
ParameterText(i) ==
  LET p == machine.parameters[i]
      quotes == IF p.quoted /\ IsAfterDashes(i) THEN <<QUOTE>> ELSE <<>>
  IN IF p.kind = "option" THEN p.name \o <<"=">> \o quotes \o p.value \o quotes ELSE p.name

ParametersOf(Test(_)) ==
  LET chosen == SelectSeq([i \in DOMAIN machine.parameters |-> i], Test)
  IN [i \in DOMAIN chosen |-> ParameterText(chosen[i])]

ExpectedArguments ==
  ParametersOf(LAMBDA i : i \notin DashesAt /\ (IsAfterDashes(i) \/ machine.parameters[i].kind = "argument"))

\* The options that the kernel interprets, wherever in it, however their dashes are written.
IsKernelOption(name) == cmdline_match_enum(kernel_option_names \cup machine_option_names, name)

ExpectedVariables ==
  ParametersOf(LAMBDA i : /\ ~IsAfterDashes(i) /\ machine.parameters[i].kind = "option"
                          /\ ~IsKernelOption(machine.parameters[i].name))

VariableName(variable) ==
  SubSeq(variable, 1, (CHOOSE i \in DOMAIN variable : /\ variable[i] = "="
                                                     /\ \A j \in 1 .. i - 1 : variable[j] # "=") - 1)

\* The program that is loaded as init.
InitPath ==
  LET given == SelectSeq(machine.parameters, LAMBDA p : p.kind = "option" /\ p.name = <<"init">>)
  IN IF given = <<>> THEN InitName ELSE given[1].value

ProgramName == [loader |-> <<"jinue-userspace-loader">>, init |-> InitPath, client |-> TestappName]

\* The command line reaches main() of the loader, of init and of its client: each has its own
\* name and then the arguments, in order and without their quotes, and each option that is not
\* the kernel's as an environment variable, in order, however often they were parsed, counted,
\* copied to a stack and read back on the way (cmdline.c, elf.c in the kernel, the loader and the
\* server); and on_panic is in no environment.  Of the kernel's other options nothing is said:
\* filter_userspace_environ lets them through, which doc/cmdline.md says it does not.
ArgumentsDelivered ==
  pc = "loader" => \A p \in DOMAIN k.process :
    user[p].at \notin {"none", "start"} =>
      /\ [i \in 1 .. user[p].u.argc |-> StringAt(View(p), Fetch(View(p), user[p].u.argv + i - 1)[2])]
           = <<ProgramName[p]>> \o ExpectedArguments
      /\ LET variables == StringArray(View(p), user[p].u.environ)
         IN /\ SelectSeq(variables, LAMBDA v : ~IsKernelOption(VariableName(v))) = ExpectedVariables
            /\ \A i \in DOMAIN variables : ~cmdline_match_enum(kernel_option_names, VariableName(variables[i]))

(***************************************************************************)
(* What is in the RAM disk, from the archive itself.                       *)
(***************************************************************************)
RECURSIVE Split(_)
Split(text) ==
  LET slashes == {i \in DOMAIN text : text[i] = "/"}
      first == CHOOSE i \in slashes : \A j \in slashes : i <= j
  IN IF slashes = {} THEN <<text>> ELSE <<SubSeq(text, 1, first - 1)>> \o Split(SubSeq(text, first + 1, Len(text)))

\* From the root, without the components that do not go anywhere.
ArchivePath(header) ==
  LET parts == SelectSeq((IF header.ustar THEN Split(header.prefix) ELSE <<>>) \o Split(header.name),
                         LAMBDA part : part \notin {<<>>, <<".">>})
  IN IF parts = <<>> THEN <<"/">> ELSE FlattenSeq([i \in DOMAIN parts |-> <<"/">> \o parts[i]])

ArchiveType(header) ==
  IF header.typeflag \in {"REGTYPE", "AREGTYPE"} /\ ~header.ustar /\ header.name[Len(header.name)] = "/" THEN "DIR"
  ELSE [REGTYPE |-> "FILE", AREGTYPE |-> "FILE", CONTTYPE |-> "FILE", SYMTYPE |-> "SYMLINK", CHRTYPE |-> "CHARDEV",
        BLKTYPE |-> "BLKDEV", DIRTYPE |-> "DIR", FIFOTYPE |-> "FIFO"][header.typeflag]

ArchiveEntry(header, rest) ==
  LET type == ArchiveType(header)
  IN [type |-> type, name |-> ArchivePath(header), size |-> IF type = "FILE" THEN header.size ELSE 0,
      attributes |-> <<header.uid, header.gid, {<<"JINUE", flag>> : flag \in header.mode}>>,
      value |-> CASE type = "FILE" -> SubSeq(rest, 1, header.size)
                  [] type = "SYMLINK" -> Chars(header.link)
                  [] OTHER -> <<>>]

RECURSIVE Listing(_)
Listing(archive) ==
  LET header == Head(archive)[2]
      entry == ArchiveEntry(header, Tail(archive))
  IN IF Head(archive) = Zero THEN <<>>
     ELSE IF header.typeflag = "LNKTYPE" THEN Listing(Tail(archive))
     ELSE <<entry>> \o Listing(SubSeq(archive, 2 + entry.size, Len(archive)))

\* The same as a process finds it, from the first directory entry.
EntryAt(s, dirent) ==
  LET type == TypeOf(s, dirent)
      size == DirentFileSize(s, dirent)
  IN [type |-> type, name |-> jinue_dirent_name(s, dirent), size |-> size,
      attributes |-> Fetch(s, dirent + Attributes)[2],
      value |-> CASE type = "FILE" -> [i \in 1 .. size |-> Fetch(s, jinue_dirent_file(s, dirent) + i - 1)]
                  [] type = "SYMLINK" -> Chars(jinue_dirent_link(s, dirent))
                  [] OTHER -> <<>>]

RECURSIVE EntriesFrom(_, _)
EntriesFrom(s, dirent) ==
  IF dirent = NULL THEN <<>> ELSE <<EntryAt(s, dirent)>> \o EntriesFrom(s, jinue_dirent_get_next(s, dirent))

\* What the loader extracted is what the archive contains, whatever compressed it, and is so for
\* init too, which finds it at another address, through offsets, in one mapping of physical memory
\* that the loader took piece by piece: every entry but hard links, in order, with its path
\* from the root, its attributes, its link or its contents; for as long as either of them runs.
RamdiskExact ==
  pc = "loader" => \A p \in DOMAIN k.process \cap {"loader", "init"} :
    user[p].extracted.root # NULL /\ user[p].at # "exit" =>
      EntriesFrom(View(p), jinue_dirent_get_first(View(p), user[p].extracted.root)) = Listing(machine.ramdisk.archive)

(***************************************************************************)
(* The programs.                                                           *)
(***************************************************************************)
FileNamed(name) ==
  LET files == SelectSeq(Listing(machine.ramdisk.archive), LAMBDA entry : entry.name = name) IN files[1].value

ProgramFile(p) ==
  IF p = "loader" THEN [i \in 1 .. machine.image.loader.size |-> <<machine.image.loader.name, i - 1>>]
  ELSE FileNamed(ProgramName[p])

SegmentExact(p, phdr, file) ==
  \A i \in 0 .. phdr.memsz - 1 :
    LET page == page_number_of(phdr.vaddr + i) IN
    /\ page \in DOMAIN k.process[p].space
    /\ LET prot == k.process[p].space[page].prot
       IN ("write" \in prot <=> "W" \in phdr.flags) /\ ("exec" \in prot <=> phdr.flags \cap {"W", "X"} = {"X"})
    /\ UserCell(k, p, phdr.vaddr + i) = IF i < phdr.filesz THEN file[phdr.offset + i + 1] ELSE Zero

StackUnused(p) == \A addr \in JINUE_STACK_START .. Remote - 1 : UserCell(k, p, addr) = Zero

\* When a process starts its segments are those of the right file, byte for byte, then zeroes,
\* each with its own protection, its stack is clear and the program headers are where the
\* auxiliary vectors say; and what it cannot write stays so, although the kernel and the loader
\* map it in place from their own files and go on, or exit.
ImagesExact ==
  pc = "loader" => \A p \in DOMAIN k.process :
    LET file == ProgramFile(p)
        elf == ElfFile(file[1][1])
    IN user[p].at # "none" =>
         /\ \A i \in DOMAIN elf.phdrs : LET phdr == elf.phdrs[i] IN
              phdr.type = "LOAD" /\ (user[p].at = "start" \/ "W" \notin phdr.flags) => SegmentExact(p, phdr, file)
         /\ k.process[p].entry = elf.entry
         /\ user[p].at = "start" => StackUnused(p)
         /\ user[p].at # "start" =>
              /\ getauxval(View(p), "ENTRY") = elf.entry
              /\ Fetch(View(p), getauxval(View(p), "PHDR")) = file[elf.phoff + 1]

=============================================================================
