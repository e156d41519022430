------------------------------ MODULE Loader ------------------------------
(***************************************************************************)
(* The user space loader (userspace/loader): main() and what it does to    *)
(* load the initial program in a new process (binfmt/elf.c,                *)
(* core/mappings.c), and the server that init asks for the state of memory *)
(* until it asks the loader to exit (core/server.c).                       *)
(*                                                                         *)
(* user[p] is where process p is in its program and its variables; call[e] *)
(* is the message that is being sent to endpoint e, which is named for the *)
(* process that receives from it.  How messages are passed is the subject  *)
(* of Ipc: here a sender waits until it has the reply.                     *)
(***************************************************************************)
EXTENDS Ramdisk

CONSTANTS
  LoaderBufferSize,      \* BUFFER_SIZE in loader.c
  MeminfoMessageSize     \* what get_meminfo() sends, for each element

VARIABLES user, call

userVars == <<user, call>>

InitName == <<"/", "sbin", "/", "init">>
NoFile == [name |-> <<>>, contents |-> NULL, size |-> 0, paddr |-> 0, segment_index |-> 0]
NoParams == [entry |-> 0, stack_addr |-> 0]
NoExtracted == [physaddr |-> 0, size |-> 0, root |-> NULL]

(***************************************************************************)
(* System calls one after the other, until one fails: <<s, succeeded>>     *)
(***************************************************************************)
Syscall(kk, name, c) ==
  CASE c[1] = "mint" -> mint(kk, name, c[2], c[3], c[4], c[5])
    [] c[1] = "create_endpoint" -> create_endpoint(kk, name, c[2], c[3])
    [] c[1] = "create_process" -> create_process(kk, name, c[2], c[3])
    [] c[1] = "create_thread" -> create_thread(kk, name, c[2], c[3])
    [] c[1] = "start_thread" -> start_thread(kk, name, c[2], c[3], c[4])

Syscalls(s, calls) ==
  FoldLeft(LAMBDA done, c : IF ~done[2] THEN done
                            ELSE With(Syscall(done[1].k, s.u.name, c),
                                      LAMBDA kk, error : <<[done[1] EXCEPT !.k = kk], error = "none">>),
           <<s, TRUE>>, calls)

(***************************************************************************)
(* core/mappings.c.  <<s, succeeded>> and <<s, address or NULL>>           *)
(***************************************************************************)
INIT_PROCESS_DESCRIPTOR == JINUE_DESC_LAST + 1
INIT_THREAD_DESCRIPTOR == JINUE_DESC_LAST + 2

map_file(s, vaddr, size, segment_index, offset, perms) ==
  LET start == s.meminfo.segments[segment_index].addr
  IN With(sys_mmap(s.k, s.u.name, INIT_PROCESS_DESCRIPTOR, vaddr, size, start + offset, perms), LAMBDA kk, error :
       IF error # "none" THEN <<[s EXCEPT !.k = kk], FALSE>>
       ELSE <<add_meminfo_mapping([s EXCEPT !.k = kk], vaddr, size, segment_index, offset, perms), TRUE>>)

\* The same memory in this process, to write it, and in the target.
map_anonymous(s, vaddr, size, perms) ==
  LET paddr == __get_physmem_alloc_addr(s)
      Record(now, segment) == add_meminfo_mapping(now, vaddr, size, segment, 0, perms)
  IN With(mmap_anonymous(s, size), LAMBDA got, segment :
       IF segment = MAP_FAILED THEN <<got, NULL>>
       ELSE With(sys_mmap(got.k, s.u.name, INIT_PROCESS_DESCRIPTOR, vaddr, size, paddr, perms), LAMBDA kk, error :
              IF error # "none" THEN <<[got EXCEPT !.k = kk], NULL>>
              ELSE <<With(add_meminfo_segment([got EXCEPT !.k = kk], paddr, size, "ANON"), Record), segment>>))

(***************************************************************************)
(* binfmt/elf.c.  A file is its name, the address of its contents and its  *)
(* size; its ELF headers are those of f if its first bytes are f's.        *)
(***************************************************************************)
ElfOf(s, file) ==
  LET f == Fetch(s, file.contents)[1]
      elf == ElfFile(f)
  IN IF /\ f \in DOMAIN machine.elf
        /\ \A i \in 0 .. Min2(file.size, elf.phoff + Len(elf.phdrs) * PhdrSize) - 1 :
             Fetch(s, file.contents + i) = <<f, i>>
       THEN elf ELSE [valid |-> FALSE]

check_elf_header(s, file) ==
  LET elf == ElfOf(s, file) IN
  /\ file.size >= ElfHeaderSize
  /\ elf.valid
  /\ elf.phoff # 0 /\ elf.phdrs # <<>>
  /\ elf.entry # 0
  /\ file.size >= elf.phoff + Len(elf.phdrs) * PhdrSize

\* A mutant: the segment is copied up to its size in memory.
CopyWholeSegment(s, file, phdr) ==
  LET diff == phdr.vaddr % PAGE_SIZE IN
  [i \in 1 .. ALIGN_END(phdr.memsz + diff, PAGE_SIZE) |->
     IF i - 1 - diff \in 0 .. phdr.memsz - 1 THEN Fetch(s, file.contents + phdr.offset + i - 1 - diff) ELSE Zero]

\* A segment from the start of its first page to the end of its last one.
PaddedSegment(s, file, phdr) ==
  LET diff == phdr.vaddr % PAGE_SIZE IN
  [i \in 1 .. ALIGN_END(phdr.memsz + diff, PAGE_SIZE) |->
     IF i - 1 - diff \in 0 .. phdr.filesz - 1 THEN Fetch(s, file.contents + phdr.offset + i - 1 - diff) ELSE Zero]

load_init_segment(s, file, phdr) ==
  LET diff == phdr.vaddr % PAGE_SIZE
      vaddr == phdr.vaddr - diff
      memsize == ALIGN_END(phdr.memsz + diff, PAGE_SIZE)
      perms == map_protection_flags(phdr.flags)
  IN IF phdr.type # "LOAD" THEN <<s, TRUE>>
     ELSE IF "W" \notin phdr.flags /\ phdr.filesz = phdr.memsz
       THEN map_file(s, vaddr, memsize, file.segment_index, phdr.offset - diff, perms)
     ELSE With(map_anonymous(s, vaddr, memsize, perms), LAMBDA mapped, segment :
            IF segment = NULL THEN <<mapped, FALSE>>
            ELSE <<Put(mapped, segment, PaddedSegment(s, file, phdr)), TRUE>>)

load_init_segments(s, file) ==
  FoldLeft(LAMBDA done, phdr : IF done[2] THEN load_init_segment(done[1], file, phdr) ELSE done,
           <<s, get_at_phdr(ElfOf(s, file)) # NULL>>, ElfOf(s, file).phdrs)

allocate_init_stack(s) ==
  With(map_anonymous(s, JINUE_STACK_START, JINUE_STACK_SIZE, {"read", "write"}), LAMBDA mapped, stack :
    <<IF stack = NULL THEN mapped ELSE Put(mapped, stack, [i \in 1 .. JINUE_STACK_SIZE |-> Zero]), stack>>)

Terminated(strings) == FlattenSeq([i \in DOMAIN strings |-> Append(strings[i], NUL)])

count_environ(s) == Len(StringArray(s, s.u.environ))

\* The name of the program, then the arguments of this process.
write_cmdline_arguments(s, file) ==
  Terminated(<<file.name>> \o [i \in 1 .. s.u.argc - 1 |-> StringAt(s, Fetch(s, s.u.argv + i)[2])])

write_environ(s) == Terminated(StringArray(s, s.u.environ))

CommonAuxv(s, elf) ==
  << <<"PHDR", Word(get_at_phdr(elf))>>, <<"PHENT", Word(PhdrSize)>>, <<"PHNUM", Word(Len(elf.phdrs))>>,
     <<"PAGESZ", Word(PAGE_SIZE)>>, <<"ENTRY", Word(elf.entry)>>, <<"STACKBASE", Word(JINUE_STACK_BASE)>>,
     <<"HOWSYSCALL", Name(getauxval(s, "HOWSYSCALL"))>>, <<"ACPI_RSDP", Word(getauxval(s, "ACPI_RSDP"))>> >>

Remote == JINUE_STACK_BASE - JINUE_RESERVED_STACK_SIZE

\* The stack of the new process, written where it is in this one.
WriteStack(s, stack, file, auxv) ==
  Put(s, stack + JINUE_STACK_SIZE - JINUE_RESERVED_STACK_SIZE,
      StackContents(Remote, write_cmdline_arguments(s, file), write_environ(s), s.u.argc, count_environ(s), auxv))

initialize_init_stack(s, stack, elf, file) ==
  WriteStack(s, stack, file,
             CommonAuxv(s, elf) \o << <<"PROTOCOL", Word(JINUE_PROTOCOL_INIT)>>, <<"NULL", Word(0)>> >>)

\* <<s, succeeded, [entry, stack_addr]>>
load_elf(s, file) ==
  LET elf == ElfOf(s, file) IN
  IF ~check_elf_header(s, file) THEN <<s, FALSE, NoParams>>
  ELSE With(load_init_segments(s, file), LAMBDA loaded, succeeded :
         IF ~succeeded THEN <<loaded, FALSE, NoParams>>
         ELSE With(allocate_init_stack(loaded), LAMBDA mapped, stack :
                IF stack = NULL THEN <<mapped, FALSE, NoParams>>
                ELSE <<initialize_init_stack(mapped, stack, elf, file), TRUE,
                       [entry |-> elf.entry, stack_addr |-> Remote]>>))

(***************************************************************************)
(* loader.c                                                                *)
(***************************************************************************)
\* Where the file is in physical memory is worked out from where it is in this process:
\* <<s, succeeded, file>>
get_init(s, extracted) ==
  LET env == getenv(s, "init")
      File(dirent) ==
        LET contents == jinue_dirent_file(s, dirent)
            size == DirentFileSize(s, dirent)
            start == extracted.physaddr + contents - extracted.root
        IN With(add_meminfo_segment(s, start, size, "FILE"), LAMBDA now, index :
             <<now, TRUE, [name |-> jinue_dirent_name(s, dirent), contents |-> contents, size |-> size,
                           paddr |-> start, segment_index |-> index]>>)
      Found(dirent) == IF dirent = NULL \/ TypeOf(s, dirent) # "FILE" THEN <<s, FALSE, NoFile>> ELSE File(dirent)
  IN Found(jinue_dirent_find_by_name(s, extracted.root, IF env = <<>> THEN InitName ELSE env[1]))

\* <<s, succeeded, [entry, stack_addr]>>
load_init(s, init) ==
  With(Syscalls(s, << <<"create_process", INIT_PROCESS_DESCRIPTOR, "init">> >>), LAMBDA created, had :
    IF ~had THEN <<created, FALSE, NoParams>>
    ELSE With3(load_elf(created, init), LAMBDA loaded, valid, params :
      IF ~valid THEN <<loaded, FALSE, params>>
      ELSE With(Syscalls(loaded,
        << <<"mint", INIT_PROCESS_DESCRIPTOR, INIT_PROCESS_DESCRIPTOR, JINUE_DESC_SELF_PROCESS,
             {"create_thread", "map", "open"}>>,
           <<"create_endpoint", JINUE_DESC_LOADER_ENDPOINT, "loader">>,
           <<"mint", JINUE_DESC_LOADER_ENDPOINT, INIT_PROCESS_DESCRIPTOR, JINUE_DESC_LOADER_ENDPOINT, {"send"}>>,
           <<"create_thread", INIT_THREAD_DESCRIPTOR, INIT_PROCESS_DESCRIPTOR>>,
           <<"mint", INIT_THREAD_DESCRIPTOR, INIT_PROCESS_DESCRIPTOR, JINUE_DESC_MAIN_THREAD, {"start", "await"}>> >>),
        LAMBDA given, succeeded : <<given, succeeded, params>>)))

(***************************************************************************)
(* Processes.                                                              *)
(***************************************************************************)
NewProgram(name) ==
  [at |-> "none", u |-> NewUser(name), meminfo |-> initialize_meminfo, extracted |-> NoExtracted, params |-> NoParams,
   process |-> 0, maps |-> 0]

Running(p) ==
  [f \in DOMAIN user[p] \cup {"k", "stream"} |-> IF f = "k" THEN k ELSE IF f = "stream" THEN NoStream ELSE user[p][f]]

After(p, s, to) == [f \in DOMAIN user[p] |-> IF f = "at" THEN to ELSE s[f]]

\* Process p is at a point of its program and gets to another one in state s.
Proceed(p, from, s, to) ==
  /\ pc = "loader"
  /\ user[p].at = from
  /\ k' = s.k
  /\ user' = [user EXCEPT ![p] = After(p, s, to)]
  /\ pc' = IF Faulted(s) THEN "panic" ELSE pc
  /\ UNCHANGED <<machine, setupVars>>

OrExit(succeeded, to) == IF succeeded THEN to ELSE "exit"

\* The same, or its thread exits because something failed; result is <<s, succeeded>>.
ProceedOrExit(p, from, result, to) == Proceed(p, from, result[1], OrExit(result[2], to))

NoCall == [state |-> "none", function |-> "none", args |-> <<>>, reply_max_size |-> 0, reply |-> <<>>]

\* The sender has access to the endpoint; a message to a process that is gone is answered.
Send(p, endpoint, function, args, reply_max_size) ==
  LET error == AccessError(k, p, JINUE_DESC_LOADER_ENDPOINT, "endpoint", {"send"})
      failure == IF error # "none" THEN error ELSE IF user[endpoint].at = "gone" THEN "EIO" ELSE "none"
  IN call' = [call EXCEPT ![endpoint] =
       [state |-> IF failure = "none" THEN "sent" ELSE failure, function |-> function, args |-> args,
        reply_max_size |-> reply_max_size, reply |-> <<>>]]

Answered(endpoint) == call[endpoint].state \notin {"none", "sent", "received"}
Succeeded(endpoint) == call[endpoint].state = "replied"
Done(endpoint) == call' = [call EXCEPT ![endpoint] = NoCall]

(***************************************************************************)
(* core/server.c, core/meminfo.c                                           *)
(***************************************************************************)
MESSAGE_SIZE(meminfo) == MeminfoMessageSize * (1 + Len(meminfo.segments) + Len(meminfo.mappings))

reply_error(endpoint, error) == call' = [call EXCEPT ![endpoint].state = error]

get_meminfo(s) ==
  IF call["loader"].reply_max_size < MESSAGE_SIZE(s.meminfo) THEN reply_error("loader", "E2BIG")
  ELSE call' = [call EXCEPT !["loader"].state = "replied", !["loader"].reply = update_meminfo(s).meminfo]

\* A message is received and handled; there is no reply to EXIT.
run_loader_server ==
  LET message == call["loader"]
      s == Running("loader")
      meminfo == message.function = "GET_MEMINFO"
      fits == message.reply_max_size >= MESSAGE_SIZE(s.meminfo)
  IN /\ message.state = "sent"
     /\ Proceed("loader", "serve", IF meminfo /\ fits THEN update_meminfo(s) ELSE s,
             IF message.function = "EXIT" THEN "exit" ELSE "serve")
     /\ CASE meminfo -> get_meminfo(s)
          [] message.function = "EXIT" -> call' = [call EXCEPT !["loader"].state = "received"]
          [] OTHER -> reply_error("loader", "ENOSYS")

(***************************************************************************)
(* crt.asm and main().                                                     *)
(***************************************************************************)
LoaderStart == ProceedOrExit("loader", "start", __libc_init(_start(Running("loader"))), "main") /\ UNCHANGED call

LoaderExtract ==
  LET s == [Running("loader") EXCEPT !.meminfo = initialize_meminfo]
      map == machine_get_address_map(k.addrmap, AcpiMap, LoaderBufferSize)
      Extract(now, addr, size) ==
        With3(extract_ramdisk(now, addr, size), LAMBDA read, succeeded, extracted :
          <<[read EXCEPT !.extracted = extracted], succeeded>>)
      Mapped(ramdisk) == IF ramdisk[2] THEN Extract(ramdisk[1], ramdisk[3], ramdisk[4]) ELSE <<ramdisk[1], FALSE>>
  IN /\ ProceedOrExit("loader", "main", IF map.error = "none" THEN Mapped(map_ramdisk(s, map.entry)) ELSE <<s, FALSE>>,
                      "load")
     /\ UNCHANGED call

LoaderLoad ==
  LET s == Running("loader")
      Load(now, init) == With3(load_init(now, init), LAMBDA loaded, succeeded, params :
                                 <<[loaded EXCEPT !.params = params], succeeded>>)
  IN /\ ProceedOrExit("loader", "load", With3(get_init(s, s.extracted), LAMBDA now, found, init :
                                               IF found THEN Load(now, init) ELSE <<now, FALSE>>), "start_init")
     /\ UNCHANGED call

\* start_initial_thread(): init may run before the descriptor is closed.
LoaderStartThread ==
  LET s == Running("loader")
      started == start_thread(k, "loader", INIT_THREAD_DESCRIPTOR, s.params.entry, s.params.stack_addr)
  IN /\ pc = "loader" /\ user["loader"].at = "start_init"
     /\ k' = started[1]
     /\ user' = [user EXCEPT !["loader"].at = OrExit(started[2] = "none", "close"),
                             !["init"].at = IF started[2] = "none" THEN "start" ELSE @]
     /\ UNCHANGED <<machine, setupVars, pc, call>>

LoaderCloseThread ==
  LET closed == close(k, "loader", INIT_THREAD_DESCRIPTOR)
  IN /\ Proceed("loader", "close", [Running("loader") EXCEPT !.k = closed[1]], OrExit(closed[2] = "none", "serve"))
     /\ UNCHANGED call

\* The last thread exits and takes the process with it, and the only one it created if that
\* was not started; who waits for an answer gets an error.
ExitProcess(kk, name) ==
  LET owned == {p \in DOMAIN kk.process \ {name} : kk.process[p].entry = 0}
      freed == process_free(kk, name)
  IN IF owned = {} THEN freed ELSE process_free(freed, CHOOSE p \in owned : TRUE)

LoaderExit ==
  /\ Proceed("loader", "exit", [Running("loader") EXCEPT !.k = ExitProcess(k, "loader")], "gone")
  /\ call' = [call EXCEPT !["loader"].state = IF @ \in {"sent", "received"} THEN "EIO" ELSE @]

LoaderNext ==
  \/ LoaderStart \/ LoaderExtract \/ LoaderLoad \/ LoaderStartThread \/ LoaderCloseThread
  \/ run_loader_server \/ LoaderExit

=============================================================================
