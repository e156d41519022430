---------------------------- MODULE TestServer ----------------------------
(***************************************************************************)
(* The initial program, which is the server of the test application        *)
(* (userspace/testapp/server): it asks the loader for the state of memory, *)
(* maps the RAM disk, takes over the memory once the loader has exited,    *)
(* then loads and serves a client, the test application.  The client asks  *)
(* it for memory (lib/libc/mmap.c), for the stacks of its threads.         *)
(***************************************************************************)
EXTENDS Loader

CONSTANTS
  BUFFER_SIZE,           \* of init, for the answers of the loader
  ClientMaps,            \* how often the client may ask for memory
  ClientMapSize

TestappName == <<"/", "sbin", "/", "testapp">>

(***************************************************************************)
(* mappings.c                                                              *)
(***************************************************************************)
testapp_map_file(s, process, file, vaddr, size, offset, perms) ==
  With(sys_mmap(s.k, s.u.name, process, vaddr, size, file.paddr + offset, perms),
       LAMBDA kk, error : <<[s EXCEPT !.k = kk], error = "none">>)

testapp_map_anonymous(s, process, vaddr, size, perms) ==
  LET paddr == __get_physmem_alloc_addr(s)
  IN With(mmap_anonymous(s, size), LAMBDA got, segment :
       IF segment = MAP_FAILED THEN <<got, NULL>>
       ELSE With(sys_mmap(got.k, s.u.name, process, vaddr, size, paddr, perms), LAMBDA kk, error :
              <<[got EXCEPT !.k = kk], IF error = "none" THEN segment ELSE NULL>>))

(***************************************************************************)
(* elf.c                                                                   *)
(***************************************************************************)
testapp_load_segment(s, process, file, phdr) ==
  LET diff == phdr.vaddr % PAGE_SIZE
      vaddr == phdr.vaddr - diff
      memsize == ALIGN_END(phdr.memsz + diff, PAGE_SIZE)
      perms == map_protection_flags(phdr.flags)
  IN IF phdr.type # "LOAD" THEN <<s, TRUE>>
     ELSE IF "W" \notin phdr.flags /\ phdr.filesz = phdr.memsz
       THEN testapp_map_file(s, process, file, vaddr, memsize, phdr.offset - diff, perms)
     ELSE With(testapp_map_anonymous(s, process, vaddr, memsize, perms), LAMBDA mapped, segment :
            IF segment = NULL THEN <<mapped, FALSE>>
            ELSE <<Put(mapped, segment, PaddedSegment(s, file, phdr)), TRUE>>)

testapp_load_segments(s, process, file) ==
  FoldLeft(LAMBDA done, phdr : IF done[2] THEN testapp_load_segment(done[1], process, file, phdr) ELSE done,
           <<s, get_at_phdr(ElfOf(s, file)) # NULL>>, ElfOf(s, file).phdrs)

testapp_allocate_stack(s, process) ==
  With(testapp_map_anonymous(s, process, JINUE_STACK_START, JINUE_STACK_SIZE, {"read", "write"}), LAMBDA mapped, stack :
    <<IF stack = NULL THEN mapped ELSE Put(mapped, stack, [i \in 1 .. JINUE_STACK_SIZE |-> Zero]), stack>>)

\* No protocol: the client is neither the loader nor init.
testapp_initialize_stack(s, stack, elf, file) ==
  WriteStack(s, stack, file, CommonAuxv(s, elf) \o << <<"NULL", Word(0)>> >>)

testapp_load_elf(s, process, file) ==
  LET elf == ElfOf(s, file) IN
  IF ~check_elf_header(s, file) THEN <<s, FALSE, NoParams>>
  ELSE With(testapp_load_segments(s, process, file), LAMBDA loaded, succeeded :
         IF ~succeeded THEN <<loaded, FALSE, NoParams>>
         ELSE With(testapp_allocate_stack(loaded, process), LAMBDA mapped, stack :
                IF stack = NULL THEN <<mapped, FALSE, NoParams>>
                ELSE <<testapp_initialize_stack(mapped, stack, elf, file), TRUE,
                       [entry |-> elf.entry, stack_addr |-> Remote]>>))

(***************************************************************************)
(* exec.c, ramdisk.c                                                       *)
(***************************************************************************)
testapp_initialize_descriptors(s, process, thread, endpoint) ==
  Syscalls(s, << <<"mint", process, process, JINUE_DESC_SELF_PROCESS, {"create_thread", "map", "open"}>>,
                 <<"mint", thread, process, JINUE_DESC_MAIN_THREAD, {"start", "await"}>>,
                 <<"mint", endpoint, process, JINUE_DESC_LOADER_ENDPOINT, {"send"}>> >>)

testapp_exec(s, process, thread, file, endpoint) ==
  With3(testapp_load_elf(s, process, file), LAMBDA loaded, valid, params :
    IF ~valid THEN <<loaded, FALSE>>
    ELSE With(testapp_initialize_descriptors(loaded, process, thread, endpoint), LAMBDA given, succeeded :
           IF ~succeeded THEN <<given, FALSE>>
           ELSE Syscalls(given, << <<"start_thread", thread, params.entry, params.stack_addr>> >>)))

open_ramdisk_file(s, ramdisk, filename) ==
  LET dirent == jinue_dirent_find_by_name(s, ramdisk.root, filename)
      contents == jinue_dirent_file(s, dirent)
  IN IF dirent = NULL \/ TypeOf(s, dirent) # "FILE" THEN NoFile
     ELSE [name |-> jinue_dirent_name(s, dirent), contents |-> contents, size |-> DirentFileSize(s, dirent),
           paddr |-> ramdisk.physaddr + contents - ramdisk.root, segment_index |-> 0]

open_and_exec(s, process, thread, endpoint) ==
  LET file == open_ramdisk_file(s, s.extracted, TestappName)
  IN IF file.contents = NULL THEN <<s, FALSE>> ELSE testapp_exec(s, process, thread, file, endpoint)

\* The segment of the RAM disk is mapped to be read only: <<s, succeeded>>
testapp_get_ramdisk(s, meminfo) ==
  LET segment == meminfo.segments[meminfo.ramdisk]
      Found(addr) == [physaddr |-> segment.addr, size |-> segment.size, root |-> addr]
  IN IF Len(meminfo.segments) < meminfo.ramdisk THEN <<s, FALSE>>
     ELSE With(__mmap_perrno(s, NULL, segment.size, {"read"}, {"SHARED"}, segment.addr), LAMBDA mapped, addr :
            IF addr = MAP_FAILED THEN <<mapped, FALSE>> ELSE <<[mapped EXCEPT !.extracted = Found(addr)], TRUE>>)

(***************************************************************************)
(* Init: crt.asm, then do_main() in server.c.                              *)
(***************************************************************************)
AskLoader(from, to, s, function) ==
  Proceed("init", from, s, to) /\ Send("init", "loader", function, <<>>, BUFFER_SIZE)

\* __libc_init() asks the loader for the memory that it does not use.
InitStart == AskLoader("start", "physmem", initialize_range(_start(Running("init")), 0, 0), "GET_MEMINFO")

InitPhysmem ==
  LET s == Running("init")
      ranged == initialize_range_from_loader_info(s, call["loader"].reply)
  IN /\ Answered("loader")
     /\ ProceedOrExit("init", "physmem", IF Succeeded("loader") THEN __brk_init(ranged) ELSE <<s, FALSE>>, "main")
     /\ Done("loader")

InitAskRamdisk == AskLoader("main", "ramdisk", Running("init"), "GET_MEMINFO")

InitGetRamdisk ==
  LET s == Running("init")
  IN /\ Answered("loader")
     /\ ProceedOrExit("init", "ramdisk", IF Succeeded("loader") THEN testapp_get_ramdisk(s, call["loader"].reply)
                                         ELSE <<s, FALSE>>, "dump")
     /\ Done("loader")

\* dump_loader_memory_info(): whatever the answer.
InitAskDump == AskLoader("dump", "dumped", Running("init"), "GET_MEMINFO")
InitDump == Answered("loader") /\ Proceed("init", "dumped", Running("init"), "exit_loader") /\ Done("loader")

\* jinue_exit_loader(): the answer to wait for is that there is none.
InitExitLoader == AskLoader("exit_loader", "wait_exit", Running("init"), "EXIT")
InitLoaderExited ==
  /\ Answered("loader")
  /\ Proceed("init", "wait_exit", Running("init"), OrExit(call["loader"].state = "EIO", "exec"))
  /\ Done("loader")

\* A descriptor, and the object that it is for: <<s, succeeded, descriptor>>
Create(s, Call(_)) ==
  With(__allocate_descriptor(s), LAMBDA got, fd :
    IF fd < 0 THEN <<got, FALSE, 0>>
    ELSE With(Syscalls(got, <<Call(fd)>>), LAMBDA created, succeeded : <<created, succeeded, fd>>))

InitExec ==
  /\ pc = "loader" /\ user["init"].at = "exec"
  /\ \E result \in {
       With3(Create(Running("init"), LAMBDA fd : <<"create_endpoint", fd, "init">>), LAMBDA s1, ok1, endpoint :
         IF ~ok1 THEN <<s1, FALSE>>
         ELSE With3(Create(s1, LAMBDA fd : <<"create_process", fd, "client">>), LAMBDA s2, ok2, process :
           IF ~ok2 THEN <<s2, FALSE>>
           ELSE With3(Create([s2 EXCEPT !.process = process], LAMBDA fd : <<"create_thread", fd, process>>),
                      LAMBDA s3, ok3, thread :
             IF ok3 THEN open_and_exec(s3, process, thread, endpoint) ELSE <<s3, FALSE>>)))} :
       /\ k' = result[1].k
       /\ user' = [user EXCEPT !["init"] = After("init", result[1], OrExit(result[2], "serve")),
                               !["client"].at = IF result[2] THEN "start" ELSE @]
       /\ pc' = IF Faulted(result[1]) THEN "panic" ELSE pc
       /\ UNCHANGED <<machine, setupVars, call>>

\* Memory that the allocator does not have gets an address of -1, which cannot be mapped.
handle_map_anon(s, params) ==
  With(__physmem_alloc(s, params.length), LAMBDA taken, paddr :
    With(sys_mmap(taken.k, "init", s.process, params.addr, params.length, paddr, params.prot),
         LAMBDA kk, error : <<[taken EXCEPT !.k = kk], error>>))

run_server ==
  LET message == call["init"]
      s == Running("init")
      exits == message.function = "EXIT"
  IN /\ message.state = "sent"
     /\ \E handled \in {IF message.function = "MAP_ANON" THEN handle_map_anon(s, message.args) ELSE <<s, "ENOSYS">>} :
          /\ Proceed("init", "serve", handled[1], IF exits THEN "yield" ELSE "serve")
          /\ call' = [call EXCEPT !["init"].state = IF exits THEN "received"
                                                    ELSE IF handled[2] = "none" THEN "replied" ELSE handled[2]]

\* The failure of do_main() ends the thread.
InitExit == Proceed("init", "exit", [Running("init") EXCEPT !.k = ExitProcess(k, "init")], "gone")
            /\ UNCHANGED call

InitNext ==
  \/ InitStart \/ InitPhysmem \/ InitAskRamdisk \/ InitGetRamdisk \/ InitAskDump \/ InitDump \/ InitExitLoader
  \/ InitLoaderExited \/ InitExec \/ run_server \/ InitExit

(***************************************************************************)
(* The client.  Its threads and what they do are the subject of other      *)
(* modules: here it maps memory, then says that it exits.                  *)
(***************************************************************************)
ClientStart == ProceedOrExit("client", "start", __libc_init(_start(Running("client"))), "main") /\ UNCHANGED call

\* mmap() of anonymous memory: the address is the client's choice, the memory is not.
ClientMap ==
  LET s == Running("client") IN
  /\ user["client"].maps < ClientMaps
  /\ ~MmapInvalid(s, NULL, ClientMapSize, {"read", "write"}, {"SHARED", "ANONYMOUS"}, 0)
  /\ Proceed("client", "main", [s EXCEPT !.maps = @ + 1], "map")
  /\ Send("client", "init", "MAP_ANON",
          [addr |-> s.u.alloc_addr, length |-> ALIGN_END(ClientMapSize, PAGE_SIZE), prot |-> {"read", "write"}], 0)

ClientMapped ==
  LET s == Running("client")
      mapped == [s EXCEPT !.u.alloc_addr = @ + ALIGN_END(ClientMapSize, PAGE_SIZE)]
  IN Answered("init") /\ Proceed("client", "map", IF Succeeded("init") THEN mapped ELSE s, "main") /\ Done("init")

do_exit == Proceed("client", "main", Running("client"), "exiting") /\ Send("client", "init", "EXIT", <<>>, 0)

ClientNext == ClientStart \/ ClientMap \/ ClientMapped \/ do_exit

=============================================================================
