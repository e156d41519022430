------------------------------- MODULE Libc -------------------------------
(***************************************************************************)
(* The part of the C library that a process runs on before and under its   *)
(* main(): _start (i686/crt.asm), getenv, getauxval, and the allocators of *)
(* memory one on the other: physmem.c, mmap.c, brk.c, malloc.c; and the    *)
(* system calls they and the user space loader make                        *)
(* (kernel/interface/syscalls.c, kernel/application/syscalls).             *)
(*                                                                         *)
(* A process runs in s, a record of the kernel s.k and of the process' own *)
(* static variables s.u.  A function returns <<s, value>>.  Sizes are in   *)
(* cells; a header of malloc takes one.                                    *)
(***************************************************************************)
EXTENDS KernelExec

CONSTANTS
  MMAP_BASE, MIN_SBRK_SIZE, PhysmemBufferSize, JINUE_DESC_NUM,
  FdlinkSize            \* sizeof(struct fdlink)

NULL == 0
MAP_FAILED == 0 - 1

NewUser(name) ==
  [name |-> name, argc |-> 0, argv |-> NULL, environ |-> NULL, auxv |-> NULL,
   alloc_range |-> [addr |-> 0, limit |-> 0], alloc_addr |-> MMAP_BASE,
   bottom_break |-> 0, reported_break |-> 0, allocated_break |-> 0,
   heap_head |-> NULL, heap_tail |-> NULL, heap |-> [a \in {} |-> 0], next_fd |-> JINUE_DESC_LAST + 1]

(***************************************************************************)
(* Memory as the process sees it.                                          *)
(***************************************************************************)
Fetch(s, addr) == UserCell(s.k, s.u.name, addr)
Put(s, addr, cells) == [s EXCEPT !.k = WriteUser(s.k, s.u.name, addr, cells)]
Faulted(s) == s.k.panic # "none"

\* The characters of a string, without the NUL that ends it.
StringAt(s, addr) ==
  LET length == CHOOSE n \in 0 .. JINUE_STACK_SIZE : /\ Fetch(s, addr + n) = <<"char", NUL>>
                                                      /\ \A m \in 0 .. n - 1 : Fetch(s, addr + m) # <<"char", NUL>>
  IN [i \in 1 .. length |-> Fetch(s, addr + i - 1)[2]]

\* The strings of an array that a null pointer ends.
StringArray(s, array) ==
  LET n == CHOOSE i \in 0 .. JINUE_STACK_SIZE : /\ Fetch(s, array + i) = Word(NULL)
                                                /\ \A j \in 0 .. i - 1 : Fetch(s, array + j) # Word(NULL)
  IN [i \in 1 .. n |-> StringAt(s, Fetch(s, array + i - 1)[2])]

(***************************************************************************)
(* System calls.                                                           *)
(***************************************************************************)
descriptor_access_object(kk, name, fd) == fd \in DOMAIN kk.process[name].descriptors

Descriptor(kk, name, fd) == kk.process[name].descriptors[fd]

\* What the descriptor has to be, or EBADF, and has to allow, or EPERM.
AccessError(kk, name, fd, type, perms) ==
  IF ~descriptor_access_object(kk, name, fd) \/ Descriptor(kk, name, fd).object[1] # type THEN "EBADF"
  ELSE IF ~(perms \subseteq Descriptor(kk, name, fd).flags) THEN "EPERM" ELSE "none"

mmap_syscall(kk, name, fd, addr, length, paddr, prot) ==
  LET error == AccessError(kk, name, fd, "process", {"map"}) IN
  IF error # "none" THEN <<kk, error>>
  ELSE With(machine_map_userspace(kk, Descriptor(kk, name, fd).object[2], addr, length, paddr, prot),
            LAMBDA mapped, succeeded : <<mapped, IF succeeded THEN "none" ELSE "ENOMEM">>)

sys_mmap(kk, name, fd, addr, length, paddr, prot) ==
  IF \E x \in {addr, length, paddr} : x % PAGE_SIZE # 0 THEN <<kk, "EINVAL">>
  ELSE IF {"write", "exec"} \subseteq prot THEN <<kk, "ENOTSUP">>
  ELSE mmap_syscall(kk, name, fd, addr, length, paddr, prot)

create_process(kk, name, fd, new) ==
  IF descriptor_access_object(kk, name, fd) THEN <<kk, "EBADF">>
  ELSE With(process_new(kk, new), LAMBDA created, succeeded :
         IF ~succeeded THEN <<kk, "EAGAIN">>
         ELSE <<OpenDescriptor(created, name, fd, <<"process", new>>,
                               {"owner"} \cup AllPermissions(<<"process", new>>)), "none">>)

create_endpoint(kk, name, fd, new) ==
  IF descriptor_access_object(kk, name, fd) THEN <<kk, "EBADF">>
  ELSE <<OpenDescriptor(kk, name, fd, <<"endpoint", new>>,
                        {"owner"} \cup AllPermissions(<<"endpoint", new>>)), "none">>

create_thread(kk, name, fd, process_fd) ==
  LET error == AccessError(kk, name, process_fd, "process", {"create_thread", "open"})
      object == <<"thread", Descriptor(kk, name, process_fd).object[2]>>
  IN IF descriptor_access_object(kk, name, fd) THEN <<kk, "EBADF">>
     ELSE IF error # "none" THEN <<kk, error>>
     ELSE With(thread_new(kk, object[2]), LAMBDA created, succeeded :
            IF ~succeeded THEN <<kk, "ENOMEM">>
            ELSE <<OpenDescriptor(created, name, fd, object, {"owner"} \cup AllPermissions(object)), "none">>)

mint(kk, name, owner, process, fd, perms) ==
  LET desc == Descriptor(kk, name, owner)
      error == AccessError(kk, name, process, "process", {"open"})
      target == Descriptor(kk, name, process).object[2]
  IN IF ~descriptor_access_object(kk, name, owner) THEN <<kk, "EBADF">>
     ELSE IF ~(perms \subseteq AllPermissions(desc.object)) \/ perms = {} THEN <<kk, "EINVAL">>
     ELSE IF "owner" \notin desc.flags THEN <<kk, "EPERM">>
     ELSE IF error # "none" THEN <<kk, error>>
     ELSE IF descriptor_access_object(kk, target, fd) THEN <<kk, "EBADF">>
     ELSE <<OpenDescriptor(kk, target, fd, desc.object, perms), "none">>

\* The new thread runs from its entry point.
start_thread(kk, name, fd, entry, stack_addr) ==
  LET error == AccessError(kk, name, fd, "thread", {"start"})
      process == Descriptor(kk, name, fd).object[2]
  IN IF error # "none" THEN <<kk, error>>
     ELSE <<[kk EXCEPT !.process[process].entry = entry, !.process[process].stack_addr = stack_addr], "none">>

close(kk, name, fd) ==
  IF ~descriptor_access_object(kk, name, fd) THEN <<kk, "EBADF">>
  ELSE <<[kk EXCEPT !.process[name].descriptors = [d \in DOMAIN @ \ {fd} |-> @[d]]], "none">>

(***************************************************************************)
(* crt.asm, getauxval.c, getenv.c                                          *)
(***************************************************************************)
_start(s) ==
  LET sp == s.k.process[s.u.name].stack_addr
      argc == Fetch(s, sp)[2]
      environ == sp + 1 + argc + 1
      n == Len(StringArray(s, environ))
  IN [s EXCEPT !.u.argc = argc, !.u.argv = sp + 1, !.u.environ = environ, !.u.auxv = environ + n + 1]

getauxval(s, type) ==
  LET ends == {<<"type", "NULL">>, <<"type", type>>}
      at == CHOOSE i \in 0 .. JINUE_STACK_SIZE : /\ Fetch(s, s.u.auxv + 2 * i) \in ends
                                                 /\ \A j \in 0 .. i - 1 : Fetch(s, s.u.auxv + 2 * j) \notin ends
  IN IF Fetch(s, s.u.auxv + 2 * at) = <<"type", "NULL">> THEN 0 ELSE Fetch(s, s.u.auxv + 2 * at + 1)[2]

\* The value of a variable, as a sequence of one string, or <<>> if it is not set.
getenv(s, name) ==
  LET Value(vars) ==
        LET matches == {i \in DOMAIN vars : Len(vars[i]) >= 2 /\ vars[i][1] = name /\ vars[i][2] = "="}
            first == vars[CHOOSE i \in matches : \A j \in matches : i <= j]
        IN IF matches = {} THEN <<>> ELSE <<SubSeq(first, 3, Len(first))>>
  IN Value(StringArray(s, s.u.environ))

(***************************************************************************)
(* physmem.c: physical memory is taken from the bottom of a range.         *)
(***************************************************************************)
initialize_range(s, addr, limit) == [s EXCEPT !.u.alloc_range = [addr |-> addr, limit |-> limit]]

find_range_by_type(map, type) == SelectSeq(map, LAMBDA entry : entry.type = type)

\* <<s, succeeded>>
initialize_range_from_kernel_info(s) ==
  LET map == machine_get_address_map(s.k.addrmap, AcpiMap, PhysmemBufferSize)
      entry == find_range_by_type(map.entry, "LOADER_AVAILABLE")
  IN IF map.error # "none" \/ entry = <<>> THEN <<s, FALSE>>
     ELSE <<initialize_range(s, entry[1].addr, entry[1].addr + entry[1].size), TRUE>>

initialize_range_from_loader_info(s, meminfo) ==
  initialize_range(s, meminfo.hints.physaddr, meminfo.hints.physlimit)

__physmem_alloc(s, size) ==
  LET top == ALIGN_END(s.u.alloc_range.addr + size, PAGE_SIZE)
  IN IF top > s.u.alloc_range.limit THEN <<s, 0 - 1>>
     ELSE <<[s EXCEPT !.u.alloc_range.addr = top], s.u.alloc_range.addr>>

__get_physmem_alloc_addr(s) == s.u.alloc_range.addr

(***************************************************************************)
(* mmap.c                                                                  *)
(***************************************************************************)
\* For the loader and init.  The memory is gone from the range even if it cannot be mapped.
do_mmap(s, addr, len, prot, flags, off) ==
  With(IF "ANONYMOUS" \in flags THEN __physmem_alloc(s, len) ELSE <<s, off>>, LAMBDA taken, paddr :
    IF paddr < 0 THEN <<s, "ENOMEM">>
    ELSE With(sys_mmap(taken.k, s.u.name, JINUE_DESC_SELF_PROCESS, addr, len, paddr, prot),
              LAMBDA mapped, error : <<[taken EXCEPT !.k = mapped], error>>))

MmapInvalid(s, addr, len, prot, flags, off) ==
  LET fixed == "FIXED" \in flags
      place == IF fixed THEN addr ELSE s.u.alloc_addr
  IN \/ flags \cap {"SHARED", "PRIVATE"} # {"SHARED"}
     \/ {"write", "exec"} \subseteq prot
     \/ len = 0
     \/ fixed /\ (addr = NULL \/ addr % PAGE_SIZE # 0)
     \/ place >= JINUE_KLIMIT \/ JINUE_KLIMIT - place < ALIGN_END(len, PAGE_SIZE)
     \/ off % PAGE_SIZE # 0

__mmap_perrno(s, addr, len, prot, flags, off) ==
  LET length == ALIGN_END(len, PAGE_SIZE)
      fixed == "FIXED" \in flags
      place == IF fixed THEN addr ELSE s.u.alloc_addr
  IN IF MmapInvalid(s, addr, len, prot, flags, off) THEN <<s, MAP_FAILED>>
     ELSE With(do_mmap(s, place, length, prot, flags, off), LAMBDA mapped, error :
            IF error # "none" THEN <<mapped, MAP_FAILED>>
            ELSE <<IF fixed THEN mapped ELSE [mapped EXCEPT !.u.alloc_addr = @ + length], place>>)

mmap_anonymous(s, len) == __mmap_perrno(s, NULL, len, {"read", "write"}, {"SHARED", "ANONYMOUS"}, 0)

(***************************************************************************)
(* brk.c                                                                   *)
(***************************************************************************)
ElfFile(f) == IF f = machine.image.loader.name THEN machine.image.loader ELSE machine.elf[f]

\* The program headers of the process, where the auxiliary vectors say they are.
ProgramHeaders(s) ==
  LET From(first) ==
        LET elf == ElfFile(first[1])
        IN IF first = <<elf.name, elf.phoff>> THEN SubSeq(elf.phdrs, 1, getauxval(s, "PHNUM")) ELSE <<>>
  IN From(Fetch(s, getauxval(s, "PHDR")))

\* <<s, succeeded>>: just after the first segment that can be written.
__brk_init(s) ==
  LET After(phdrs) ==
        LET writable == {i \in DOMAIN phdrs : phdrs[i].type = "LOAD" /\ "W" \in phdrs[i].flags}
            phdr == phdrs[CHOOSE i \in writable : \A j \in writable : i <= j]
            top == phdr.vaddr + phdr.memsz
        IN IF writable = {} THEN <<s, FALSE>>
           ELSE <<[s EXCEPT !.u.reported_break = top, !.u.bottom_break = top,
                            !.u.allocated_break = ALIGN_END(top, PAGE_SIZE)], TRUE>>
  IN IF getauxval(s, "PHDR") = NULL \/ getauxval(s, "PHENT") = 0 \/ getauxval(s, "PHNUM") < 1 THEN <<s, FALSE>>
     ELSE After(ProgramHeaders(s))

\* <<s, succeeded>>: memory is allocated and never freed.
__brk_perrno(s, addr) ==
  LET old == s.u.allocated_break
      new == ALIGN_END(addr, PAGE_SIZE)
  IN IF addr < s.u.bottom_break \/ addr > MMAP_BASE THEN <<s, FALSE>>
     ELSE IF addr <= old THEN <<[s EXCEPT !.u.reported_break = addr], TRUE>>
     ELSE With(__mmap_perrno(s, old, new - old, {"read", "write"}, {"ANONYMOUS", "FIXED", "SHARED"}, 0),
               LAMBDA grown, at : IF at = MAP_FAILED THEN <<grown, FALSE>>
                 ELSE <<[grown EXCEPT !.u.allocated_break = new, !.u.reported_break = addr], TRUE>>)

__sbrk_perrno(s, incr) == __brk_perrno(s, s.u.reported_break + incr)

(***************************************************************************)
(* malloc.c: frames of buffers, each with a header, between terminators.   *)
(***************************************************************************)
Header(prev, kind, size) == [prev |-> prev, kind |-> kind, size |-> size]
PutHeader(s, at, header) == [s EXCEPT !.u.heap = [a \in DOMAIN @ \cup {at} |-> IF a = at THEN header ELSE @[a]]]

is_free(s, at) == s.u.heap[at].kind = "free"
next(s, at) ==
  CASE s.u.heap[at].kind = "end" -> s.u.heap[at].size
    [] s.u.heap[at].kind = "start" -> at + 1
    [] OTHER -> at + 1 + s.u.heap[at].size

\* The rest of the buffer becomes one of its own; the header after that still has the
\* buffer that was split as the one before it.
allocate_from_buffer(s, at, size) ==
  LET old == s.u.heap[at].size
      split == PutHeader(PutHeader(s, at, [s.u.heap[at] EXCEPT !.size = size]),
                         at + 1 + size, Header(at, "free", old - size - 1))
      rest == IF old >= size + 2 THEN split ELSE s
  IN <<[rest EXCEPT !.u.heap[at].kind = "used"], at + 1>>

\* A header takes one cell: the break is always aligned.
allocate_with_sbrk(s, size) ==
  LET break == s.u.reported_break
      tail == s.u.heap_tail
      alloc_size == Max2(size, MIN_SBRK_SIZE)
      new == tail = NULL \/ tail + 1 # break
      extend == ~new /\ is_free(s, s.u.heap[tail].prev)
      buffer == IF new THEN break + 1 ELSE IF extend THEN s.u.heap[tail].prev ELSE tail
      incr == IF new THEN alloc_size + 3 ELSE IF extend THEN alloc_size - s.u.heap[buffer].size ELSE alloc_size + 1
      end == buffer + 1 + alloc_size
      Frame(grown) ==
        IF new THEN PutHeader(PutHeader([grown EXCEPT !.u.heap_head = IF @ = NULL THEN break ELSE @],
                                        break, Header(tail, "start", 0)),
                              buffer, Header(break, "free", alloc_size))
        ELSE PutHeader(grown, buffer, Header(s.u.heap[buffer].prev, "free", alloc_size))
      Ended(placed) == [PutHeader(placed, end, Header(buffer, "end", NULL)) EXCEPT !.u.heap_tail = end]
  IN With(__sbrk_perrno(s, incr), LAMBDA grown, succeeded :
       IF succeeded THEN allocate_from_buffer(Ended(Frame(grown)), buffer, size) ELSE <<grown, NULL>>)

\* First fit, along the headers from the first.
RECURSIVE FirstFit(_, _, _)
FirstFit(s, at, size) ==
  IF at = NULL \/ (is_free(s, at) /\ s.u.heap[at].size >= size) THEN at ELSE FirstFit(s, next(s, at), size)

malloc(s, size) ==
  LET fit == FirstFit(s, s.u.heap_head, size)
  IN IF size = 0 THEN <<s, NULL>>
     ELSE IF fit # NULL THEN allocate_from_buffer(s, fit, size) ELSE allocate_with_sbrk(s, size)

\* The buffer is merged with the next one, then into the previous one.
free(s, ptr) ==
  LET buffer == ptr - 1
      after == next(s, buffer)
      size == s.u.heap[buffer].size + (IF is_free(s, after) THEN s.u.heap[after].size + 1 ELSE 0)
      merged == [s EXCEPT !.u.heap[buffer].size = size]
      prev == s.u.heap[buffer].prev
  IN IF ptr = NULL THEN s
     ELSE IF is_free(merged, prev) THEN [merged EXCEPT !.u.heap[prev].size = @ + size + 1]
     ELSE [merged EXCEPT !.u.heap[buffer].kind = "free"]

(***************************************************************************)
(* descriptors.c.  No descriptor is freed by the processes modelled: the   *)
(* list of the free ones stays empty.                                      *)
(***************************************************************************)
\* <<s, descriptor or -1>>
__allocate_descriptor(s) ==
  IF s.u.next_fd >= JINUE_DESC_NUM THEN <<s, 0 - 1>>
  ELSE With(malloc(s, FdlinkSize), LAMBDA got, link :
         IF link = NULL THEN <<got, 0 - 1>> ELSE <<[got EXCEPT !.u.next_fd = @ + 1], s.u.next_fd>>)

(***************************************************************************)
(* init.c.  For init, the range is what the loader answers later: see      *)
(* TestServer.                                                             *)
(***************************************************************************)
__physmem_init(s) ==
  LET default == initialize_range(s, 0, 0) IN
  IF getauxval(s, "PROTOCOL") = JINUE_PROTOCOL_LOADER THEN initialize_range_from_kernel_info(default) ELSE <<default, TRUE>>

__libc_init(s) == With(__physmem_init(s), LAMBDA ranged, succeeded : IF succeeded THEN __brk_init(ranged) ELSE <<ranged, FALSE>>)

=============================================================================
