------------------------------- MODULE Setup -------------------------------
(***************************************************************************)
(* The 32-bit setup code (kernel/interface/i686/setup): from the address   *)
(* the boot loader jumps to, with paging disabled, to the entry point of   *)
(* the kernel in its own address space.                                    *)
(*                                                                         *)
(* Addresses are numbers; PAGE_SIZE of them make a page.  Memory that is   *)
(* allocated holds whatever was there before: Junk, until it is written.   *)
(***************************************************************************)
EXTENDS CpuInfo, Cmdline

CONSTANTS
  PAGE_SIZE,
  MEMORY_ADDR_1MB, MEMORY_ADDR_16MB,
  BOOT_STACK_HEAP_SIZE,     \* boot stack and heap, at the start of the memory at 16MB
  BOOT_SIZE_AT_16MB,        \* memory at 16MB that the setup code maps for the kernel
  JINUE_KLIMIT,             \* start of the kernel's part of the address space
  KERNEL_SIZE,              \* address space for the kernel image
  LARGE_PAGES_AREA_ADDR, ADDR_4GB,
  PAGE_TABLE_PTES,          \* entries of a page table without PAE; half of them with PAE
  BootInfoSize, PdptSize, AddrMapEntrySize,
  Scenarios                 \* machines and what their boot loader loaded

KERNEL_BASE == JINUE_KLIMIT
ALLOC_BASE == KERNEL_BASE + KERNEL_SIZE
BOOT_OFFSET_FROM_1MB == KERNEL_BASE - MEMORY_ADDR_1MB
BOOT_OFFSET_FROM_16MB == ALLOC_BASE - MEMORY_ADDR_16MB
VIRT_TO_PHYS_AT_1MB(x) == x - BOOT_OFFSET_FROM_1MB
VIRT_TO_PHYS_AT_16MB(x) == x - BOOT_OFFSET_FROM_16MB
PHYS_TO_VIRT_AT_16MB(x) == x + BOOT_OFFSET_FROM_16MB

ALIGN_END(x, s) == ((x + s - 1) \div s) * s
ALIGN_START(x, s) == (x \div s) * s
NUM_PAGES(x) == (x + PAGE_SIZE - 1) \div PAGE_SIZE
page_number_of(x) == x \div PAGE_SIZE

Junk == [addr |-> -1, flags |-> {"junk"}]
Clear == [addr |-> 0, flags |-> {}]
Entry(addr, flags) == [addr |-> addr, flags |-> flags]

VARIABLES
  machine,   \* the scenario: CPU, firmware, image, RAM disk, command line
  pc,        \* the function that runs next
  cpu,       \* paging registers, eip and esp
  bi,        \* bootinfo_t, and `bootinfo`, the pointer to it
  pt,        \* the page tables in memory: frame -> entries
  pdpt,      \* the page directory pointer table, at bi.cr3 with PAE
  ram        \* objects in memory: physical address -> contents

setupVars == <<cpu, bi, pt, pdpt, ram>>

Has(features, f) == f \in features
UsePae(b) == Has(b.features, "PAE")
UsePse(b) == Has(b.features, "PSE")
NxFlag(b) == IF Has(b.features, "NX") THEN {"nx"} ELSE {}

(***************************************************************************)
(* alloc.c                                                                 *)
(***************************************************************************)
alloc_heap(b, size, align) ==
  LET object == IF align # 0 THEN ALIGN_END(b.boot_heap, align) ELSE b.boot_heap
  IN <<[b EXCEPT !.boot_heap = object + size], object>>

alloc_pages(b, size) == <<[b EXCEPT !.boot_end = ALIGN_END(b.boot_end + size, PAGE_SIZE)], b.boot_end>>

set_alloc_pages_address(b, addr) == [b EXCEPT !.boot_end = addr]

(***************************************************************************)
(* linux.c: what the boot loader passes in the Linux real-mode header.     *)
(***************************************************************************)
Store(memory, addr, contents) == [a \in DOMAIN memory \cup {addr} |-> IF a = addr THEN contents ELSE memory[a]]

copy_acpi_address_map(b, memory, params) ==
  LET a == alloc_pages(b, AddrMapEntrySize * Len(params.addr_map))
  IN <<[a[1] EXCEPT !.acpi_addr_map = a[2]], Store(memory, a[2], params.addr_map)>>

Min2(x, y) == IF x < y THEN x ELSE y

\* params.cmdline is the string without its NUL, or a null pointer.
copy_cmdline(b, memory, params) ==
  LET length == IF params.cmdline.null THEN 0 ELSE Min2(Len(params.cmdline.text), CMDLINE_MAX_PARSE_LENGTH)
      a == alloc_pages(b, length + 1)
  IN <<[a[1] EXCEPT !.cmdline = a[2]],
       Store(memory, a[2], SubSeq(params.cmdline.text, 1, length) \o <<NUL>>)>>

\* Red and blue are at bits 0 and 16 or the other way around.  A depth of 24 that
\* matches neither falls through to the formats of depth 32.
identify_pixel_format(screen) ==
  LET order == IF <<screen.red_pos, screen.blue_pos>> = <<0, 16>> THEN "RGB"
               ELSE IF <<screen.red_pos, screen.blue_pos>> = <<16, 0>> THEN "BGR" ELSE "none"
  IN IF \/ \E size \in {screen.red_size, screen.green_size, screen.blue_size} : size # 8
        \/ screen.green_pos # 8 \/ screen.lfb_depth \notin {24, 32} \/ order = "none"
       THEN <<"unsupported", 0>>
       ELSE <<order, screen.lfb_depth>>

NoVideo == [type |-> "NONE"]
VLFB_UNIT == 16 * PAGE_SIZE   \* 64kB

set_video_info(screen) ==
  CASE screen.type = "VGA" -> IF screen.mode = 3 THEN [type |-> "TEXT"] ELSE NoVideo
    [] screen.type \in {"VLFB", "EFI"} ->
         IF identify_pixel_format(screen)[1] = "unsupported" THEN NoVideo
         ELSE [type |-> "FRAMEBUFFER", format |-> identify_pixel_format(screen),
               width |-> screen.lfb_width, height |-> screen.lfb_height, pitch |-> screen.lfb_linelength,
               addr |-> screen.lfb_base + (IF screen.base64 THEN screen.ext_lfb_base * ADDR_4GB ELSE 0),
               size |-> IF screen.type = "VLFB" THEN screen.lfb_size * VLFB_UNIT ELSE screen.lfb_size]
    [] OTHER -> NoVideo

initialize_from_linux_boot_params(b, memory, params) ==
  LET header == [b EXCEPT !.ramdisk_start = params.ramdisk_start, !.ramdisk_size = params.ramdisk_size,
                          !.setup_signature = params.signature, !.addr_map_entries = Len(params.addr_map)]
      mapped == copy_acpi_address_map(header, memory, params)
      lined == copy_cmdline(mapped[1], mapped[2], params)
  IN <<[lined[1] EXCEPT !.video = set_video_info(params.screen)], lined[2]>>

(***************************************************************************)
(* cpuid.asm, cpuid.c                                                      *)
(***************************************************************************)

\* Whether the ID flag can be inverted, before and after enabling cpuid on a Cyrix.
IdFlagChanges(processor, attempt) ==
  processor.cpuid = "supported" \/ (processor.cpuid = "cyrix" /\ attempt = 2)

\* The routine saves the flags on the stack at each attempt, and only takes them back
\* when the flag did change: `saved` counts what is left above the return address.
detect_cpuid(processor) ==
  IF IdFlagChanges(processor, 1) THEN [result |-> TRUE, saved |-> 0]
  ELSE IF processor.cpuid # "cyrix" THEN [result |-> FALSE, saved |-> 1]
  ELSE [result |-> IdFlagChanges(processor, 2), saved |-> 1]

identify_vendor(basic0) ==
  map_cpuid_signature(basic0,
    << <<"AMD", "AuthenticAMD">>, <<"CENTAUR_VIA", "CentaurHauls">>, <<"CYRIX", "CyrixInstead">>,
       <<"CYRIX", "Geode by NSC">>, <<"HYGON", "HygonGenuine">>, <<"INTEL", "GenuineIntel">>,
       <<"ZHAOXIN", "  Shanghai  ">>, <<"GENERIC", "ANY">> >>)

VendorsWithNx == {"AMD", "CENTAUR_VIA", "HYGON", "INTEL", "ZHAOXIN"}

detect_cpu_features(b, processor) ==
  LET basic1 == processor.max_basic >= 1
      pae == basic1 /\ "PAE" \in processor.basic
      vendor == identify_vendor(processor.signature)
      extended1 == pae /\ vendor \in VendorsWithNx /\ processor.max_extended >= 1
  IN IF ~detect_cpuid(processor).result THEN [b EXCEPT !.features = {}, !.cpu_vendor = "GENERIC"]
     ELSE [b EXCEPT !.cpu_vendor = vendor,
             !.features = {"CPUID"} \cup (IF basic1 THEN processor.basic \cap {"PSE"} ELSE {})
                            \cup (IF pae THEN {"PAE"} ELSE {})
                            \cup (IF extended1 THEN processor.extended \cap {"NX"} ELSE {})]

(***************************************************************************)
(* elf.c: an ELF file is a record with the fields of its header that are   *)
(* checked, its program headers and its entry point.                       *)
(***************************************************************************)
check_header(elf) == elf.valid /\ elf.phdrs # <<>>

FirstSegment(elf, flag) ==
  LET found == {i \in DOMAIN elf.phdrs : elf.phdrs[i].type = "LOAD" /\ flag \in elf.phdrs[i].flags}
  IN IF found = {} THEN {} ELSE {elf.phdrs[CHOOSE i \in found : \A j \in found : i <= j]}

writable_program_header(elf) == FirstSegment(elf, "W")
executable_program_header(elf) == FirstSegment(elf, "X")

kernel_code_program_header(elf) == IF check_header(elf) THEN executable_program_header(elf) ELSE {}

NoSegment == [start |-> 0, size |-> 0, physaddr |-> 0]

\* The bytes of a segment: those of the file, then zeroes.
SegmentByte(elf, phdr, idx) == IF idx < phdr.filesz THEN <<elf.name, phdr.offset + idx>> ELSE <<"zero", 0>>

prepare_data_segment(b, memory, elf) ==
  LET found == IF check_header(elf)
                 THEN {p \in writable_program_header(elf) : p.vaddr # 0 /\ p.memsz # 0} ELSE {}
  IN IF found = {} THEN <<b, memory, NoSegment>>
     ELSE LET phdr == CHOOSE p \in found : TRUE
              size == ALIGN_END(phdr.memsz, PAGE_SIZE)
              a == alloc_pages(b, size)
          IN <<a[1], Store(memory, a[2], [i \in 1 .. size |-> SegmentByte(elf, phdr, i - 1)]),
               [start |-> phdr.vaddr, size |-> size, physaddr |-> a[2]]>>

get_kernel_entry_point(elf) == elf.entry

(***************************************************************************)
(* pmap.c                                                                  *)
(***************************************************************************)
Ptes(b) == IF UsePae(b) THEN PAGE_TABLE_PTES \div 2 ELSE PAGE_TABLE_PTES

KernelPages(b) ==
  NUM_PAGES((IF UsePse(b) \/ UsePae(b) THEN LARGE_PAGES_AREA_ADDR ELSE ADDR_4GB) - JINUE_KLIMIT)

\* Page tables that are allocated hold junk.
AddTables(b, tables, addr, pages) ==
  LET frames == page_number_of(addr) .. page_number_of(addr) + pages - 1
  IN [f \in DOMAIN tables \cup frames |-> IF f \in frames THEN [i \in 0 .. Ptes(b) - 1 |-> Junk] ELSE tables[f]]

allocate_page_tables(b, tables) ==
  LET count == KernelPages(b) \div Ptes(b)
      t == alloc_pages(b, count * PAGE_SIZE)
      d == alloc_pages(t[1], PAGE_SIZE)
      linked == [d[1] EXCEPT !.page_tables = t[2], !.page_directory = d[2]]
      heap == alloc_heap(linked, PdptSize, PdptSize)
  IN <<IF UsePae(b) THEN [heap[1] EXCEPT !.cr3 = heap[2]] ELSE [linked EXCEPT !.cr3 = d[2]],
       AddTables(b, AddTables(b, tables, t[2], count), d[2], 1)>>

\* The entries of consecutive tables are consecutive in memory.
SetEntries(b, tables, table, offset, n, Value(_)) ==
  [f \in DOMAIN tables |->
     [i \in DOMAIN tables[f] |->
        LET idx == (f - page_number_of(table)) * Ptes(b) + i - offset
        IN IF idx \in 0 .. n - 1 THEN Value(idx) ELSE tables[f][i]]]

clear_ptes(b, tables, table, offset, n) == SetEntries(b, tables, table, offset, n, LAMBDA idx : Clear)

map_linear(b, tables, table, offset, n, addr, flags) ==
  SetEntries(b, tables, table, offset, n, LAMBDA idx : Entry(addr + idx * PAGE_SIZE, flags \cup {"present"}))

ImagePages(b) == page_number_of(b.image_top - b.image_start)

\* The kernel image, the setup code's page and the kernel's code executable.
MapImage(b, tables, elf) ==
  LET image == map_linear(b, tables, b.page_tables, page_number_of(KERNEL_BASE - JINUE_KLIMIT), ImagePages(b),
                          b.image_start, {"global"} \cup NxFlag(b))
      setup == map_linear(b, image, b.page_tables, page_number_of(KERNEL_BASE - JINUE_KLIMIT), 1,
                          b.image_start, {"global"})
      code == kernel_code_program_header(elf)
  IN IF code = {} THEN setup
     ELSE LET phdr == CHOOSE p \in code : TRUE
              vaddr == ALIGN_START(phdr.vaddr, PAGE_SIZE)
          IN map_linear(b, setup, b.page_tables, page_number_of(vaddr - JINUE_KLIMIT),
                        NUM_PAGES(phdr.memsz + (phdr.vaddr % PAGE_SIZE)), VIRT_TO_PHYS_AT_1MB(vaddr), {"global"})

MapDataSegment(b, tables, segment) ==
  IF segment.size = 0 THEN tables
  ELSE map_linear(b, tables, b.page_tables, page_number_of(segment.start - JINUE_KLIMIT), NUM_PAGES(segment.size),
                  segment.physaddr, {"write", "global"} \cup NxFlag(b))

MapAllocations(b, tables) ==
  map_linear(b, tables, b.page_tables, page_number_of(ALLOC_BASE - JINUE_KLIMIT), NUM_PAGES(BOOT_SIZE_AT_16MB),
             MEMORY_ADDR_16MB, {"write", "global"} \cup NxFlag(b))

LinkTables(b, tables) ==
  map_linear(b, clear_ptes(b, tables, b.page_directory, 0, Ptes(b)), b.page_directory,
             (IF UsePae(b) THEN 0 ELSE page_number_of(JINUE_KLIMIT)) \div Ptes(b),
             KernelPages(b) \div Ptes(b), b.page_tables, {"write"})

initialize_page_tables(b, tables, segment, elf) ==
  LinkTables(b, MapAllocations(b, MapDataSegment(b,
    MapImage(b, clear_ptes(b, tables, b.page_tables, 0, KernelPages(b)), elf), segment)))

\* With PAE the last of the four entries is the kernel's page directory.
InitialPdpt(b) == [i \in 0 .. 3 |-> IF i = 3 THEN Entry(b.page_directory, {"present"}) ELSE Clear]

\* The temporary tables for the image at 1MB, cleared and with the setup code executable.
MapImageTemporarily(b, tables, table) ==
  LET first == page_number_of(MEMORY_ADDR_1MB)
      clear == clear_ptes(b, tables, table, 0, Ptes(b))
      image == map_linear(b, clear, table, first, ImagePages(b), b.image_start, NxFlag(b))
  IN map_linear(b, image, table, first, 1, b.image_start, {})

MapAllocationsTemporarily(b, tables, table) ==
  map_linear(b, clear_ptes(b, tables, table, 0, NUM_PAGES(BOOT_SIZE_AT_16MB)), table, 0,
             NUM_PAGES(BOOT_SIZE_AT_16MB), MEMORY_ADDR_16MB, {"write"} \cup NxFlag(b))

LinkTemporarily(b, tables, directory, table1mb, table16mb) ==
  LET image == map_linear(b, tables, directory, page_number_of(MEMORY_ADDR_1MB) \div Ptes(b), 1, table1mb, {"write"})
  IN map_linear(b, image, directory, page_number_of(MEMORY_ADDR_16MB) \div Ptes(b),
                NUM_PAGES(BOOT_SIZE_AT_16MB) \div Ptes(b), table16mb, {"write"})

\* The tables are allocated, linked, and given back at once: they are only good until
\* something else is allocated.
prepare_for_paging(b, tables, pointers) ==
  LET count == NUM_PAGES(BOOT_SIZE_AT_16MB) \div Ptes(b)
      t1 == alloc_pages(b, PAGE_SIZE)
      t16 == alloc_pages(t1[1], count * PAGE_SIZE)
      d == alloc_pages(t16[1], PAGE_SIZE)
      temporary == AddTables(b, AddTables(b, tables, t1[2], 1), t16[2], count)
      mapped == MapAllocationsTemporarily(b, MapImageTemporarily(b, temporary, t1[2]), t16[2])
      directory == IF UsePae(b) THEN d[2] ELSE b.page_directory
      cleared == IF UsePae(b) THEN clear_ptes(b, AddTables(b, mapped, d[2], 1), d[2], 0, Ptes(b)) ELSE mapped
  IN <<set_alloc_pages_address(b, t1[2]),
       LinkTemporarily(b, cleared, directory, t1[2], t16[2]),
       IF UsePae(b) THEN [pointers EXCEPT ![0] = Entry(d[2], {"present"})] ELSE pointers>>

\* A mutant: without PAE, only the first of the two temporary mappings is removed.
CleanupImageOnly(b, tables, pointers, directory) ==
  IF UsePae(b) THEN <<tables, [pointers EXCEPT ![0] = Clear]>>
  ELSE <<clear_ptes(b, tables, directory, page_number_of(KERNEL_BASE - BOOT_OFFSET_FROM_1MB) \div Ptes(b), 1), pointers>>

\* bi.cr3 is a physical address: the PDPT is still reached through the mapping that
\* this removes.
cleanup_after_paging(b, tables, pointers, directory) ==
  IF UsePae(b) THEN <<tables, [pointers EXCEPT ![0] = Clear]>>
  ELSE LET image == clear_ptes(b, tables, directory,
                               page_number_of(KERNEL_BASE - BOOT_OFFSET_FROM_1MB) \div Ptes(b), 1)
       IN <<clear_ptes(b, image, directory, page_number_of(MEMORY_ADDR_16MB) \div Ptes(b),
                       NUM_PAGES(BOOT_SIZE_AT_16MB) \div Ptes(b)), pointers>>

(***************************************************************************)
(* What the CPU does with an address (external: the processor).            *)
(***************************************************************************)
Fault == [addr |-> -1, write |-> FALSE, execute |-> FALSE]

IsPresent(entry) == "present" \in entry.flags \/ entry = Junk

Walk(tables, frame, vaddr, ptes) ==
  IF frame \notin DOMAIN tables THEN Fault
  ELSE LET pde == tables[frame][(page_number_of(vaddr) \div ptes) % ptes]
       IN IF ~IsPresent(pde) \/ pde = Junk THEN Fault
          ELSE IF "page_size" \in pde.flags
                 THEN [addr |-> pde.addr + (vaddr % (ptes * PAGE_SIZE)), write |-> "write" \in pde.flags,
                       execute |-> "nx" \notin pde.flags]
          ELSE IF page_number_of(pde.addr) \notin DOMAIN tables THEN Fault
          ELSE LET pte == tables[page_number_of(pde.addr)][page_number_of(vaddr) % ptes]
               IN IF ~IsPresent(pte) \/ pte = Junk THEN Fault
                  ELSE [addr |-> pte.addr + (vaddr % PAGE_SIZE), write |-> {"write"} \subseteq pde.flags \cap pte.flags,
                        execute |-> "nx" \notin pte.flags]

Translate(vaddr) ==
  IF ~cpu.paging THEN [addr |-> vaddr, write |-> TRUE, execute |-> TRUE]
  ELSE IF ~cpu.pae THEN Walk(pt, page_number_of(cpu.cr3), vaddr, PAGE_TABLE_PTES)
  ELSE LET pdpte == cpu.pdptes[vaddr \div (ADDR_4GB \div 4)]
       IN IF ~IsPresent(pdpte) THEN Fault
          ELSE Walk(pt, page_number_of(pdpte.addr), vaddr, PAGE_TABLE_PTES \div 2)

(***************************************************************************)
(* main32.c, setup32.asm                                                   *)
(***************************************************************************)
\* bootinfo_t before anything is written to it.
UnsetBootInfo ==
  [bootinfo |-> MEMORY_ADDR_16MB, boot_heap |-> 0, boot_end |-> 0, kernel_start |-> 0, loader_start |-> 0,
   image_start |-> 0, image_top |-> 0, ramdisk_start |-> 0, ramdisk_size |-> 0, setup_signature |-> "none",
   addr_map_entries |-> 0, acpi_addr_map |-> 0, cmdline |-> 0, video |-> NoVideo, features |-> {},
   cpu_vendor |-> "none", page_tables |-> 0, page_directory |-> 0, cr3 |-> 0,
   segment |-> NoSegment]

create_bootinfo(params, image) ==
  initialize_from_linux_boot_params(
    [UnsetBootInfo EXCEPT !.boot_heap = MEMORY_ADDR_16MB + BootInfoSize,
       !.boot_end = MEMORY_ADDR_16MB + BOOT_STACK_HEAP_SIZE,
       !.kernel_start = image.kernel_start, !.loader_start = image.loader_start,
       !.image_start = MEMORY_ADDR_1MB, !.image_top = image.top],
    ram, params)

adjust_bootinfo_pointers(b) ==
  [b EXCEPT !.kernel_start = @ + BOOT_OFFSET_FROM_1MB, !.loader_start = @ + BOOT_OFFSET_FROM_1MB,
            !.image_start = @ + BOOT_OFFSET_FROM_1MB, !.image_top = @ + BOOT_OFFSET_FROM_1MB,
            !.acpi_addr_map = @ + BOOT_OFFSET_FROM_16MB, !.boot_end = @ + BOOT_OFFSET_FROM_16MB,
            !.boot_heap = @ + BOOT_OFFSET_FROM_16MB, !.cmdline = @ + BOOT_OFFSET_FROM_16MB,
            !.page_directory = @ + BOOT_OFFSET_FROM_16MB, !.page_tables = @ + BOOT_OFFSET_FROM_16MB,
            !.bootinfo = @ + BOOT_OFFSET_FROM_16MB]

\* Writing CR0 with paging on, and CR3 with PAE, loads the entries of the PDPT.
enable_paging(c, b, pointers) ==
  [c EXCEPT !.cr3 = b.cr3, !.pae = c.pae \/ UsePae(b), !.nx = c.nx \/ (UsePae(b) /\ Has(b.features, "NX")),
            !.pse = c.pse \/ UsePse(b), !.paging = TRUE, !.pdptes = IF UsePae(b) THEN pointers ELSE c.pdptes]

\* The return addresses on the stack, then the stack pointer.
adjust_stack(c) == [c EXCEPT !.eip = @ + BOOT_OFFSET_FROM_1MB, !.esp = @ + BOOT_OFFSET_FROM_16MB]

SetupInit ==
  /\ machine \in Scenarios
  /\ pc = "create_bootinfo"
  /\ cpu = [paging |-> FALSE, pae |-> FALSE, nx |-> FALSE, pse |-> FALSE, cr3 |-> 0,
            pdptes |-> [i \in 0 .. 3 |-> Junk],
            eip |-> MEMORY_ADDR_1MB + 1, esp |-> MEMORY_ADDR_16MB + BOOT_STACK_HEAP_SIZE - 1]
  /\ bi = UnsetBootInfo
  /\ pt = [f \in {} |-> <<>>]
  /\ pdpt = [i \in 0 .. 3 |-> Junk]
  /\ ram = [a \in {} |-> <<>>]

Step(from, to) == pc = from /\ pc' = to /\ UNCHANGED machine

CreateBootinfo ==
  /\ Step("create_bootinfo", "detect_cpu_features")
  /\ LET created == create_bootinfo(machine.params, machine.image)
     IN bi' = created[1] /\ ram' = created[2]
  /\ UNCHANGED <<cpu, pt, pdpt>>

\* With something left on the stack, detect_cpuid() does not return to its caller.
DetectCpuFeatures ==
  /\ Step("detect_cpu_features", IF detect_cpuid(machine.cpu).saved = 0 THEN "prepare_data_segment" ELSE "lost")
  /\ bi' = detect_cpu_features(bi, machine.cpu)
  /\ UNCHANGED <<cpu, pt, pdpt, ram>>

PrepareDataSegment ==
  /\ Step("prepare_data_segment", "allocate_page_tables")
  /\ LET prepared == prepare_data_segment(bi, ram, machine.image.kernel)
     IN bi' = [prepared[1] EXCEPT !.segment = prepared[3]] /\ ram' = prepared[2]
  /\ UNCHANGED <<cpu, pt, pdpt>>

AllocatePageTables ==
  /\ Step("allocate_page_tables", "initialize_page_tables")
  /\ LET allocated == allocate_page_tables(bi, pt)
     IN bi' = allocated[1] /\ pt' = allocated[2]
  /\ UNCHANGED <<cpu, pdpt, ram>>

InitializePageTables ==
  /\ Step("initialize_page_tables", "prepare_for_paging")
  /\ pt' = initialize_page_tables(bi, pt, bi.segment, machine.image.kernel)
  /\ pdpt' = IF UsePae(bi) THEN InitialPdpt(bi) ELSE pdpt
  /\ UNCHANGED <<cpu, bi, ram>>

PrepareForPaging ==
  /\ Step("prepare_for_paging", "enable_paging")
  /\ LET prepared == prepare_for_paging(bi, pt, pdpt)
     IN bi' = prepared[1] /\ pt' = prepared[2] /\ pdpt' = prepared[3]
  /\ UNCHANGED <<cpu, ram>>

EnablePaging ==
  /\ Step("enable_paging", "adjust_bootinfo_pointers")
  /\ cpu' = enable_paging(cpu, bi, pdpt)
  /\ UNCHANGED <<bi, pt, pdpt, ram>>

AdjustBootinfoPointers ==
  /\ Step("adjust_bootinfo_pointers", "adjust_stack")
  /\ bi' = adjust_bootinfo_pointers(bi)
  /\ UNCHANGED <<cpu, pt, pdpt, ram>>

AdjustStack ==
  /\ Step("adjust_stack", "cleanup_after_paging")
  /\ cpu' = adjust_stack(cpu)
  /\ UNCHANGED <<bi, pt, pdpt, ram>>

CleanupAfterPaging ==
  /\ Step("cleanup_after_paging", "reload_cr3")
  /\ LET clean == cleanup_after_paging(bi, pt, pdpt, Translate(bi.page_directory).addr)
     IN pt' = clean[1] /\ pdpt' = clean[2]
  /\ UNCHANGED <<cpu, bi, ram>>

\* The second enable_paging(), then the jump to the kernel.
EnterKernel ==
  /\ Step("reload_cr3", "kmain")
  /\ cpu' = [enable_paging(cpu, bi, pdpt) EXCEPT !.eip = get_kernel_entry_point(machine.image.kernel)]
  /\ UNCHANGED <<bi, pt, pdpt, ram>>

SetupNext ==
  \/ CreateBootinfo \/ DetectCpuFeatures \/ PrepareDataSegment
  \/ AllocatePageTables \/ InitializePageTables \/ PrepareForPaging
  \/ EnablePaging \/ AdjustBootinfoPointers \/ AdjustStack
  \/ CleanupAfterPaging \/ EnterKernel

=============================================================================
