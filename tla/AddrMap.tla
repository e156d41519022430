------------------------------ MODULE AddrMap ------------------------------
(***************************************************************************)
(* Who may use which physical memory: the address map that the kernel      *)
(* checks at boot and reports to user space                                *)
(* (kernel/infrastructure/i686/memory/addrmap.c, pages.c) and the boot     *)
(* allocator (kernel/infrastructure/i686/boot_alloc.c).                    *)
(***************************************************************************)
EXTENDS Setup

CONSTANTS
  KernelAddrmapEntries,   \* size of kernel_addrmap.map
  AddrMapHeaderSize       \* sizeof(jinue_addr_map_t); an entry is one byte here

MemRange(start, end) == [start |-> start, end |-> end]
SizeOf(range) == range.end - range.start
EntryRange(entry) == MemRange(entry.addr, entry.addr + entry.size)
MapEntry(type, addr, size) == [type |-> type, addr |-> addr, size |-> size]

range_is_within(enclosed, enclosing) == enclosed.start >= enclosing.start /\ enclosed.end <= enclosing.end

ranges_intersect(range1, range2) == ~(range1.end <= range2.start \/ range1.start >= range2.end)

IsMemory(entry) == entry.type = "MEMORY"

range_is_in_available_memory(range, acpi) ==
  /\ \E i \in DOMAIN acpi : IsMemory(acpi[i]) /\ range_is_within(range, EntryRange(acpi[i]))
  /\ \A i \in DOMAIN acpi : ~IsMemory(acpi[i]) => ~ranges_intersect(range, EntryRange(acpi[i]))

BootRangeEnd == MEMORY_ADDR_16MB + BOOT_SIZE_AT_16MB

\* The first check that fails panics.
check_system_address_map(b, acpi) ==
  LET ramdisk == MemRange(b.ramdisk_start, b.ramdisk_start + b.ramdisk_size) IN
  /\ range_is_in_available_memory(MemRange(MEMORY_ADDR_16MB, BootRangeEnd), acpi)
  /\ range_is_in_available_memory(MemRange(MEMORY_ADDR_1MB, MEMORY_ADDR_1MB + KERNEL_SIZE), acpi)
  /\ b.ramdisk_start # 0 => /\ range_is_in_available_memory(ramdisk, acpi)
                            /\ ramdisk.start >= BootRangeEnd

AcpiTypes == {"MEMORY", "RESERVED", "ACPI", "NVS", "UNUSABLE", "DISABLED", "PERSISTENT", "OEM"}

\* What the OEM defined is folded into one type, what nobody defined is reserved.
map_memory_type(entry) ==
  IF entry.type = "OEM_DEFINED" THEN "OEM" ELSE IF entry.type \in AcpiTypes THEN entry.type ELSE "RESERVED"

page_align_available_range(range) ==
  MemRange(ALIGN_END(range.start, PAGE_SIZE), ALIGN_START(range.end, PAGE_SIZE))

page_align_unavailable_range(range) ==
  MemRange(ALIGN_START(range.start, PAGE_SIZE), ALIGN_END(range.end, PAGE_SIZE))

page_align_unavailable_entry(entry) ==
  LET range == page_align_unavailable_range(EntryRange(entry))
  IN MapEntry(entry.type, range.start, SizeOf(range))

assign_and_align_from_acpi(entry) ==
  IF IsMemory(entry) THEN page_align_available_range(EntryRange(entry))
  ELSE page_align_unavailable_range(EntryRange(entry))

\* The larger part is kept when the range is cut in two, by sizes that are size_t, of 32 bits.
clip_range(dest, clipping) ==
  LET low_size == (clipping.start - dest.start) % ADDR_4GB
      high_size == (dest.end - clipping.end) % ADDR_4GB
  IN IF ~ranges_intersect(dest, clipping) THEN dest
     ELSE IF clipping.start <= dest.start
       THEN MemRange(clipping.end, IF dest.end < clipping.end THEN clipping.end ELSE dest.end)
     ELSE IF clipping.end >= dest.end THEN MemRange(dest.start, clipping.start)
     ELSE IF high_size > low_size THEN MemRange(clipping.end, dest.end)
     ELSE MemRange(dest.start, clipping.start)

RECURSIVE ClipFrom(_, _, _)
ClipFrom(dest, acpi, idx) ==
  IF idx > Len(acpi) THEN dest
  ELSE ClipFrom(IF IsMemory(acpi[idx]) THEN dest ELSE clip_range(dest, assign_and_align_from_acpi(acpi[idx])),
                acpi, idx + 1)

\* A mutant: the RAM disk is forgotten.
ClipOnlyReserved(dest, b, acpi) == ClipFrom(dest, acpi, 1)

clip_available_range(dest, b, acpi) ==
  clip_range(ClipFrom(dest, acpi, 1),
             page_align_unavailable_range(MemRange(b.ramdisk_start, b.ramdisk_start + b.ramdisk_size)))

\* The first largest of the available ranges that start at 4GB or above.
LargestOver4GB(b, acpi) ==
  LET over == {i \in DOMAIN acpi : IsMemory(acpi[i]) /\ acpi[i].addr >= ADDR_4GB}
      clipped == [i \in over |-> clip_available_range(assign_and_align_from_acpi(acpi[i]), b, acpi)]
      largest == {i \in over : /\ SizeOf(clipped[i]) > 0
                               /\ \A j \in over : SizeOf(clipped[j]) <= SizeOf(clipped[i])}
  IN IF largest = {} THEN MemRange(0, 0) ELSE clipped[CHOOSE i \in largest : \A j \in largest : i <= j]

\* What follows the kernel's memory in the first entry that goes on past it.
RangeAboveKernel(b, acpi) ==
  LET above == {i \in DOMAIN acpi : /\ IsMemory(acpi[i])
                                    /\ acpi[i].addr + acpi[i].size > BootRangeEnd
                                    /\ acpi[i].addr <= MEMORY_ADDR_16MB}
  IN IF above = {} THEN MemRange(0, 0)
     ELSE LET first == CHOOSE i \in above : \A j \in above : i <= j
          IN clip_available_range(
               page_align_available_range(MemRange(BootRangeEnd, acpi[first].addr + acpi[first].size)), b, acpi)

find_available_range_for_loader(b, acpi) ==
  LET under == RangeAboveKernel(b, acpi)
      over == LargestOver4GB(b, acpi)
  IN IF SizeOf(under) > SizeOf(over) THEN under ELSE over

\* The array has no room for more than KernelAddrmapEntries, which nothing checks.
add_kernel_entry(map, entry) == Append(map, entry)

\* The first entry of the same type that the new one intersects.
SameAs(map, entry) ==
  {i \in DOMAIN map : map[i].type = entry.type /\ ranges_intersect(EntryRange(map[i]), EntryRange(entry))}

Max2(x, y) == IF x > y THEN x ELSE y

\* The map with the new entry merged into the first that it intersects, if there is one.
deduplicate_unavailable_entry(map, entry) ==
  LET idx == CHOOSE i \in SameAs(map, entry) : \A j \in SameAs(map, entry) : i <= j
      start == Min2(map[idx].addr, entry.addr)
      end == Max2(map[idx].addr + map[idx].size, entry.addr + entry.size)
  IN [map EXCEPT ![idx] = MapEntry(entry.type, start, end - start)]

AddUnavailable(map, type, addr, size) ==
  LET entry == page_align_unavailable_entry(MapEntry(type, addr, size))
  IN IF SameAs(map, entry) # {} THEN deduplicate_unavailable_entry(map, entry) ELSE add_kernel_entry(map, entry)

machine_add_shared_to_address_map(map, addr, size) == AddUnavailable(map, "KERNEL_SHARED", addr, size)
machine_add_reserved_to_address_map(map, addr, size) == AddUnavailable(map, "KERNEL_RESERVED", addr, size)

\* The kernel image is reported from its address in the kernel's address space as if
\* it were one of the allocations at 16MB.
initialize_address_map(b, acpi) ==
  LET image == VIRT_TO_PHYS_AT_16MB(b.image_start)
      top == b.image_top - b.image_start
      loader == find_available_range_for_loader(b, acpi)
      reserved == add_kernel_entry(<<>>, MapEntry("KERNEL_RESERVED", MEMORY_ADDR_16MB, BOOT_SIZE_AT_16MB))
      ramdisk == add_kernel_entry(machine_add_shared_to_address_map(reserved, b.ramdisk_start, b.ramdisk_size),
                                  MapEntry("RAMDISK", b.ramdisk_start, b.ramdisk_size))
      kernel == add_kernel_entry(machine_add_shared_to_address_map(ramdisk, image, top),
                                 MapEntry("KERNEL_IMAGE", image, top))
  IN add_kernel_entry(kernel, MapEntry("LOADER_AVAILABLE", loader.start, SizeOf(loader)))

\* A buffer that is too small only receives the number of entries, if that much.
machine_get_address_map(map, acpi, size) ==
  LET total == Len(acpi) + Len(map) IN
  [num_entries |-> IF size >= AddrMapHeaderSize THEN total ELSE 0,
   error |-> IF size < AddrMapHeaderSize + total THEN "E2BIG" ELSE "none",
   entry |-> IF size < AddrMapHeaderSize + total THEN <<>>
             ELSE [i \in 1 .. Len(acpi) |-> MapEntry(map_memory_type(acpi[i]), acpi[i].addr, acpi[i].size)] \o map]

(***************************************************************************)
(* bootinfo.c                                                              *)
(***************************************************************************)
check_structure(b) == b.bootinfo # 0 /\ b.setup_signature = "HdrS"

check_kernel_alignment(b) == \A p \in {b.image_start, b.image_top, b.kernel_start} : p % PAGE_SIZE = 0

check_bootinfo(b) == check_structure(b) /\ check_kernel_alignment(b)

(***************************************************************************)
(* pages.c, boot_alloc.c                                                   *)
(***************************************************************************)
find_top_address_for_kernel(acpi) ==
  LET tops == {Min2(ALIGN_START(acpi[i].addr + acpi[i].size, PAGE_SIZE), ADDR_4GB)
                 : i \in {j \in DOMAIN acpi : IsMemory(acpi[j]) /\ acpi[j].addr < ADDR_4GB}}
  IN IF tops = {} THEN 0 ELSE CHOOSE t \in tops : \A u \in tops : u <= t

\* heap_ptr has no limit; a page past page_limit panics.
boot_alloc_init(b) ==
  [heap_ptr |-> b.boot_heap, current_page |-> b.boot_end, page_limit |-> ALLOC_BASE + BOOT_SIZE_AT_16MB,
   panic |-> FALSE]

boot_heap_alloc_size(alloc, size, align) ==
  LET object == IF align # 0 THEN ALIGN_END(alloc.heap_ptr, align) ELSE alloc.heap_ptr
  IN <<[alloc EXCEPT !.heap_ptr = object + size], object>>

boot_page_alloc_n(alloc, n) ==
  LET next == alloc.current_page + n * PAGE_SIZE
  IN <<[alloc EXCEPT !.current_page = next, !.panic = @ \/ next > alloc.page_limit], alloc.current_page>>

boot_page_alloc(alloc) == boot_page_alloc_n(alloc, 1)

boot_page_alloc_is_empty(alloc) == alloc.current_page >= alloc.page_limit

\* One array entry per page frame; a page holds PAGE_TABLE_PTES entries.  The frames of
\* the boot allocations are the ones that have an address.
initialize_page_frames_array(alloc, acpi) ==
  LET entries == ALIGN_END(NUM_PAGES(find_top_address_for_kernel(acpi)), PAGE_TABLE_PTES)
      array == boot_page_alloc_n(alloc, entries \div PAGE_TABLE_PTES)
  IN <<array[1], [i \in 0 .. entries - 1 |->
                    IF i * PAGE_SIZE \in MEMORY_ADDR_16MB .. BootRangeEnd - 1
                      THEN PHYS_TO_VIRT_AT_16MB(i * PAGE_SIZE) ELSE 0]>>

lookup_page_frame_address(frames, paddr) ==
  IF page_number_of(paddr) \notin DOMAIN frames THEN 0 ELSE frames[page_number_of(paddr)]

=============================================================================
