----------------------------- MODULE Firmware -----------------------------
(***************************************************************************)
(* What the kernel learns from the firmware while it starts: the kernel's  *)
(* mapping area (kernel/domain/services/mman.c), the ACPI tables           *)
(* (infrastructure/acpi/acpi.c, infrastructure/i686/firmware/acpi.c), the  *)
(* Multiprocessor Specification structures (firmware/mp.c) and the BIOS    *)
(* data area (firmware/bios.c).                                            *)
(*                                                                         *)
(* k is a record with the kernel's static variables; k.pt are its page     *)
(* tables.  A structure of the firmware is a record, with `sum` telling    *)
(* whether its bytes add up to zero.  Sizes are scaled with the addresses. *)
(***************************************************************************)
EXTENDS AddrMap

CONSTANTS
  MAPPING_AREA_SIZE,
  EBDA_START, EBDA_END,   \* 0x80000 and 0xa0000, also 512 and 640 kB
  RSDP_ROM, MP_ROM,       \* 0xe0000 and 0xf0000
  KB, APIC_INIT_ADDR

MAPPING_AREA_ADDR == LARGE_PAGES_AREA_ADDR - MAPPING_AREA_SIZE

RsdpSize == 2
AcpiHeaderSize == 2         \* also RSDT_BASE_SIZE
ACPI_TABLE_MAX_SIZE == 24
MpPointerSize == 1
MpHeaderSize == 2
MAXIMUM_TABLE_SIZE == 16
TableSize == [FACP |-> 4, APIC |-> 3, HPET |-> 3]
MadtEntriesOffset == 3
MadtEntryHeaderSize == 1
PADDR_NULL == 0
NoTable == [signature |-> "none", length |-> 0, sum |-> FALSE]

\* panic() does not return: nothing after it has an effect.
Panic(k, reason) == IF k.panic = "none" THEN [k EXCEPT !.panic = reason] ELSE k
Then(k, Next(_)) == IF k.panic = "none" THEN Next(k) ELSE k

\* What is done with the two or three values that a function returned.
With(result, Use(_, _)) == Use(result[1], result[2])
With3(result, Use(_, _, _)) == Use(result[1], result[2], result[3])

(***************************************************************************)
(* pmap.c: the kernel's own mappings.                                      *)
(***************************************************************************)
has_large_pages(k) == cpu_has_feature(k.cpu_info, {"PAE"}) \/ cpu_has_feature(k.cpu_info, {"PSE"})

large_page_size(k) ==
  PAGE_SIZE * (IF cpu_has_feature(k.cpu_info, {"PAE"}) THEN PAGE_TABLE_PTES \div 2
               ELSE IF cpu_has_feature(k.cpu_info, {"PSE"}) THEN PAGE_TABLE_PTES ELSE 1)

\* The NX flag is bit 63 and does not fit the int the flags are collected in.
map_arch_page_flags(k, prot, flags) ==
  IF prot = {} THEN {"prot_none"}
  ELSE {"present"} \cup (prot \cap {"write"})
       \cup (IF "uncacheable" \in flags THEN {"pcd", "pwt"} ELSE {})
       \cup (IF "write_combine" \in flags
               THEN {"pwt"} \cup (IF cpu_has_feature(k.cpu_info, {"PAT"}) THEN {} ELSE {"pcd"}) ELSE {})

\* Without PAE an entry has room for 32 bits of the address.
set_pte(k, paddr, flags) == Entry(IF cpu_has_feature(k.cpu_info, {"PAE"}) THEN paddr ELSE paddr % ADDR_4GB, flags)

lookup_kernel_page_table_entry(addr) == page_number_of(addr - JINUE_KLIMIT)

\* An index in a directory that starts with the entry for JINUE_KLIMIT, which is
\* the case with PAE.
lookup_kernel_page_directory_entry(k, addr) == page_number_of(addr - JINUE_KLIMIT) \div Ptes(bi)

InLargePagesArea(k, addr) == has_large_pages(k) /\ addr >= LARGE_PAGES_AREA_ADDR

SetKernelEntries(k, addr, size, Value(_)) ==
  IF InLargePagesArea(k, addr)
    THEN [k EXCEPT !.pt = SetEntries(bi, @, VIRT_TO_PHYS_AT_16MB(bi.page_directory),
                                     lookup_kernel_page_directory_entry(k, addr),
                                     ALIGN_END(size, large_page_size(k)) \div large_page_size(k), Value)]
    ELSE [k EXCEPT !.pt = SetEntries(bi, @, VIRT_TO_PHYS_AT_16MB(bi.page_tables),
                                     lookup_kernel_page_table_entry(addr), NUM_PAGES(size), Value)]

machine_map_kernel(k, addr, size, paddr, prot, flags) ==
  LET large == InLargePagesArea(k, addr)
      page == IF large THEN large_page_size(k) ELSE PAGE_SIZE
      pte == map_arch_page_flags(k, prot, flags) \cup {"global"} \cup (IF large THEN {"page_size"} ELSE {})
  IN SetKernelEntries(k, addr, size, LAMBDA idx : set_pte(k, paddr + idx * page, pte))

machine_unmap_kernel(k, addr, size) == SetKernelEntries(k, addr, size, LAMBDA idx : Clear)

KernelPte(k, addr) ==
  LET idx == lookup_kernel_page_table_entry(addr)
  IN k.pt[page_number_of(VIRT_TO_PHYS_AT_16MB(bi.page_tables)) + idx \div Ptes(bi)][idx % Ptes(bi)]

machine_lookup_kernel_paddr(k, addr) == KernelPte(k, addr).addr

(***************************************************************************)
(* mman.c: two regions that grow, and the latest mapping, which can be     *)
(* resized or undone.                                                      *)
(***************************************************************************)
InitialRegions ==
  [normal |-> [addr |-> MAPPING_AREA_ADDR, remaining |-> MAPPING_AREA_SIZE, page_size |-> PAGE_SIZE],
   large |-> [addr |-> LARGE_PAGES_AREA_ADDR, remaining |-> ADDR_4GB - LARGE_PAGES_AREA_ADDR, page_size |-> 0]]

NoMapping == [region |-> "normal", addr |-> 0, prot |-> {}, flags |-> {}]

expand_mapping(k, paddr, new_end, prot, flags) ==
  LET region == k.regions[k.latest.region]
      size == new_end - region.addr
  IN IF size > region.remaining THEN Panic(k, "No more space to map memory in kernel")
     ELSE [machine_map_kernel(k, region.addr, size, paddr, prot, flags) EXCEPT
             !.regions[k.latest.region] = [@ EXCEPT !.addr = new_end, !.remaining = @ - size]]

shrink_mapping(k, new_end) ==
  LET region == k.regions[k.latest.region]
      size == region.addr - new_end
  IN [machine_unmap_kernel(k, new_end, size) EXCEPT
        !.regions[k.latest.region] = [@ EXCEPT !.addr = new_end, !.remaining = @ + size]]

map_in_kernel(k, paddr, size, prot, flags) ==
  LET name == IF "large_pages" \in flags THEN "large" ELSE "normal"
      sized == IF name = "large" THEN [k EXCEPT !.regions.large.page_size = large_page_size(k)] ELSE k
      region == sized.regions[name]
      offset == paddr % region.page_size
      start == region.addr + offset
      latest == [sized EXCEPT !.latest = [region |-> name, addr |-> start, prot |-> prot, flags |-> flags]]
  IN <<expand_mapping(latest, paddr - offset, ALIGN_END(start + size, region.page_size), prot, flags), start>>

\* The end of the region moves before its old value is used for the last time: what
\* is expanded or shrunk is always empty.
resize_map_in_kernel(k, size) ==
  LET region == k.regions[k.latest.region]
      old_end == region.addr
      new_end == ALIGN_END(k.latest.addr + size, region.page_size)
      start == ALIGN_START(k.latest.addr, region.page_size)
      moved == [k EXCEPT !.regions[k.latest.region].addr = new_end]
  IN IF new_end <= old_end THEN shrink_mapping(moved, new_end)
     ELSE expand_mapping(moved, machine_lookup_kernel_paddr(k, start) + (old_end - start), new_end,
                         k.latest.prot, k.latest.flags)

undo_map_in_kernel(k) ==
  [shrink_mapping(k, ALIGN_START(k.latest.addr, k.regions[k.latest.region].page_size)) EXCEPT
     !.latest = [NoMapping EXCEPT !.region = k.latest.region]]

\* A read through the kernel's page tables; what is not mapped is a page fault.
Readable(k, addr, size) ==
  \A page \in page_number_of(addr) .. page_number_of(addr + size - 1) :
    "present" \in KernelPte(k, page * PAGE_SIZE).flags

TableAt(k, addr) ==
  LET paddr == machine_lookup_kernel_paddr(k, addr) + (addr % PAGE_SIZE)
  IN IF paddr \in DOMAIN machine.firmware.tables THEN machine.firmware.tables[paddr] ELSE NoTable

(***************************************************************************)
(* bios.c                                                                  *)
(***************************************************************************)
get_bios_ebda_addr ==
  LET ebda == machine.firmware.ebda IN IF ebda < EBDA_START \/ ebda >= EBDA_END THEN 0 ELSE ebda

get_bios_base_memory_size ==
  LET size == machine.firmware.base_memory IN IF size < EBDA_START \/ size > EBDA_END THEN 0 ELSE size

\* The first address of a range with a structure that passes the test.
ScanRange(from, to, Valid(_)) ==
  LET found == {a \in (from .. to - 1) \cap DOMAIN machine.firmware.low : Valid(machine.firmware.low[a])}
  IN IF found = {} THEN PADDR_NULL ELSE CHOOSE a \in found : \A other \in found : a <= other

(***************************************************************************)
(* acpi/acpi.c                                                             *)
(***************************************************************************)
ACPI_V1_REVISION == 0
ACPI_V2_REVISION == 2

validate_acpi_rsdp(rsdp) ==
  /\ rsdp.signature = "RSD PTR " /\ rsdp.sum
  /\ rsdp.revision = ACPI_V1_REVISION \/ (rsdp.revision = ACPI_V2_REVISION /\ rsdp.sum_v2)

verify_table_signature(header, signature) == header.signature = signature

\* The sum over a mapped table: <<k, TRUE or FALSE>>.
verify_acpi_checksum(k, addr, size) ==
  IF Readable(k, addr, size) THEN <<k, TableAt(k, addr).sum>> ELSE <<Panic(k, "page fault"), FALSE>>

map_rsdp(k, paddr) ==
  map_in_kernel([k EXCEPT !.addrmap = machine_add_shared_to_address_map(@, paddr, RsdpSize)],
                paddr, RsdpSize, {"read"}, {})

map_table(k, addr) ==
  LET length == TableAt(k, addr).length
  IN IF length < AcpiHeaderSize \/ length > ACPI_TABLE_MAX_SIZE THEN <<k, FALSE>>
     ELSE verify_acpi_checksum(resize_map_in_kernel(k, length), addr, length)

map_header(k, paddr) == map_in_kernel(k, paddr, AcpiHeaderSize, {"read"}, {})

\* <<k, address of the mapped table or 0>>
map_rsdt(k, paddr, is_xsdt) ==
  With(map_header(k, paddr), LAMBDA mapped, addr :
    LET header == TableAt(mapped, addr) IN
    IF mapped.panic # "none" THEN <<mapped, 0>>
    ELSE IF \/ ~verify_table_signature(header, IF is_xsdt THEN "XSDT" ELSE "RSDT")
            \/ header.length < AcpiHeaderSize
           THEN <<undo_map_in_kernel(mapped), 0>>
    ELSE With(map_table(mapped, addr), LAMBDA table, valid :
           IF ~valid THEN <<Then(table, undo_map_in_kernel), 0>>
           ELSE <<[table EXCEPT !.addrmap = machine_add_shared_to_address_map(@, paddr, header.length)], addr>>))

table_defs == <<"FACP", "APIC", "HPET">>

\* The first definition without a table that the header fits.
match_table(k, addr) ==
  LET header == TableAt(k, addr)
      fits == {i \in DOMAIN table_defs : /\ k.tables[table_defs[i]] = NoTable
                                         /\ verify_table_signature(header, table_defs[i])
                                         /\ header.length >= TableSize[table_defs[i]]}
  IN IF fits = {} THEN <<k, FALSE>>
     ELSE With(map_table(k, addr), LAMBDA table, valid :
            <<[table EXCEPT !.tables[header.signature] = IF valid THEN header ELSE NoTable], valid>>)

ProcessEntry(k, paddr) ==
  With(map_header(k, paddr), LAMBDA mapped, addr :
    IF mapped.panic # "none" THEN mapped
    ELSE With(match_table(mapped, addr), LAMBDA now, matched :
           IF ~matched THEN Then(now, undo_map_in_kernel)
           ELSE [now EXCEPT !.addrmap = machine_add_shared_to_address_map(@, paddr, TableAt(mapped, addr).length)]))

\* With an odd number of 32-bit words, the last one of an XSDT is left out.
process_rsdt(k, rsdt, is_xsdt) ==
  LET words == rsdt.length - AcpiHeaderSize
      step == IF is_xsdt THEN 2 ELSE 1
      Address(n) == rsdt.entries[step * n - step + 1] + (IF is_xsdt THEN rsdt.entries[step * n] * ADDR_4GB ELSE 0)
  IN FoldLeft(LAMBDA seen, n : Then(seen, LAMBDA now : ProcessEntry(now, Address(n))),
              k, [n \in 1 .. words \div step |-> n])

map_acpi_tables(k, rsdp_paddr) ==
  LET rsdp == machine.firmware.low[rsdp_paddr]
      is_xsdt == rsdp.revision # ACPI_V1_REVISION
  IN With(map_rsdt(map_rsdp(k, rsdp_paddr)[1], IF is_xsdt THEN rsdp.xsdt ELSE rsdp.rsdt, is_xsdt), LAMBDA mapped, rsdt :
       IF rsdt = 0 THEN mapped ELSE process_rsdt(mapped, TableAt(mapped, rsdt), is_xsdt))

\* The entry of the MADT at an offset: {} when it is not wholly in the table.
MadtEntryAt(madt, offset) ==
  IF \/ offset + MadtEntryHeaderSize > madt.length
     \/ offset + madt.entries[offset].length > madt.length THEN {} ELSE {offset}

get_acpi_madt_first(madt) == IF madt = NoTable THEN {} ELSE MadtEntryAt(madt, MadtEntriesOffset)

get_acpi_madt_next(madt, current) == MadtEntryAt(madt, current + madt.entries[current].length)

RECURSIVE MadtEntryOfType(_, _, _)
MadtEntryOfType(madt, entry, type) ==
  IF \A offset \in entry : madt.entries[offset].type = type THEN entry
  ELSE MadtEntryOfType(madt, get_acpi_madt_next(madt, CHOOSE offset \in entry : TRUE), type)

get_acpi_madt_first_by_type(madt, type) == MadtEntryOfType(madt, get_acpi_madt_first(madt), type)

(***************************************************************************)
(* i686/firmware/acpi.c                                                    *)
(***************************************************************************)
scan_for_rsdp ==
  LET ebda == get_bios_ebda_addr
      near == IF ebda # 0 /\ ebda <= EBDA_END - KB THEN ScanRange(ebda, ebda + KB, validate_acpi_rsdp) ELSE PADDR_NULL
  IN IF near # PADDR_NULL THEN near ELSE ScanRange(RSDP_ROM, MEMORY_ADDR_1MB, validate_acpi_rsdp)

find_acpi_rsdp(k) == [k EXCEPT !.rsdp_paddr = scan_for_rsdp]

NoTables == [FACP |-> NoTable, APIC |-> NoTable, HPET |-> NoTable]

init_acpi(k) ==
  LET cleared == [k EXCEPT !.tables = NoTables]
  IN IF k.rsdp_paddr = PADDR_NULL THEN cleared ELSE map_acpi_tables(cleared, k.rsdp_paddr)

acpi_is_vga_present(k) == k.tables.FACP = NoTable \/ ~k.tables.FACP.vga_not_present

UNKNOWN_LOCAL_APIC_ADDR == -1

acpi_get_local_apic_address(k) ==
  LET madt == k.tables.APIC
      override == get_acpi_madt_first_by_type(madt, "LOCAL_APIC_ADDR_OVERRIDE")
  IN IF madt = NoTable THEN UNKNOWN_LOCAL_APIC_ADDR
     ELSE IF \E offset \in override : madt.entries[offset].addr # 0
            THEN madt.entries[CHOOSE offset \in override : TRUE].addr
     ELSE madt.lapic_addr

(***************************************************************************)
(* i686/firmware/mp.c                                                      *)
(***************************************************************************)
validate_pointer_structure(ptrst) == ptrst.signature = "_MP_" /\ ptrst.length = MpPointerSize /\ ptrst.sum

validate_configuration_table_header(table) ==
  /\ table.signature = "PCMP"
  /\ table.length \in MpHeaderSize .. MAXIMUM_TABLE_SIZE
  /\ table.revision \in {1, 4}

scan_for_pointer_structure ==
  LET ebda == get_bios_ebda_addr
      memtop == get_bios_base_memory_size
      near == IF ebda # 0 THEN ScanRange(ebda, ebda + KB, validate_pointer_structure)
              ELSE IF memtop # 0 THEN ScanRange(memtop - KB, memtop, validate_pointer_structure) ELSE PADDR_NULL
  IN IF near # PADDR_NULL THEN near ELSE ScanRange(MP_ROM, MEMORY_ADDR_1MB, validate_pointer_structure)

find_mp(k) == [k EXCEPT !.mp.ptrst_paddr = scan_for_pointer_structure]

map_pointer_structure(k) ==
  LET paddr == k.mp.ptrst_paddr
  IN IF paddr = PADDR_NULL THEN k
     ELSE map_in_kernel([k EXCEPT !.addrmap = machine_add_shared_to_address_map(@, paddr, MpPointerSize),
                                  !.mp.ptrst = machine.firmware.low[paddr]],
                        paddr, MpPointerSize, {"read"}, {})[1]

map_configuration_table(k) ==
  IF k.mp.ptrst = NoTable \/ k.mp.ptrst.addr = 0 THEN k
  ELSE With(map_in_kernel(k, k.mp.ptrst.addr, MpHeaderSize, {"read"}, {}), LAMBDA mapped, addr :
         LET table == TableAt(mapped, addr) IN
         IF mapped.panic # "none" THEN mapped
         ELSE IF ~validate_configuration_table_header(table) THEN undo_map_in_kernel(mapped)
         ELSE With(verify_acpi_checksum(resize_map_in_kernel(mapped, table.length), addr, table.length),
                   LAMBDA checked, valid :
                     IF ~valid THEN Then(checked, undo_map_in_kernel)
                     ELSE [checked EXCEPT !.mp.table = table,
                             !.addrmap = machine_add_shared_to_address_map(@, k.mp.ptrst.addr, table.length)]))

init_mp(k) == Then(map_pointer_structure(k), map_configuration_table)

mp_get_local_apic_addr(k) == IF k.mp.table = NoTable THEN UNKNOWN_LOCAL_APIC_ADDR ELSE k.mp.table.lapic_addr

(***************************************************************************)
(* i686/platform.c                                                         *)
(***************************************************************************)
platform_is_vga_present(k) == acpi_is_vga_present(k)

platform_get_local_apic_address(k) ==
  CASE acpi_get_local_apic_address(k) # UNKNOWN_LOCAL_APIC_ADDR -> acpi_get_local_apic_address(k)
    [] OTHER -> IF mp_get_local_apic_addr(k) # UNKNOWN_LOCAL_APIC_ADDR THEN mp_get_local_apic_addr(k)
                ELSE APIC_INIT_ADDR

\* QEMU does not describe its text mode when it loads the kernel by itself.
platform_get_video_type(k) ==
  CASE bi.video.type # "NONE" -> bi.video.type
    [] OTHER -> IF k.cpu_info.hypervisor = "QEMU" THEN "TEXT" ELSE "NONE"

=============================================================================
