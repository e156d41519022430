---------------------------- MODULE KernelInit ----------------------------
(***************************************************************************)
(* The kernel from kmain() to the thread it starts                         *)
(* (kernel/application/kmain.c, infrastructure/i686/init.c, percpu.c,      *)
(* drivers).  Every function takes the record k of the kernel's static     *)
(* variables and returns it changed; k.panic tells whether it panicked.    *)
(***************************************************************************)
EXTENDS Firmware

CONSTANTS
  PercpuSize, PERCPU_DATA_ALIGNMENT,
  FONT_WIDTH, FONT_HEIGHT,
  VGA_TEXT_VID_BASE, VGA_TEXT_VID_TOP,
  FramebufferMax,       \* the 128MB that init_video_framebuffer() allows
  ElfHeaderSize

VARIABLE k

InitialKernel ==
  [panic |-> "none", pt |-> <<>>, cpu_info |-> NoCpuInfo,
   parse |-> [config |-> apply_config_defaults, errors |-> {}],
   regions |-> InitialRegions, latest |-> NoMapping, addrmap |-> <<>>,
   rsdp_paddr |-> PADDR_NULL, tables |-> NoTables,
   mp |-> [ptrst_paddr |-> PADDR_NULL, ptrst |-> NoTable, table |-> NoTable],
   alloc |-> [heap_ptr |-> 0, current_page |-> 0, page_limit |-> 0, panic |-> FALSE],
   uart |-> {}, readers |-> <<>>, percpu |-> 0, gdt |-> {}, user_gates |-> {}, frames |-> <<>>, pages |-> <<>>,
   process |-> [p \in {} |-> 0], mem |-> [f \in {} |-> 0],
   pic |-> <<>>, timer |-> 0, pat |-> FALSE, pge |-> FALSE, syscall_implementation |-> "none",
   lapic |-> [mmio |-> 0, enabled |-> FALSE, divider |-> 0, vector |-> 0, initial_count |-> 0]]

Config == k.parse.config.machine

\* The boot allocator panics by itself.
WithAlloc(kk, alloc) == IF alloc.panic THEN Panic(kk, "boot allocations limit reached") ELSE [kk EXCEPT !.alloc = alloc]

(***************************************************************************)
(* Drivers.                                                                *)
(***************************************************************************)
register_log_reader(kk, reader) == [kk EXCEPT !.readers = Append(@, reader)]

init_uart16550a(kk) ==
  LET config == kk.parse.config.machine
  IN IF ~config.serial_enable THEN kk
     ELSE register_log_reader(
            [kk EXCEPT !.uart = {[port |-> config.serial_ioport, divisor |-> 115200 \div config.serial_baud_rate]}],
            "uart")

vga_init(kk) ==
  IF ~kk.parse.config.machine.vga_enable \/ ~platform_is_vga_present(kk) \/ platform_get_video_type(kk) # "TEXT"
    THEN kk
    ELSE Then(map_in_kernel(kk, VGA_TEXT_VID_BASE, VGA_TEXT_VID_TOP - VGA_TEXT_VID_BASE,
                            {"read", "write"}, {"uncacheable"})[1],
              LAMBDA now : register_log_reader(now, "vga"))

\* The format that decides is the one of the driver's own configuration, RGB888 until
\* it is initialized.
map_bpp(fb_format) == fb_format[2] \div 8

FormatBeforeConfig == <<"RGB", 24>>

allocate_console(kk, width, height) ==
  LET pages == boot_page_alloc_n(kk.alloc, NUM_PAGES(2 * width * height))
  IN WithAlloc(kk, pages[1])

\* Where the CPU finds the first byte of a large page mapping.
LargePageMapped(kk, addr) ==
  LET directory == kk.pt[page_number_of(VIRT_TO_PHYS_AT_16MB(bi.page_directory))]
  IN IF InLargePagesArea(kk, addr)
       THEN "present" \in directory[(page_number_of(addr) \div Ptes(bi)) % Ptes(bi)].flags
       ELSE Readable(kk, addr, 1)

clear_framebuffer(kk, base_addr) == IF LargePageMapped(kk, base_addr) THEN kk ELSE Panic(kk, "page fault")

init_video_framebuffer(kk) ==
  LET video == bi.video
      mapping_size == video.height * video.pitch
      mapped == map_in_kernel(kk, video.addr, video.size, {"read", "write"}, {"write_combine", "large_pages"})
  IN IF \/ ~kk.parse.config.machine.vga_enable \/ ~platform_is_vga_present(kk)
        \/ platform_get_video_type(kk) # "FRAMEBUFFER" THEN kk
     ELSE IF \/ video.pitch < video.width * map_bpp(FormatBeforeConfig)
             \/ video.size < mapping_size
             \/ video.addr > ADDR_4GB /\ ~UsePae(bi)
             \/ mapping_size > FramebufferMax THEN kk
     ELSE Then(Then(Then(mapped[1], LAMBDA now : clear_framebuffer(now, mapped[2])),
                    LAMBDA now : allocate_console(now, video.width \div FONT_WIDTH, video.height \div FONT_HEIGHT)),
               LAMBDA now : register_log_reader(now, "videofb"))

IDT_PIC8259_BASE == 32
IDT_APIC_TIMER == 254
IRQ_PROXIED_FIRST == 8
PIC8259_CASCADE_INPUT == 2

\* Vectors of the interrupt requests, and those that are not masked.
pic8259_init(kk) ==
  [kk EXCEPT !.pic = [main |-> [irq_base |-> IDT_PIC8259_BASE, unmasked |-> {PIC8259_CASCADE_INPUT}],
                      proxied |-> [irq_base |-> IDT_PIC8259_BASE + IRQ_PROXIED_FIRST, unmasked |-> {}]]]

TICKS_PER_SECOND == 1000

pit8253_init(kk) == [kk EXCEPT !.timer = (1193182 + TICKS_PER_SECOND \div 2) \div TICKS_PER_SECOND]

map_registers(kk) ==
  LET paddr == platform_get_local_apic_address(kk)
      mapped == map_in_kernel(kk, paddr, PAGE_SIZE, {"read", "write"}, {"uncacheable"})
  IN Then([mapped[1] EXCEPT !.lapic.mmio = mapped[2]],
          LAMBDA now : [now EXCEPT !.addrmap = machine_add_reserved_to_address_map(@, paddr, PAGE_SIZE)])

check_version(kk) == IF machine.lapic_version < 16 THEN Panic(kk, "Local APIC version") ELSE kk

set_divider(kk, divider) ==
  IF divider \notin {1, 2, 4, 8, 16, 32, 64, 128} THEN Panic(kk, "Invalid value for local APIC timer divider")
  ELSE [kk EXCEPT !.lapic.divider = divider]

init_timer(kk) ==
  Then(set_divider(kk, 1),
       LAMBDA now : [now EXCEPT !.lapic.vector = IDT_APIC_TIMER,
                                !.lapic.initial_count = (1000000000 \div TICKS_PER_SECOND) - 1])

local_apic_init(kk) ==
  Then(Then(map_registers(kk), check_version), LAMBDA now : init_timer([now EXCEPT !.lapic.enabled = TRUE]))

(***************************************************************************)
(* pmap.c, percpu.c, init.c                                                *)
(***************************************************************************)
initialize_pat(kk) == [kk EXCEPT !.pat = cpu_has_feature(kk.cpu_info, {"PAT"})]

pmap_init(kk) == [initialize_pat(kk) EXCEPT !.pge = cpu_has_feature(kk.cpu_info, {"PGE"})]

set_normal_segment(gdt, index, type) == gdt \cup {<<index, type, 0>>}

initialize_gdt(percpu) ==
  set_normal_segment(set_normal_segment(set_normal_segment(set_normal_segment(
      {<<"TSS", "tss", percpu>>, <<"PER_CPU_DATA", "data kernel", percpu>>, <<"USER_TLS_DATA", "data user", 0>>},
      "KERNEL_CODE", "code kernel"), "KERNEL_DATA", "data kernel"), "USER_CODE", "code user"), "USER_DATA", "data user")

init_percpu_data(kk, percpu) == [kk EXCEPT !.percpu = percpu, !.gdt = initialize_gdt(percpu)]

JINUE_I686_SYSCALL_INTERRUPT == 128

\* Only the gate for system calls can be called from user space.
init_idt(kk) == [kk EXCEPT !.user_gates = {JINUE_I686_SYSCALL_INTERRUPT}]

check_pae(kk) ==
  IF cpu_has_feature(kk.cpu_info, {"NX"}) \/ kk.parse.config.machine.nx # "require" THEN kk
  ELSE Panic(kk, "nx=require")

\* elf_check(), by what its conditions decide.
elf_check(elf) == elf.valid /\ elf.phdrs # <<>> /\ elf.entry # 0

get_kernel_exec_file(kk) ==
  IF bi.kernel_start = 0 \/ machine.image.kernel.size < ElfHeaderSize \/ ~elf_check(machine.image.kernel)
    THEN Panic(kk, "kernel ELF binary is invalid") ELSE kk

get_loader_elf(kk) ==
  IF bi.loader_start = 0 \/ machine.image.loader.size < ElfHeaderSize
    THEN Panic(kk, "malformed boot image: no user space loader") ELSE kk

get_ramdisk(kk) ==
  IF bi.ramdisk_start = 0 \/ bi.ramdisk_size = 0 THEN Panic(kk, "No initial RAM disk loaded.") ELSE kk

\* Pages are freed from the lowest to the highest: the free list has the highest first.
RECURSIVE initialize_page_allocator(_)
initialize_page_allocator(kk) ==
  IF boot_page_alloc_is_empty(kk.alloc) THEN kk
  ELSE LET page == boot_page_alloc(kk.alloc)
       IN initialize_page_allocator([kk EXCEPT !.alloc = page[1], !.pages = <<page[2]>> \o @])

page_alloc(kk) == IF kk.pages = <<>> THEN <<kk, 0>> ELSE <<[kk EXCEPT !.pages = Tail(@)], Head(kk.pages)>>

select_syscall_implementation(kk) ==
  [kk EXCEPT !.syscall_implementation =
     IF cpu_has_feature(kk.cpu_info, {"SYSCALL"}) THEN "fast_amd"
     ELSE IF cpu_has_feature(kk.cpu_info, {"SYSENTER"}) THEN "fast_intel" ELSE "interrupt"]

(***************************************************************************)
(* kmain(): one action for each of the functions it calls.                 *)
(***************************************************************************)
AcpiMap == ram[VIRT_TO_PHYS_AT_16MB(bi.acpi_addr_map)]
CommandLine == ram[VIRT_TO_PHYS_AT_16MB(bi.cmdline)]

\* kmain goes on with the next function, or the kernel has panicked.
KernelStep(from, to, result) ==
  /\ pc = from
  /\ k' = result
  /\ pt' = result.pt
  /\ pc' = IF result.panic = "none" THEN to ELSE "panic"
  /\ UNCHANGED <<machine, cpu, bi, pdpt, ram>>

ParseOptions ==
  KernelStep("kmain", "check_bootinfo",
             [InitialKernel EXCEPT !.pt = pt, !.parse = cmdline_parse_options(apply_config_defaults, CommandLine)])

CheckBootinfo ==
  KernelStep("check_bootinfo", "detect_bsp_features",
             IF check_bootinfo(bi) THEN init_uart16550a(k) ELSE Panic(init_uart16550a(k), "bootinfo"))

DetectProcessor ==
  KernelStep("detect_bsp_features", "find_firmware",
    LET detected == DetectBspFeatures(bi, machine.cpu)
        known == [k EXCEPT !.cpu_info = detected[1]]
    IN IF detected[2] = "panic" THEN Panic(known, "unsupported CPU") ELSE pmap_init(known))

\* The first megabyte is mapped for the scans and unmapped after them; its place in
\* the mapping area is not given back.
FindFirmware ==
  KernelStep("find_firmware", "init_acpi",
    LET mapped == map_in_kernel(k, 0, MEMORY_ADDR_1MB, {"read"}, {})
        found == Then(mapped[1], LAMBDA now : find_mp(find_acpi_rsdp(now)))
    IN Then(found, LAMBDA now : machine_unmap_kernel(now, mapped[2], MEMORY_ADDR_1MB)))

InitAcpi == KernelStep("init_acpi", "init_video", init_acpi([k EXCEPT !.addrmap = initialize_address_map(bi, AcpiMap)]))

InitVideo ==
  KernelStep("init_video", "report_errors",
    Then(vga_init(k), LAMBDA now : init_video_framebuffer([now EXCEPT !.alloc = boot_alloc_init(bi)])))

ReportErrors ==
  KernelStep("report_errors", "init_mp",
    IF cmdline_report_errors(k.parse) = "panic" THEN Panic(k, "There are issues with the kernel command line.")
    ELSE check_pae(k))

InitMp == KernelStep("init_mp", "check_system_address_map", init_mp(k))

CheckSystemAddressMap ==
  KernelStep("check_system_address_map", "init_percpu",
             IF check_system_address_map(bi, AcpiMap) THEN k ELSE Panic(k, "address map"))

InitPercpu ==
  KernelStep("init_percpu", "init_pages",
    LET percpu == boot_heap_alloc_size(k.alloc, PercpuSize, PERCPU_DATA_ALIGNMENT)
    IN init_idt(init_percpu_data([k EXCEPT !.alloc = percpu[1]], percpu[2])))

InitPages ==
  KernelStep("init_pages", "init_interrupts",
    LET array == initialize_page_frames_array(k.alloc, AcpiMap)
        framed == Then(WithAlloc(k, array[1]), LAMBDA now : [now EXCEPT !.frames = array[2]])
    IN Then(Then(framed, get_kernel_exec_file), initialize_page_allocator))

InitInterrupts ==
  KernelStep("init_interrupts", "exec",
    Then(Then(local_apic_init(pit8253_init(pic8259_init(k))), select_syscall_implementation), get_ramdisk))

KernelInitNext ==
  \/ ParseOptions \/ CheckBootinfo \/ DetectProcessor \/ FindFirmware \/ InitAcpi \/ InitVideo
  \/ ReportErrors \/ InitMp \/ CheckSystemAddressMap \/ InitPercpu \/ InitPages \/ InitInterrupts

=============================================================================
