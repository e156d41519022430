------------------------------- MODULE MCBoot -------------------------------
(***************************************************************************)
(* The machines that the boot is checked on. A byte of the model stands    *)
(* for many: a page is PAGE_SIZE = 8 of them, and the files are just long  *)
(* enough to cross pages where the real ones do.                           *)
(***************************************************************************)
EXTENDS Boot

(***************************************************************************)
(* Executables and the kernel image.                                       *)
(***************************************************************************)
Phdr(type, offset, vaddr, filesz, memsz, flags) ==
  [type |-> type, offset |-> offset, vaddr |-> vaddr, filesz |-> filesz, memsz |-> memsz, flags |-> flags]

KernelElf == [name |-> "kernel", valid |-> TRUE, size |-> 16, phoff |-> 1, entry |-> JINUE_KLIMIT + PAGE_SIZE + 3,
  phdrs |-> <<Phdr("LOAD", 0, JINUE_KLIMIT + PAGE_SIZE, 6, 6, {"R", "X"}),
              Phdr("LOAD", 8, JINUE_KLIMIT + 2 * PAGE_SIZE, 7, 7, {"R", "W"})>>]
LoaderElf == [name |-> "loader", valid |-> TRUE, size |-> 22, phoff |-> 1, entry |-> 1029,
  phdrs |-> <<Phdr("LOAD", 0, 1024, 12, 12, {"R", "X"}), Phdr("LOAD", 18, 1042, 4, 13, {"R", "W"}),
              Phdr("NOTE", 4, 0, 1, 1, {"R"})>>]
InitElf == [name |-> "init", valid |-> TRUE, size |-> 20, phoff |-> 1, entry |-> 1027,
  phdrs |-> <<Phdr("LOAD", 0, 1024, 12, 12, {"R", "X"}), Phdr("LOAD", 14, 1046, 5, 9, {"R", "W"})>>]
TestappElf == [name |-> "testapp", valid |-> TRUE, size |-> 14, phoff |-> 1, entry |-> 1026,
  phdrs |-> <<Phdr("LOAD", 0, 1024, 8, 8, {"R", "X"}), Phdr("LOAD", 8, 1032, 4, 4, {"R", "W"})>>]
Image == [kernel |-> KernelElf, loader |-> LoaderElf, kernel_start |-> MEMORY_ADDR_1MB + PAGE_SIZE,
          loader_start |-> MEMORY_ADDR_1MB + 3 * PAGE_SIZE, top |-> MEMORY_ADDR_1MB + 6 * PAGE_SIZE]

(***************************************************************************)
(* CPUs and memory.                                                        *)
(***************************************************************************)
Cpu(basic, extended, sig) ==
  [cpuid |-> "supported", signature |-> sig, max_basic |-> 1, max_extended |-> 8,
   basic |-> {"APIC", "FPU"} \cup basic, extended |-> extended,
   version |-> [family |-> 6, model |-> 4, stepping |-> 1, ext_family |-> 0, ext_model |-> 0],
   soft_max |-> 1, soft_signature |-> "none", brand |-> <<" ", "C">>, clflush |-> 8, physbits |-> 36]
Cpus == {Cpu({"PSE", "PAE", "PGE", "PAT", "SEP"}, {"NX"}, "GenuineIntel"), Cpu({"PSE"}, {}, "GenuineIntel"),
  Cpu({"PAE"}, {"SYSCALL"}, "AuthenticAMD"), Cpu({}, {}, "other")}
OtherCpus == {[Cpu({}, {}, "other") EXCEPT !.cpuid = "cyrix"], [Cpu({}, {}, "other") EXCEPT !.cpuid = "none"],
  [Cpu({}, {}, "other") EXCEPT !.max_basic = 0], [Cpu({}, {}, "AuthenticAMD") EXCEPT !.basic = {"FPU"}],
  [Cpu({"PSE", "PAE", "FXSR", "SSE"}, {"NX"}, "HygonGenuine") EXCEPT !.soft_signature = "TCGTCGTCGTCG"],
  [Cpu({"SEP", "CLFLUSH"}, {}, "GenuineIntel") EXCEPT !.version.model = 1, !.soft_max = 0, !.soft_signature = "KVMKVMKVM"],
  [Cpu({"SEP", "PSE"}, {}, "CyrixInstead") EXCEPT !.version.family = 15, !.version.ext_family = 1, !.max_extended = 0]}
RamdiskStart == 2240
AddrMap0 == <<MapEntry("MEMORY", 0, 10), MapEntry("RESERVED", 10, 6), MapEntry("MEMORY", 16, 2544)>>

\* The range that is left to the loader ends at `top`.
SmallRam(top) ==
  <<MapEntry("MEMORY", 0, 10), MapEntry("RESERVED", 10, 6), MapEntry("MEMORY", 16, top - 16)>>
HoleInRam == <<MapEntry("MEMORY", 0, 10), MapEntry("MEMORY", 16, 2544), MapEntry("ACPI", 2003, 30),
               MapEntry("OEM_DEFINED", 1100, 3), MapEntry("UNKNOWN", 2559, 1)>>
LargeRam == AddrMap0 \o <<MapEntry("MEMORY", ADDR_4GB + 3, 3000), MapEntry("MEMORY", 2 * ADDR_4GB, 700)>>
\* Cut in a short part and one of more than 4GB.
HugeRam == SmallRam(1200) \o <<MapEntry("MEMORY", ADDR_4GB + 3, ADDR_4GB + 2000), MapEntry("RESERVED", ADDR_4GB + 1500, 5)>>
NoRamAt16MB == <<MapEntry("MEMORY", 0, 10), MapEntry("MEMORY", 16, 600)>>

(***************************************************************************)
(* Firmware.                                                               *)
(***************************************************************************)
NoFirmware == [ebda |-> 0, base_memory |-> 0, low |-> [a \in {} |-> 0], tables |-> [a \in {} |-> 0]]
Rsdp(revision) == [signature |-> "RSD PTR ", sum |-> TRUE, revision |-> revision, sum_v2 |-> TRUE,
                   rsdt |-> 2560, xsdt |-> 2562]
MpPointer(addr) == [signature |-> "_MP_", length |-> MpPointerSize, sum |-> TRUE, addr |-> addr]
Madt(length, override) ==
  [signature |-> "APIC", length |-> length, sum |-> TRUE, lapic_addr |-> 8008,
   entries |-> (3 :> [type |-> "LOCAL_APIC", length |-> 1, addr |-> 0]
                @@ 4 :> [type |-> override, length |-> 1, addr |-> 8016]
                @@ 5 :> [type |-> "LOCAL_APIC_ADDR_OVERRIDE", length |-> 2, addr |-> 8024])]
Tables(novga, sum, madt) ==
  2560 :> [signature |-> "RSDT", length |-> 6, sum |-> sum, entries |-> <<2568, 2576, 2584, 2592>>]
  @@ 2562 :> [signature |-> "XSDT", length |-> 6, sum |-> sum, entries |-> <<2568, 0, 2576, 0>>]
  @@ 2568 :> [signature |-> "FACP", length |-> 4, sum |-> TRUE, vga_not_present |-> novga]
  @@ 2576 :> madt
  @@ 2584 :> [signature |-> "HPET", length |-> 4, sum |-> FALSE]
  @@ 2592 :> [signature |-> "SSDT", length |-> 2, sum |-> TRUE]
  @@ 2600 :> [signature |-> "PCMP", length |-> 2, sum |-> TRUE, revision |-> 4, lapic_addr |-> 8032]
  @@ 2608 :> [signature |-> "PCMP", length |-> 3, sum |-> FALSE, revision |-> 1, lapic_addr |-> 8040]
Firmware0(ebda, memory, low, tables) == [ebda |-> ebda, base_memory |-> memory, low |-> low, tables |-> tables]
Firmwares ==
  {Firmware0(9, 0, 9 :> Rsdp(2), Tables(FALSE, TRUE, Madt(5, "LOCAL_APIC_ADDR_OVERRIDE"))),
   Firmware0(0, 0, 14 :> Rsdp(0) @@ 15 :> MpPointer(2600), Tables(TRUE, TRUE, Madt(6, "IO_APIC"))),
   Firmware0(7, 10, 14 :> Rsdp(1) @@ 9 :> MpPointer(2600), Tables(FALSE, TRUE, Madt(5, "IO_APIC"))),
   Firmware0(8, 0, 8 :> [Rsdp(0) EXCEPT !.sum = FALSE] @@ 15 :> MpPointer(2608), Tables(FALSE, TRUE, Madt(3, "IO_APIC"))),
   Firmware0(0, 0, 14 :> Rsdp(0), Tables(FALSE, FALSE, Madt(3, "IO_APIC"))),
   Firmware0(0, 0, 14 :> Rsdp(0), Tables(FALSE, TRUE, Madt(9, "IO_APIC"))),
   Firmware0(0, 0, 15 :> MpPointer(0), Tables(FALSE, TRUE, Madt(3, "IO_APIC")))}

(***************************************************************************)
(* Video.                                                                  *)
(***************************************************************************)
Vga == [type |-> "VGA", mode |-> 3]
Vlfb(type, depth, base, size, width) ==
  [type |-> type, lfb_depth |-> depth, lfb_width |-> width, lfb_height |-> 2, lfb_linelength |-> 3 * width,
   lfb_base |-> base, base64 |-> type = "EFI", ext_lfb_base |-> 0, lfb_size |-> size,
   red_size |-> 8, green_size |-> 8, blue_size |-> 8, red_pos |-> 16, green_pos |-> 8, blue_pos |-> 0]
Screens == {Vlfb("VLFB", 24, 7680, 1, 4), Vlfb("EFI", 32, 7300, 60, 4), Vlfb("VLFB", 16, 7680, 1, 4),
            Vlfb("EFI", 24, 7300, 20, 4), Vlfb("EFI", 24, 7300, 200, 16), [type |-> "VGA", mode |-> 1], [type |-> "other"]}

(***************************************************************************)
(* RAM disks.                                                              *)
(***************************************************************************)
Header0 == [name |-> <<>>, prefix |-> <<>>, ustar |-> TRUE, sum |-> TRUE, typeflag |-> "REGTYPE", size |-> 0,
            link |-> <<>>, uid |-> 0, gid |-> 1, mode |-> {"UREAD"}, major |-> 4, minor |-> 5]
Record(h) == << <<"header", h>> >>
Special(name, type) == Record([Header0 EXCEPT !.name = name, !.typeflag = type])
Contents(elf) == [i \in 1 .. elf.size |-> <<elf.name, i - 1>>]
File(name, elf) == Record([Header0 EXCEPT !.name = name, !.size = elf.size]) \o Contents(elf)
OldFile(name, elf) == Record([Header0 EXCEPT !.name = name, !.size = elf.size, !.ustar = FALSE,
                                             !.typeflag = "AREGTYPE"]) \o Contents(elf)
Prefixed(prefix, name, elf) == Record([Header0 EXCEPT !.prefix = prefix, !.name = name, !.size = elf.size]) \o Contents(elf)
Symlink(name, link) == Record([Header0 EXCEPT !.name = name, !.typeflag = "SYMTYPE", !.link = link])
Trailer == <<Zero, Zero>>
InitFile == File(<<"sbin", "/", "init">>, InitElf)
TestappFile == File(<<".", "/", "sbin", "/", "testapp">>, TestappElf)

Archive0 == Special(<<"sbin", "/">>, "DIRTYPE") \o InitFile \o TestappFile \o Symlink(<<"lnk">>, <<"sbin">>)
            \o Special(<<"etc">>, "DIRTYPE") \o Special(<<"hard">>, "LNKTYPE") \o Trailer
Archives ==
  {Special(<<".", "/">>, "DIRTYPE") \o Special(<<"tty">>, "CHRTYPE") \o Special(<<"/", "/", "sda">>, "BLKTYPE")
     \o Special(<<".", "hidden">>, "FIFOTYPE") \o OldFile(<<"sbin", "/", "init">>, InitElf)
     \o Prefixed(<<"sbin">>, <<".", "/", "testapp">>, TestappElf)
     \o File(<<".", ".", ".", "/", "e">>, [name |-> "empty", size |-> 0]) \o Trailer,
   Record([Header0 EXCEPT !.name = <<"old", "/">>, !.ustar = FALSE]) \o TestappFile \o InitFile
     \o Symlink(<<"a", "/", "long", "name", "of", "a", "link", "that", "fills", "an", "area", "of", "strings">>,
                <<"to", "a", "long", "name", "that", "fills", "an", "area", "of", "strings", "too">>)
     \o Symlink(<<"b">>, <<"c">>) \o Trailer}
BadArchives ==
  {InitFile \o Special(<<"a", "/", ".", ".", "/", "b">>, "DIRTYPE") \o Trailer,
   InitFile \o Special(<<"a", ":">>, "FIFOTYPE") \o Trailer,
   InitFile \o Special(<<"pax">>, "PAX") \o Trailer,
   InitFile \o Record([Header0 EXCEPT !.name = <<"x">>, !.sum = FALSE]) \o Trailer,
   InitFile \o Special(<<".">>, "FIFOTYPE") \o Trailer,
   Record([Header0 EXCEPT !.typeflag = "DIRTYPE"]) \o Trailer,
   Trailer,
   TestappFile \o Trailer,
   InitFile \o Trailer,
   Special(<<"sbin", "/", "init">>, "DIRTYPE") \o Trailer,
   InitFile,
   InitFile \o Special(<<"sbin", "/", "testapp">>, "DIRTYPE") \o Trailer,
   InitFile \o <<Zero>>}
RamdiskOf(format, archive, readable) == [format |-> format, archive |-> archive, readable |-> readable]

(***************************************************************************)
(* Command lines: arguments and options, and how they are written.         *)
(***************************************************************************)
Argument(name, quoted) == [kind |-> "argument", name |-> name, quoted |-> quoted]
Option(name, value, quoted) == [kind |-> "option", name |-> name, value |-> value, quoted |-> quoted]
Dashes == [kind |-> "dashes", name |-> <<"-", "-">>, quoted |-> FALSE]
Quoted(text, quoted) == IF quoted THEN <<QUOTE>> \o text \o <<QUOTE>> ELSE text
Written(p) == IF p.kind = "option" THEN p.name \o <<"=">> \o Quoted(p.value, p.quoted) ELSE Quoted(p.name, p.quoted)
Line(parameters, separator) ==
  FlattenSeq([i \in DOMAIN parameters |-> (IF i = 1 THEN <<>> ELSE <<separator>>) \o Written(parameters[i])])

Parameters ==
  {Argument(<<"a">>, FALSE), Argument(<<"-", "v">>, FALSE), Argument(<<"x", " ", "y">>, TRUE), Argument(<<>>, TRUE),
   Option(<<"b">>, <<>>, FALSE), Option(<<"b">>, <<"c", "=", "d">>, FALSE), Option(<<"e">>, <<" ", "-">>, TRUE),
   Option(<<"on", "-", "panic">>, <<"reboot">>, FALSE), Dashes}
Lines ==
  {<<p, q>> : p \in Parameters, q \in Parameters}
  \cup {<<>>, <<Argument(<<"a">>, FALSE), Dashes, Option(<<"b">>, <<"c">>, FALSE), Argument(<<"-">>, TRUE)>>,
        <<Option(<<"init">>, <<"/", "sbin", "/", "testapp">>, FALSE)>>,
        <<Option(<<"init">>, <<"/", "none">>, TRUE)>>, <<Option(<<"init">>, <<>>, FALSE)>>,
        <<Option(<<"nx">>, <<"require">>, FALSE), Option(<<"vga", "_", "enable">>, <<"no">>, FALSE)>>,
        <<Option(<<"serial", "-", "enable">>, <<"true">>, FALSE), Option(<<"serial", "_", "ioport">>, <<"0", "9">>, FALSE)>>,
        <<Option(<<"serial", "_", "dev">>, <<"com", "2">>, TRUE)>>,
        <<Option(<<"serial", "_", "baud", "_", "rate">>, <<"9", "6", "0", "0">>, FALSE)>>}

\* Lines that the kernel reports.
Texts ==
  {<<QUOTE, "a">>, <<"b", "=", QUOTE, "c">>, <<QUOTE, "a", QUOTE, "b">>, <<"-", "-", " ", QUOTE, "a", QUOTE, "b">>,
   <<"-", "-", " ", "a", "=", QUOTE, "b">>, <<"-", "-", " ", "a", "=", QUOTE, "b", QUOTE, "c">>,
   <<"on", "_", "panic", "=", "x">>, <<"nx", "=", "no">>, <<"serial", "_", "enable", "=", "x">>,
   <<"serial", "_", "ioport", "=", "x">>, <<"serial", "_", "dev", "=", "x">>, <<"serial", "_", "baud", "_", "rate", "=", "1">>,
   <<"vga", "_", "enable", "=", "2">>, [i \in 1 .. 30 |-> "a"], [i \in 1 .. 50 |-> IF i % 2 = 0 THEN " " ELSE "a"]}

(***************************************************************************)
(* Machines: one thing at a time.                                          *)
(***************************************************************************)
Best == Cpu({"PSE", "PAE", "PGE", "PAT", "SEP"}, {"NX"}, "GenuineIntel")

Base ==
  [cpu |-> Best, image |-> Image, firmware |-> NoFirmware, lapic_version |-> 20,
   ramdisk |-> RamdiskOf("raw", Archive0, Len(Archive0)),
   elf |-> [loader |-> LoaderElf, init |-> InitElf, testapp |-> TestappElf],
   parameters |-> <<Argument(<<"a">>, FALSE), Option(<<"b">>, <<"c">>, FALSE)>>,
   params |-> [addr_map |-> AddrMap0, cmdline |-> [null |-> FALSE, text |-> <<"a", " ", "b", "=", "c">>],
     ramdisk_start |-> RamdiskStart, ramdisk_size |-> Len(Archive0), signature |-> "HdrS", screen |-> Vga]]

WithLine(parameters, separator) ==
  [Base EXCEPT !.parameters = parameters, !.params.cmdline.text = Line(parameters, separator)]
WithArchive(format, archive, readable) ==
  [Base EXCEPT !.ramdisk = RamdiskOf(format, archive, readable), !.params.ramdisk_size = Len(archive)]
WithMap(map, start) == [Base EXCEPT !.params.addr_map = map, !.params.ramdisk_start = start]

\* Each group varies one feature of the machine, some with the CPU; their product is far out of reach.
Scn ==
  {[Base EXCEPT !.cpu = c, !.ramdisk.format = f] : c \in Cpus, f \in {"raw", "gzip", "bzip2"}}
  \cup {[Base EXCEPT !.cpu = c] : c \in OtherCpus}
  \cup {[Base EXCEPT !.firmware = f, !.cpu = c] : f \in Firmwares, c \in {Best, Cpu({}, {}, "other")}}
  \cup {[Base EXCEPT !.params.screen = screen, !.cpu = c] : screen \in Screens, c \in Cpus}
  \cup {WithMap(map, start) : map \in {HoleInRam, LargeRam, NoRamAt16MB}, start \in {RamdiskStart, 1040, 900, 0}}
  \cup {WithMap(HugeRam, 1024)}
  \cup {[WithMap(SmallRam(1080 + 16 * i), 1024) EXCEPT !.ramdisk.format = "gzip"] : i \in 0 .. 60}
  \cup {WithArchive(f, a, Len(a)) : f \in {"raw", "gzip", "bzip2"}, a \in Archives}
  \cup {WithArchive(f, a, Len(a)) : f \in {"raw", "gzip"}, a \in BadArchives}
  \cup {WithArchive(f, Archive0, n) : f \in {"gzip", "bzip2"}, n \in {0, 1, 10, 30}}
  \cup {WithLine(line, " ") : line \in Lines}
  \cup {WithLine(<<p, Argument(<<"a">>, FALSE)>>, TAB) : p \in Parameters}
  \cup {[Base EXCEPT !.params.cmdline.text = text] : text \in Texts}
  \cup {[Base EXCEPT !.lapic_version = 1], [Base EXCEPT !.params.signature = "none"],
        [Base EXCEPT !.params.cmdline = [null |-> TRUE, text |-> <<>>], !.parameters = <<>>]}
=============================================================================
