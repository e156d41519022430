------------------------------ MODULE CpuInfo ------------------------------
(***************************************************************************)
(* What the kernel finds out about the processor it boots on               *)
(* (kernel/infrastructure/i686/cpuinfo.c, cpuidsig.c).                     *)
(*                                                                         *)
(* A processor is a record of what its cpuid instruction returns: the      *)
(* highest basic and extended leafs, the feature flags of each as a set,   *)
(* the fields of the version number, the vendor's and the hypervisor's     *)
(* signatures and the characters of the brand string.                      *)
(***************************************************************************)
EXTENDS Integers, Sequences, FiniteSets

\* The first entry of the mapping that matches.
map_cpuid_signature(signature, mapping) ==
  LET matches == {i \in DOMAIN mapping : mapping[i][2] \in {signature, "ANY"}}
  IN mapping[CHOOSE i \in matches : \A j \in matches : i <= j][1]

enumerate_bootinfo_features(b) ==
  [vendor |-> b.cpu_vendor, features |-> b.features \cap {"CPUID", "NX", "PAE", "PSE"}]

\* A leaf that is not supported reads as zeroes.  An old KVM host leaves the highest
\* hypervisor leaf at zero.
get_cpuid_leafs(processor) ==
  LET extended == IF processor.max_basic < 1 THEN 0 ELSE processor.max_extended
      kvm == processor.soft_max = 0 /\ processor.soft_signature = "KVMKVMKVM"
  IN [basic1 |-> IF processor.max_basic < 1 THEN {} ELSE processor.basic,
      version |-> IF processor.max_basic < 1 THEN [family |-> 0, model |-> 0, stepping |-> 0,
                                                   ext_family |-> 0, ext_model |-> 0]
                  ELSE processor.version,
      ext1 |-> IF extended >= 1 THEN processor.extended ELSE {},
      brand |-> IF extended >= 4 THEN processor.brand ELSE <<>>,
      ext4_valid |-> extended >= 4,
      ext8_valid |-> extended >= 8,
      soft0_valid |-> processor.max_basic >= 1 /\ (kvm \/ processor.soft_max = 1)]

identify_model(info, leafs) ==
  LET v == leafs.version IN
  [info EXCEPT !.family = v.family + (IF v.family = 15 THEN v.ext_family ELSE 0),
               !.model = v.model + (IF v.family \in {6, 15} THEN 16 * v.ext_model ELSE 0),
               !.stepping = v.stepping]

AddFeature(info, feature) == [info EXCEPT !.features = @ \cup {feature}]

\* A Pentium Pro reports SYSENTER and does not have it.
detect_sysenter_instruction(info, leafs) ==
  IF \/ "SEP" \notin leafs.basic1
     \/ info.vendor = "INTEL" /\ info.family = 6 /\ info.model < 3 /\ info.stepping < 3
    THEN info ELSE AddFeature(info, "SYSENTER")

detect_syscall_instruction(info, leafs) ==
  IF info.vendor \in {"AMD", "HYGON"} /\ "SYSCALL" \in leafs.ext1 THEN AddFeature(info, "SYSCALL") ELSE info

enumerate_features(info, leafs) ==
  LET simple == leafs.basic1 \cap {"APIC", "FPU", "PAT", "PGE", "FXSR"}
      sse == IF "FXSR" \in leafs.basic1 THEN leafs.basic1 \cap {"SSE"} ELSE {}
      flags == [info EXCEPT !.features = @ \cup simple \cup sse]
  IN detect_syscall_instruction(detect_sysenter_instruction(flags, leafs), leafs)

identify_hypervisor(info, leafs, processor) ==
  [info EXCEPT !.hypervisor =
     IF ~leafs.soft0_valid THEN "NONE"
     ELSE map_cpuid_signature(processor.soft_signature,
            << <<"ACRN", "ACRNACRNACRN">>, <<"BHYVE", "bhyve bhyve ">>, <<"KVM", "KVMKVMKVM">>,
               <<"QEMU", "TCGTCGTCGTCG">>, <<"VMWARE", "VMwareVMware">>, <<"XEN", "XenVMMXenVMM">>,
               <<"UNKNOWN", "ANY">> >>)]

\* Blanks become one space, none at the start; what is not printable is dropped.  A
\* blank that is pending at the end is written.
RECURSIVE CleanFrom(_, _, _)
CleanFrom(text, state, written) ==
  LET pending == IF state = "SPACE" THEN Append(written, " ") ELSE written
  IN IF text = <<>> THEN pending
     ELSE CASE Head(text) \in {" ", "\t"} ->
                 CleanFrom(Tail(text), IF state = "IDLE" THEN "SPACE" ELSE state, written)
            [] Head(text) = "unprintable" -> CleanFrom(Tail(text), state, written)
            [] OTHER -> CleanFrom(Tail(text), "IDLE", Append(pending, Head(text)))

clean_brand_string(text) == CleanFrom(text, "START", <<>>)

get_brand_string(info, leafs) ==
  [info EXCEPT !.brand_string = IF leafs.ext4_valid THEN clean_brand_string(leafs.brand) ELSE <<>>]

identify_dcache_alignment(info, leafs, processor) ==
  [info EXCEPT !.dcache_alignment = IF "CLFLUSH" \in leafs.basic1 THEN processor.clflush * 8 ELSE 32]

identify_maxphyaddr(info, leafs, processor) ==
  [info EXCEPT !.maxphyaddr = IF "PAE" \notin info.features THEN 32
                              ELSE IF ~leafs.ext8_valid THEN 36 ELSE processor.physbits]

detect_cve2018_3665(info) ==
  IF /\ info.vendor = "INTEL" /\ info.family >= 6
     /\ info.family > 6 \/ info.model \notin {28, 38, 39, 53, 54}
    THEN [info EXCEPT !.workarounds = @ \cup {"CVE2018_3665"}] ELSE info

identify_workarounds(info) == detect_cve2018_3665(info)

check_cpu_minimum_requirements(info) == info.family >= 5 /\ {"APIC", "FPU"} \subseteq info.features

NoCpuInfo ==
  [vendor |-> "none", features |-> {}, family |-> 0, model |-> 0, stepping |-> 0, hypervisor |-> "NONE",
   brand_string |-> <<>>, dcache_alignment |-> 0, maxphyaddr |-> 0, workarounds |-> {}]

\* The kernel's detect_cpu_features(): the CPU information, and whether the kernel goes
\* on with this processor.
DetectBspFeatures(b, processor) ==
  LET boot == enumerate_bootinfo_features(b)
      start == [NoCpuInfo EXCEPT !.vendor = boot.vendor, !.features = boot.features]
      leafs == get_cpuid_leafs(processor)
      known == enumerate_features(identify_model(start, leafs), leafs)
      named == get_brand_string(identify_hypervisor(known, leafs, processor), leafs)
      sized == identify_maxphyaddr(identify_dcache_alignment(named, leafs, processor), leafs, processor)
  IN IF "CPUID" \notin start.features THEN <<start, "panic">>
     ELSE IF ~check_cpu_minimum_requirements(known) THEN <<known, "panic">>
     ELSE <<identify_workarounds(sized), "go">>

cpu_has_feature(info, mask) == mask \subseteq info.features

=============================================================================
