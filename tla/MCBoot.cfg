SPECIFICATION BootSpec
INVARIANTS SetupMapped MemoryOwnedOnce ArgumentsDelivered RamdiskExact ImagesExact
CHECK_DEADLOCK FALSE
CONSTANTS
  PAGE_SIZE=8
  MEMORY_ADDR_1MB=16
  MEMORY_ADDR_16MB=256
  BOOT_STACK_HEAP_SIZE=32
  BOOT_SIZE_AT_16MB=768
  JINUE_KLIMIT=6144
  KERNEL_SIZE=64
  MAPPING_AREA_SIZE=256
  LARGE_PAGES_AREA_ADDR=7936
  ADDR_4GB=8192
  PAGE_TABLE_PTES=32
  CMDLINE_MAX_PARSE_LENGTH=40
  CMDLINE_MAX_VALID_LENGTH=24
  BootInfoSize=4
  PdptSize=4
  AddrMapEntrySize=2
  KernelAddrmapEntries=16
  AddrMapHeaderSize=1
  EBDA_START=8
  EBDA_END=10
  RSDP_ROM=14
  MP_ROM=15
  KB=1
  APIC_INIT_ADDR=8000
  PercpuSize=6
  PERCPU_DATA_ALIGNMENT=8
  FONT_WIDTH=1
  FONT_HEIGHT=2
  VGA_TEXT_VID_BASE=11
  VGA_TEXT_VID_TOP=12
  FramebufferMax=128
  ElfHeaderSize=2
  JINUE_STACK_SIZE=80
  JINUE_RESERVED_STACK_SIZE=64
  PhdrSize=1
  Scenarios <- Scn
  MMAP_BASE=2048
  MIN_SBRK_SIZE=32
  PhysmemBufferSize=64
  JINUE_DESC_NUM=12
  FdlinkSize=2
  StreamStateSize=2
  InflateStateSize=10
  WindowSize=64
  DStateSize=20
  Ll16Size=24
  Ll4Size=8
  STRING_AREA_SIZE=32
  DIRENT_AREA_SIZE=32
  DirentSize=8
  LoaderBufferSize=128
  MeminfoMessageSize=1
  BUFFER_SIZE=16
  ClientMaps=2
  ClientMapSize=12
