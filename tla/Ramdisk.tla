------------------------------ MODULE Ramdisk ------------------------------
(***************************************************************************)
(* The initial RAM disk: the streams that decompress it                    *)
(* (userspace/loader/streams), the tar archive in it (archives/tar.c), the *)
(* memory it is extracted to (archives/alloc.c) and the directory entries  *)
(* that other processes read there (lib/jinue/loader.c).                   *)
(*                                                                         *)
(* machine.ramdisk is the file: its format, how many units of its contents *)
(* can be decompressed before an error, and the archive, a sequence of     *)
(* records of one unit each: <<"header", h>>, <<"zero", 0>>, or <<f, n>>,  *)
(* unit n of file f.  s.stream is the stream being read.  The libraries    *)
(* for gzip and bzip2 are external: what matters of them is when they      *)
(* allocate and free memory, and how they end.                             *)
(***************************************************************************)
EXTENDS Libc

CONSTANTS
  StreamStateSize,                        \* struct state of a stream
  InflateStateSize, WindowSize,           \* allocated by zlib
  DStateSize, Ll16Size, Ll4Size,          \* allocated by libbz2
  STRING_AREA_SIZE, DIRENT_AREA_SIZE, DirentSize

NUM_STRING_AREAS == 4
Compressed == machine.ramdisk

NoStream == [format |-> "none", addr |-> NULL, size |-> 0, state |-> NULL, blocks |-> <<>>, pos |-> 0]

\* Several allocations, or none of them is of use: <<s, pointers>>
MallocAll(s, sizes) ==
  FoldLeft(LAMBDA got, size : With(malloc(got[1], size), LAMBDA now, ptr : <<now, Append(got[2], ptr)>>), <<s, <<>>>>, sizes)

FreeAll(s, pointers) == FoldLeft(free, s, pointers)

\* The bytes of the RAM disk are still where the boot loader put them.
Intact(s, stream) == \A i \in 0 .. stream.size - 1 : Fetch(s, stream.addr + i) = <<"ramdisk", i>>

HasFormat(s, addr, format) == Compressed.format = format /\ Fetch(s, addr) = <<"ramdisk", 0>>

\* What the next units are, if all of them can be had.
Units(s, n) ==
  IF Intact(s, s.stream) /\ s.stream.pos + n <= Compressed.readable
    THEN SubSeq(Compressed.archive, s.stream.pos + 1, s.stream.pos + n) ELSE <<>>

\* A stream of a format, whose decompressor is set up by Initialize: <<s, "success", "format" or "error">>
NewStream(s, format, addr, size, Initialize(_)) ==
  With(malloc(s, StreamStateSize), LAMBDA got, state :
    IF state = NULL THEN <<got, "error">>
    ELSE With3(Initialize(got), LAMBDA new, succeeded, blocks :
           IF ~succeeded THEN <<free(new, state), "error">>
           ELSE <<[new EXCEPT !.stream = [format |-> format, addr |-> addr, size |-> size, state |-> state,
                                          blocks |-> blocks, pos |-> 0]], "success">>))

\* The new state is set up before the old one is freed.
ResetStream(s, Initialize(_), Finalize(_, _)) ==
  LET old == s.stream
  IN With(malloc(s, StreamStateSize), LAMBDA got, state :
       IF state = NULL THEN got
       ELSE With3(Initialize(got), LAMBDA new, succeeded, blocks :
              IF ~succeeded THEN free(new, state)
              ELSE free(Finalize([new EXCEPT !.stream.state = state, !.stream.blocks = blocks, !.stream.pos = 0],
                                 old.blocks), old.state)))

(***************************************************************************)
(* streams/gzip.c: reads return <<s, succeeded, units>>.                   *)
(***************************************************************************)
\* The window is allocated when the first bytes are decompressed.
InflateWindow(s) ==
  IF s.stream.blocks[1] # NULL THEN s
  ELSE With(malloc(s, WindowSize), LAMBDA got, window : [got EXCEPT !.stream.blocks[1] = window])

\* inflate() says Z_STREAM_END when the read ends where the contents end.
gzip_read(s, n) ==
  LET ended == s.stream.pos + n = Len(Compressed.archive)
      Read(ready) ==
        LET units == Units(ready, n)
        IN IF ready.stream.blocks[1] = NULL \/ units = <<>> \/ ended THEN <<ready, FALSE, <<>>>>
           ELSE <<[ready EXCEPT !.stream.pos = @ + n], TRUE, units>>
  IN Read(InflateWindow(s))

\* The window first, because it is freed first.
initialize_zlib_stream(s) ==
  With(malloc(s, InflateStateSize), LAMBDA got, state : <<got, state # NULL, <<NULL, state>>>>)

finalize_zlib_stream(s, blocks) == FreeAll(s, blocks)

gzip_reset(s) == ResetStream(s, initialize_zlib_stream, finalize_zlib_stream)

gzip_stream_initialize(s, addr, size) ==
  IF HasFormat(s, addr, "gzip") THEN NewStream(s, "gzip", addr, size, initialize_zlib_stream) ELSE <<s, "format">>

(***************************************************************************)
(* streams/bzip2.c                                                         *)
(***************************************************************************)
bzip2_read(s, n) ==
  LET units == Units(s, n)
  IN IF units = <<>> THEN <<s, FALSE, <<>>>> ELSE <<[s EXCEPT !.stream.pos = @ + n], TRUE, units>>

\* BZ2_bzDecompressEnd() frees the tables before the state.
finalize_bzip2_stream(s, blocks) == FreeAll(s, <<blocks[2], blocks[3], blocks[1]>>)

\* A first read without room for its result makes the library allocate its tables.
initialize_bzip2_stream(s) ==
  With(MallocAll(s, <<DStateSize, Ll16Size, Ll4Size>>), LAMBDA got, blocks :
    IF NULL \in {blocks[i] : i \in DOMAIN blocks} \/ Compressed.readable = 0
      THEN <<finalize_bzip2_stream(got, blocks), FALSE, <<>>>> ELSE <<got, TRUE, blocks>>)

bzip2_reset(s) == ResetStream(s, initialize_bzip2_stream, finalize_bzip2_stream)

bzip2_stream_initialize(s, addr, size) ==
  IF HasFormat(s, addr, "bzip2") THEN NewStream(s, "bzip2", addr, size, initialize_bzip2_stream) ELSE <<s, "format">>

(***************************************************************************)
(* streams/raw.c, streams/stream.c                                         *)
(***************************************************************************)
raw_stream_initialize(s, addr, size) == NewStream(s, "raw", addr, size, LAMBDA got : <<got, TRUE, <<>>>>)

\* Copied from memory, whatever is there by now.
raw_read(s, n) ==
  LET Unit(i) == LET cell == Fetch(s, s.stream.addr + s.stream.pos + i - 1)
                 IN IF cell[1] = "ramdisk" /\ Compressed.format = "raw" THEN Compressed.archive[cell[2] + 1] ELSE JunkCell
  IN IF n > s.stream.size - s.stream.pos THEN <<s, FALSE, <<>>>>
     ELSE <<[s EXCEPT !.stream.pos = @ + n], TRUE, [i \in 1 .. n |-> Unit(i)]>>

stream_read(s, n) ==
  CASE s.stream.format = "gzip" -> gzip_read(s, n)
    [] s.stream.format = "bzip2" -> bzip2_read(s, n)
    [] s.stream.format = "raw" -> raw_read(s, n)

stream_reset(s) ==
  CASE s.stream.format = "gzip" -> gzip_reset(s)
    [] s.stream.format = "bzip2" -> bzip2_reset(s)
    [] s.stream.format = "raw" -> [s EXCEPT !.stream.pos = 0]

stream_finalize(s) ==
  LET old == s.stream IN
  [free(CASE old.format = "gzip" -> finalize_zlib_stream(s, old.blocks)
          [] old.format = "bzip2" -> finalize_bzip2_stream(s, old.blocks)
          [] old.format = "raw" -> s, old.state) EXCEPT !.stream = NoStream]

(***************************************************************************)
(* archives/alloc.c                                                        *)
(***************************************************************************)
EmptyArea == [addr |-> NULL, remaining |-> 0]

allocate_page_aligned(s, size) ==
  With(mmap_anonymous(s, size), LAMBDA got, addr : <<got, IF addr = MAP_FAILED THEN NULL ELSE addr>>)

\* <<area, address>>
allocate_from_area(area, size) == <<[addr |-> area.addr + size, remaining |-> area.remaining - size], area.addr>>

\* A mutant: the NUL that ends a string may fall behind the area.
FitsWithoutNul(areas, size) ==
  LET fit == {i \in DOMAIN areas : areas[i].addr # NULL /\ areas[i].remaining >= size - 1}
  IN IF fit = {} THEN 0 ELSE CHOOSE i \in fit : \A j \in fit : areas[i].remaining <= areas[j].remaining

\* The index of the fitting area with the least room, or 0.
try_alloc_from_areas_best_fit(areas, size) ==
  LET fit == {i \in DOMAIN areas : areas[i].addr # NULL /\ areas[i].remaining >= size}
  IN IF fit = {} THEN 0
     ELSE CHOOSE i \in fit : \A j \in fit \ {i} : \/ areas[i].remaining < areas[j].remaining
                                                  \/ areas[i].remaining = areas[j].remaining /\ i < j

find_area_to_evict(areas) ==
  LET unused == {i \in DOMAIN areas : areas[i].addr = NULL}
  IN IF unused # {} THEN CHOOSE i \in unused : \A j \in unused : i <= j
     ELSE CHOOSE i \in DOMAIN areas : \A j \in DOMAIN areas \ {i} :
            \/ areas[i].remaining < areas[j].remaining
            \/ areas[i].remaining = areas[j].remaining /\ i < j

\* <<s, areas, address>>
allocate_from_areas_best_fit(s, areas, size) ==
  LET idx == try_alloc_from_areas_best_fit(areas, size)
      evicted == find_area_to_evict(areas)
      From(now, i, area) ==
        With(allocate_from_area(area, size), LAMBDA rest, addr : <<now, [areas EXCEPT ![i] = rest], addr>>)
  IN IF idx # 0 THEN From(s, idx, areas[idx])
     ELSE With(allocate_page_aligned(s, STRING_AREA_SIZE), LAMBDA got, fresh :
            IF fresh = NULL THEN <<got, areas, NULL>>
            ELSE From(got, evicted, [addr |-> fresh, remaining |-> STRING_AREA_SIZE]))

\* A directory entry: type, name, value and size, attributes, device.
DirentType(type) == << <<"type", type>> >>
RelName == 1
RelValue == 2
SizeField == 3
Attributes == 4
Device == 5

\* <<s, area, address>>: the area starts at the terminator, which is counted as used.
allocate_dirent_block(s, area) ==
  With(allocate_page_aligned(s, DIRENT_AREA_SIZE), LAMBDA got, block :
    IF block = NULL THEN <<got, area, NULL>>
    ELSE <<Put(Put(got, block, [i \in 1 .. DIRENT_AREA_SIZE |-> Zero]), block, DirentType("END")),
           [addr |-> block, remaining |-> DIRENT_AREA_SIZE - DirentSize], block>>)

initialize_empty_dirent_list(s) == allocate_dirent_block(s, EmptyArea)

allocate_dirent(s, area, type) ==
  LET terminator == area.addr + DirentSize
  IN <<Put(Put(s, area.addr, DirentType(type)), terminator, DirentType("END")),
       [addr |-> terminator, remaining |-> area.remaining - DirentSize], area.addr>>

append_dirent_to_list(s, area, type) ==
  LET Link(now, block) == Put(Put(now, area.addr, DirentType("NEXT")),
                              area.addr + RelValue, <<Word(block - area.addr)>>)
  IN IF area.remaining >= DirentSize THEN allocate_dirent(s, area, type)
     ELSE With3(allocate_dirent_block(s, area), LAMBDA got, rest, block :
            IF block = NULL THEN <<got, rest, NULL>> ELSE allocate_dirent(Link(got, block), rest, type))

(***************************************************************************)
(* archives/tar.c                                                          *)
(***************************************************************************)
\* A record, if it is a header with the right checksum.
is_checksum_valid(unit) == unit[1] = "header" /\ unit[2].sum
is_ustar(header) == header.ustar
found_trailer(unit) == unit = Zero

\* <<s, is one>>
is_tar(s) ==
  LET Names(header) == header.name # <<>> \/ (is_ustar(header) /\ header.prefix # <<>>)
  IN With3(stream_read(s, 1), LAMBDA now, succeeded, units :
       <<now, succeeded /\ is_checksum_valid(units[1]) /\ Names(units[1][2])>>)

\* t is the state_t of tar.c and the outcome so far; <<s, t>>
initialize_state(s) ==
  With3(initialize_empty_dirent_list(s), LAMBDA now, area, root :
    <<now, [status |-> IF root = NULL THEN "failed" ELSE "reading", root |-> root, dirents |-> area,
            strings |-> [i \in 1 .. NUM_STRING_AREAS |-> EmptyArea]]>>)

is_valid_filename_char(c) == c \notin {"/", ":"}

\* One character: the state of the scan and the output, or an error.
SanitizeCharacter(scan, c) ==
  LET To(state, output) == [scan EXCEPT !.state = state, !.output = @ \o output] IN
  IF scan.state = "error" \/ (c # "/" /\ ~is_valid_filename_char(c)) THEN To("error", <<>>)
  ELSE CASE scan.state = "SLASH" -> IF c = "/" THEN scan
                                    ELSE IF c = "." THEN To("DOT1", <<>>) ELSE To("NAME", <<"/", c>>)
         [] scan.state = "DOT1" -> IF c = "/" THEN To("SLASH", <<>>)
                                   ELSE IF c = "." THEN To("DOT2", <<>>) ELSE To("NAME", <<"/", ".", c>>)
         [] scan.state = "DOT2" -> IF c = "/" THEN To("error", <<>>) ELSE To("NAME", <<"/", ".", ".", c>>)
         [] scan.state = "NAME" -> IF c = "/" THEN To("SLASH", <<>>) ELSE To("NAME", <<c>>)

\* <<valid, output>>
sanitize_filename_string(input) ==
  LET scan == FoldLeft(SanitizeCharacter, [state |-> "SLASH", output |-> <<>>], input)
  IN <<scan.state \notin {"error", "DOT2"}, scan.output>>

parse_filename(header) ==
  LET prefix == IF is_ustar(header) THEN sanitize_filename_string(header.prefix) ELSE <<TRUE, <<>>>>
      name == sanitize_filename_string(header.name)
      path == prefix[2] \o name[2]
  IN IF ~prefix[1] \/ ~name[1] \/ (path = <<>> /\ header.typeflag # "DIRTYPE") THEN <<FALSE, <<>>>>
     ELSE <<TRUE, IF path = <<>> THEN <<"/">> ELSE path>>

\* <<s, t, address>>; also copy_fixed_string(), as a field is its text.
copy_string(s, t, text) ==
  With3(allocate_from_areas_best_fit(s, t.strings, Len(text) + 1), LAMBDA got, areas, newstr :
    <<IF newstr = NULL THEN got ELSE Put(got, newstr, Chars(Append(text, NUL))),
      [t EXCEPT !.strings = areas, !.status = IF newstr = NULL THEN "failed" ELSE @], newstr>>)

\* Read into pages of its own; what the last page has after the file is cleared.
copy_file_data(s, t, dirent, size) ==
  LET Padded(units) == [i \in 1 .. ALIGN_END(size, PAGE_SIZE) |-> IF i <= size THEN units[i] ELSE Zero]
      failed == [t EXCEPT !.status = "failed"]
  IN With(allocate_page_aligned(s, size), LAMBDA got, dest :
       IF dest = NULL THEN <<got, failed>>
       ELSE With3(stream_read(got, size), LAMBDA read, succeeded, units :
              IF ~succeeded THEN <<read, failed>>
              ELSE <<Put(Put(read, dest, Padded(units)), dirent + RelValue, <<Word(dest - dirent)>>), t>>))

map_mode(tar_mode) == {<<"JINUE", flag>> : flag \in tar_mode}

\* The type of the entry; "skip" and "fail" are not types.
EntryType(header) ==
  CASE header.typeflag \in {"REGTYPE", "AREGTYPE", "CONTTYPE"} ->
         IF ~is_ustar(header) /\ header.name # <<>> /\ header.name[Len(header.name)] = "/" THEN "DIR" ELSE "FILE"
    [] header.typeflag = "LNKTYPE" -> "skip"
    [] header.typeflag = "SYMTYPE" -> "SYMLINK"
    [] header.typeflag = "CHRTYPE" -> "CHARDEV"
    [] header.typeflag = "BLKTYPE" -> "BLKDEV"
    [] header.typeflag = "DIRTYPE" -> "DIR"
    [] header.typeflag = "FIFOTYPE" -> "FIFO"
    [] header.typeflag \in {"PAX", "GNU"} -> "fail"
    [] OTHER -> "FILE"

\* The value of the entry: a link is a string, a device has its minor number last.
SetValue(s, t, dirent, type, header) ==
  CASE type = "SYMLINK" ->
         With3(copy_string(s, t, header.link), LAMBDA now, tt, link :
           <<IF link = NULL THEN now ELSE Put(now, dirent + RelValue, <<Word(link - dirent), Word(0)>>), tt>>)
    [] type \in {"CHARDEV", "BLKDEV"} -> <<Put(Put(s, dirent + SizeField, <<Word(0)>>), dirent + Device, <<Word(header.minor)>>), t>>
    [] type \in {"DIR", "FIFO"} -> <<Put(s, dirent + SizeField, <<Word(0)>>), t>>
    [] OTHER -> IF header.size > 0 THEN copy_file_data(s, t, dirent, header.size) ELSE <<s, t>>

AddEntry(s, t, type, header, filename) ==
  LET Fill(now, dirent, name) ==
        Put(Put(now, dirent + RelName, <<Word(name - dirent)>>), dirent + SizeField,
            <<Word(header.size), <<"attributes", <<header.uid, header.gid, map_mode(header.mode)>>>>>>)
  IN With3(append_dirent_to_list(s, t.dirents, type), LAMBDA added, area, dirent :
       IF dirent = NULL THEN <<added, [t EXCEPT !.status = "failed"]>>
       ELSE With3(copy_string(added, [t EXCEPT !.dirents = area], filename), LAMBDA now, tt, name :
              IF name = NULL THEN <<now, tt>> ELSE SetValue(Fill(now, dirent, name), tt, dirent, type, header)))

\* One record of the archive after the other; hard links are left out.
RECURSIVE ExtractRecords(_, _)
ExtractRecords(s, t) ==
  LET failed == [t EXCEPT !.status = "failed"]
      Extract(now, header) ==
        LET filename == parse_filename(header)
            type == EntryType(header)
        IN IF ~filename[1] \/ type = "fail" THEN <<now, failed>>
           ELSE IF type = "skip" THEN <<now, t>> ELSE AddEntry(now, t, type, header, filename[2])
      Record(now, unit) ==
        IF found_trailer(unit) THEN <<now, [t EXCEPT !.status = "done"]>>
        ELSE IF ~is_checksum_valid(unit) THEN <<now, failed>> ELSE Extract(now, unit[2])
  IN IF t.status # "reading" THEN <<s, t>>
     ELSE With(With3(stream_read(s, 1), LAMBDA now, succeeded, units :
                 IF succeeded THEN Record(now, units[1]) ELSE <<now, failed>>),
               ExtractRecords)

\* <<s, succeeded, extracted>>: the memory that was taken between start and end.
tar_extract(s) ==
  LET start == __get_physmem_alloc_addr(s)
  IN With(With(initialize_state(s), ExtractRecords), LAMBDA read, t :
       <<read, t.status = "done",
         [physaddr |-> start, size |-> __get_physmem_alloc_addr(read) - start, root |-> t.root]>>)

(***************************************************************************)
(* lib/jinue/loader.c: the entries as a process finds them, from root.     *)
(***************************************************************************)
TypeOf(s, dirent) == Fetch(s, dirent)[2]

jinue_dirent_get_first(s, root) == IF root = NULL \/ TypeOf(s, root) = "END" THEN NULL ELSE root

jinue_dirent_get_next(s, prev) ==
  LET after == prev + DirentSize
      current == IF TypeOf(s, after) = "NEXT" THEN after + Fetch(s, after + RelValue)[2] ELSE after
  IN IF TypeOf(s, prev) = "END" \/ TypeOf(s, current) = "END" THEN NULL ELSE current

jinue_dirent_name(s, dirent) == StringAt(s, dirent + Fetch(s, dirent + RelName)[2])
jinue_dirent_file(s, dirent) == dirent + Fetch(s, dirent + RelValue)[2]
jinue_dirent_link(s, dirent) == StringAt(s, dirent + Fetch(s, dirent + RelValue)[2])
DirentFileSize(s, dirent) == Fetch(s, dirent + SizeField)[2]

RECURSIVE FindFrom(_, _, _)
FindFrom(s, dirent, name) ==
  IF dirent = NULL THEN NULL
  ELSE IF jinue_dirent_name(s, dirent) = name THEN dirent
  ELSE FindFrom(s, jinue_dirent_get_next(s, dirent), name)

jinue_dirent_find_by_name(s, root, name) == FindFrom(s, jinue_dirent_get_first(s, root), name)

(***************************************************************************)
(* ramdisk.c of the loader.                                                *)
(***************************************************************************)
\* <<s, succeeded, address, size>>: the entry of the first kind that is found.
map_ramdisk(s, map) ==
  LET entry == find_range_by_type(map, "RAMDISK")
  IN IF entry = <<>> \/ entry[1].addr = 0 \/ entry[1].size = 0 \/ entry[1].addr % PAGE_SIZE # 0 THEN <<s, FALSE, NULL, 0>>
     ELSE With(__mmap_perrno(s, NULL, entry[1].size, {"read"}, {"SHARED"}, entry[1].addr), LAMBDA mapped, addr :
            IF addr = MAP_FAILED THEN <<mapped, FALSE, NULL, 0>> ELSE <<mapped, TRUE, addr, entry[1].size>>)

\* Each format in turn, as long as the answer is that it is not this one.
initialize_stream(s, addr, size) ==
  With(bzip2_stream_initialize(s, addr, size), LAMBDA bzip2, status :
    IF status # "format" THEN <<bzip2, status>>
    ELSE With(gzip_stream_initialize(bzip2, addr, size), LAMBDA gzip, answer :
           IF answer # "format" THEN <<gzip, answer>> ELSE raw_stream_initialize(gzip, addr, size)))

detect_format(s) == With(is_tar(s), LAMBDA now, tar : <<stream_reset(now), IF tar THEN "TAR" ELSE "UNKNOWN">>)

(***************************************************************************)
(* core/meminfo.c.  The arrays have room for MAX_SEGMENTS segments and     *)
(* MAX_MAPPINGS mappings, which is not checked.                            *)
(***************************************************************************)
initialize_meminfo == [segments |-> <<>>, mappings |-> <<>>, ramdisk |-> 1,
                       hints |-> [physaddr |-> 0, physlimit |-> 0]]

\* <<s, index>>
add_meminfo_segment(s, addr, size, type) ==
  <<[s EXCEPT !.meminfo.segments = Append(@, [addr |-> addr, size |-> size, type |-> type])],
    Len(s.meminfo.segments) + 1>>

set_meminfo_ramdisk(s, addr, size) ==
  LET added == add_meminfo_segment(s, addr, size, "RAMDISK") IN [added[1] EXCEPT !.meminfo.ramdisk = added[2]]

add_meminfo_mapping(s, addr, size, segment, offset, perms) ==
  [s EXCEPT !.meminfo.mappings = Append(@, [addr |-> addr, size |-> size, segment |-> segment,
                                            offset |-> offset, perms |-> perms])]

update_meminfo(s) ==
  [s EXCEPT !.meminfo.hints = [physaddr |-> s.u.alloc_range.addr, physlimit |-> s.u.alloc_range.limit]]

\* <<s, succeeded, extracted>>
extract_ramdisk(s, addr, size) ==
  LET failed == [physaddr |-> 0, size |-> 0, root |-> NULL]
      Extract(now, format) == IF format = "TAR" THEN tar_extract(now) ELSE <<now, FALSE, failed>>
  IN With(initialize_stream(s, addr, size), LAMBDA opened, status :
       IF status # "success" THEN <<opened, FALSE, failed>>
       ELSE With3(With(detect_format(opened), Extract), LAMBDA read, succeeded, extracted :
              IF ~succeeded THEN <<stream_finalize(read), FALSE, extracted>>
              ELSE <<set_meminfo_ramdisk(stream_finalize(read), extracted.physaddr, extracted.size), TRUE, extracted>>))

=============================================================================
