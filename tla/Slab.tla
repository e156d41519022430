------------------------------- MODULE Slab -------------------------------
(***************************************************************************)
(* The kernel's run-time memory allocators: the page allocator             *)
(* (domain/alloc/page_alloc.c) and the slab allocator built on it          *)
(* (domain/alloc/slab.c).                                                  *)
(*                                                                         *)
(* A heap h is a record:                                                   *)
(*   mem    the words of every kernel page, as the code reads and writes   *)
(*          them: a free page is linked through its first word, a free     *)
(*          buffer through its bufctl, and whoever owns a page or a buffer *)
(*          writes over both;                                              *)
(*   slab   the slab_t at the end of a page used as a slab (stale in every *)
(*          other page);                                                   *)
(*   cache  the slab_cache_t structures;                                   *)
(*   head   head_page;   count   page_count;                               *)
(*   warned the debugging checks of SLAB_POISON and SLAB_RED_ZONE that     *)
(*          the last call reported.                                        *)
(* An address is page * SLAB_SIZE + word, NULL is 0, and sizes are in      *)
(* words.  The locks are held for the whole of each call.                  *)
(***************************************************************************)
EXTENDS Integers, FiniteSets, Sequences

CONSTANTS
  Pages,              \* kernel pages, a set 1 .. n
  SLAB_SIZE,          \* words in a page
  SlabHeader,         \* words of slab_t, at the end of the page
  DCacheLine          \* machine_get_cpu_dcache_alignment()

ASSUME SlabSizes == /\ Pages \subseteq Nat \ {0}
                    /\ SLAB_SIZE \in Nat \ {0} /\ SlabHeader \in 1 .. SLAB_SIZE - 1
                    /\ DCacheLine \in Nat \ {0}

NULL == 0

\* Use a result that is written once.
With(result, Use(_)) == Use(result)

\* What a word holds.  The zero word is a NULL pointer and an absent entry.
Zero == <<"zero", 0>>
Addr(a) == IF a = NULL THEN Zero ELSE <<"addr", a>>
PtrOf(w) == IF w[1] = "addr" THEN w[2] ELSE NULL
Dead == <<"poison", 0>>
Alive == <<"poison", 1>>
RedZone == <<"redzone", 0>>
Constructed == <<"object", 0>>
Data(n) == <<"object", n>>
Header == <<"slab_t", 0>>

PageOf(a) == a \div SLAB_SIZE
WordOf(a) == a % SLAB_SIZE
AddrOf(p) == p * SLAB_SIZE

Load(h, a) == h.mem[PageOf(a)][WordOf(a)]
Store(h, a, v) == [h EXCEPT !.mem[PageOf(a)][WordOf(a)] = v]

\* Write n words from address a.
Fill(h, a, n, v) ==
  [h EXCEPT !.mem[PageOf(a)] =
     [w \in DOMAIN @ |-> IF w \in WordOf(a) .. WordOf(a) + n - 1 THEN v ELSE @[w]]]

---------------------------------------------------------------------------
(* The page allocator.                                                     *)

\* page_alloc(): the page is PageOf(h.head), none when head_page is NULL.
PageAlloc(h) ==
  IF h.head = NULL THEN h
  ELSE [h EXCEPT !.head = PtrOf(Load(h, h.head)), !.count = @ - 1]

PageFree(h, a) == [Store(h, a, Addr(h.head)) EXCEPT !.head = a, !.count = @ + 1]

ClearPage(h, a) == Fill(h, a, SLAB_SIZE, Zero)

---------------------------------------------------------------------------
(* The layout of a slab.                                                   *)

RoundUp(n, to) == ((n + to - 1) \div to) * to

LargerOf(a, b) == IF a > b THEN a ELSE b

ComputeAlignment(alignment, flags) ==
  LET asked == IF alignment = 0 THEN 1 ELSE alignment IN
  IF "HWCACHE_ALIGN" \in flags THEN LargerOf(asked, DCacheLine) ELSE asked

\* slab_cache_init() up to the allocation of the first slab.  A cache is
\* described by its object size, alignment, constructor, destructor, flags.
LayoutWith(spec, extra) ==
  LET alignment == ComputeAlignment(spec.alignment, spec.flags)
      alloc == RoundUp(spec.size + extra, alignment)
      avail == SLAB_SIZE - SlabHeader
      wasted == avail - (avail \div alloc) * alloc IN
  [empty |-> NULL, partial |-> NULL, full |-> NULL, empty_count |-> 0,
   flags |-> spec.flags, ctor |-> spec.ctor, dtor |-> spec.dtor,
   next_colour |-> 0, max_colour |-> (wasted \div alignment) * alignment,
   working_set |-> 2, alignment |-> alignment, obj_size |-> spec.size,
   alloc_size |-> alloc, bufctl_offset |-> alloc - 1]

\* A mutant: the bufctl shares the red zone of a poisoned object.
SlabCacheLayoutShared(spec) ==
  LayoutWith(spec, IF {"POISON", "RED_ZONE"} \cap spec.flags # {} \/
                      (spec.ctor /\ "COMPACT" \notin spec.flags) THEN 1 ELSE 0)

\* A red zone and a bufctl are both kept while a poisoned object is free;
\* otherwise they share a word, and a constructed object keeps the bufctl out.
SlabCacheLayout(spec) ==
  LayoutWith(spec, IF {"POISON", "RED_ZONE"} \subseteq spec.flags THEN 2
                   ELSE IF {"POISON", "RED_ZONE"} \cap spec.flags # {} THEN 1
                   ELSE IF spec.ctor /\ "COMPACT" \notin spec.flags THEN 1
                   ELSE 0)

---------------------------------------------------------------------------
(* The lists of slabs.  A slab is named by its page's address; prev of the *)
(* first slab of a list is garbage.                                        *)

SetPrev(h, s, v) == IF s = NULL THEN h ELSE [h EXCEPT !.slab[PageOf(s)].prev = v]

NextOf(h, s) == h.slab[PageOf(s)].next

\* Put slab s in front of a list.
PushSlab(h, c, list, s) ==
  SetPrev([h EXCEPT !.slab[PageOf(s)].next = h.cache[c][list], !.cache[c][list] = s],
          h.cache[c][list], s)

\* A mutant: the slab after the one taken out keeps its prev pointer.
UnlinkSlabOneWay(h, c, list, s) ==
  LET next == NextOf(h, s)
      prev == h.slab[PageOf(s)].prev IN
  IF h.cache[c][list] = s THEN [h EXCEPT !.cache[c][list] = next]
  ELSE [h EXCEPT !.slab[PageOf(prev)].next = next]

\* slab_cache_free(): take slab s, which may be anywhere, out of a list.
UnlinkSlab(h, c, list, s) ==
  LET next == NextOf(h, s)
      prev == h.slab[PageOf(s)].prev
      h1 == IF h.cache[c][list] = s THEN [h EXCEPT !.cache[c][list] = next]
            ELSE [h EXCEPT !.slab[PageOf(prev)].next = next] IN
  SetPrev(h1, next, prev)

---------------------------------------------------------------------------
(* Slabs and objects.                                                      *)

\* The bufctls that init_and_add_slab() links in a page: the first one, and
\* the ones that follow as long as they lie before the slab_t.
BufctlsBefore(c, colour, limit) ==
  LET first == colour + c.bufctl_offset IN
  {first} \cup {w \in first .. limit - 1 : (w - first) % c.alloc_size = 0}

\* A mutant: the loop stops one buffer late, when the next bufctl is past
\* the first word of the slab_t.
BufctlsLate(c, colour) == BufctlsBefore(c, colour, SLAB_SIZE - SlabHeader + 1)

Bufctls(c, colour) == BufctlsBefore(c, colour, SLAB_SIZE - SlabHeader)

\* The words of a new slab in page p: the slab_t, then for each buffer its
\* poisoned or constructed object, its red zone and its bufctl.
SlabWords(h, c, p, colour) ==
  LET bufctls == Bufctls(c, colour)
      Owner(w) == {b \in bufctls : w - (b - c.bufctl_offset) \in 0 .. c.obj_size - 1}
      Zone(w) == {b \in bufctls : w = b - c.bufctl_offset + c.obj_size} IN
  [w \in 0 .. SLAB_SIZE - 1 |->
     IF w \in bufctls
       THEN IF w + c.alloc_size \in bufctls THEN Addr(AddrOf(p) + w + c.alloc_size) ELSE Zero
     ELSE IF "POISON" \in c.flags /\ Owner(w) # {} THEN Dead
     ELSE IF {"POISON", "RED_ZONE"} \subseteq c.flags /\ Zone(w) # {} THEN RedZone
     ELSE IF "POISON" \notin c.flags /\ c.ctor /\ Owner(w) # {} THEN Constructed
     ELSE IF w >= SLAB_SIZE - SlabHeader THEN Header
     ELSE h.mem[p][w]]

InitAndAddSlab(h, name, page) ==
  LET p == PageOf(page)
      c == h.cache[name]
      h1 == [h EXCEPT !.mem[p] = SlabWords(h, c, p, c.next_colour),
                      !.slab[p].cache = name, !.slab[p].obj_count = 0,
                      !.slab[p].colour = c.next_colour,
                      !.slab[p].free_list = page + c.next_colour + c.bufctl_offset,
                      !.cache[name].empty_count = @ + 1,
                      !.cache[name].next_colour =
                        IF @ < c.max_colour THEN @ + c.alignment ELSE 0] IN
  PushSlab(h1, name, "empty", page)

\* slab_cache_init(), which panics when there is no page for the first slab.
SlabCacheInit(h, name, spec) ==
  InitAndAddSlab([PageAlloc(h) EXCEPT !.cache[name] = SlabCacheLayout(spec)], name, h.head)

---------------------------------------------------------------------------
(* slab_cache_alloc().                                                     *)

\* No partial slab: take the first empty one, made from a new page if there
\* is none, to the partial list.  NULL partial means there was no page.
UseEmptySlab(h, name) ==
  With(IF h.cache[name].empty # NULL \/ h.head = NULL THEN h
       ELSE InitAndAddSlab(PageAlloc(h), name, h.head), LAMBDA h1 :
    LET s == h1.cache[name].empty IN
    IF s = NULL THEN h1
    ELSE PushSlab([h1 EXCEPT !.cache[name].empty = NextOf(h1, s),
                             !.cache[name].empty_count = @ - 1], name, "partial", s))

\* Take the first buffer of the first partial slab; a slab left without one
\* moves to the full list.
TakeBuffer(h, name) ==
  LET s == h.cache[name].partial
      next == NextOf(h, s)
      rest == PtrOf(Load(h, h.slab[PageOf(s)].free_list))
      h1 == [h EXCEPT !.slab[PageOf(s)].free_list = rest, !.slab[PageOf(s)].obj_count = @ + 1]
      h2 == SetPrev([h1 EXCEPT !.cache[name].partial = next], next, h1.slab[PageOf(s)].prev) IN
  IF rest = NULL THEN PushSlab(h2, name, "full", s) ELSE h1

ObjectWords(h, c, buffer) == {Load(h, buffer + i) : i \in 0 .. c.obj_size - 1}

\* The debugging work on a buffer that is handed out.
CheckFreedBuffer(h, c, buffer) ==
  LET zone == buffer + c.obj_size
      h1 == Fill(h, buffer, c.obj_size, IF c.ctor THEN Constructed ELSE Alive) IN
  IF "POISON" \in c.flags
    THEN [(IF "RED_ZONE" \in c.flags THEN Store(h1, zone, RedZone) ELSE h1)
            EXCEPT !.warned = {x \in {"freed object"} : ObjectWords(h, c, buffer) # {Dead}}
                         \cup {x \in {"past freed object"} :
                                 "RED_ZONE" \in c.flags /\ Load(h, zone) # RedZone}]
  ELSE IF "RED_ZONE" \in c.flags THEN [Store(h, zone, RedZone) EXCEPT !.warned = {}]
  ELSE [h EXCEPT !.warned = {}]

\* The heap and the buffer after slab_cache_alloc(), NULL when no page is left.
SlabCacheAlloc(h, name) ==
  With(IF h.cache[name].partial # NULL THEN h ELSE UseEmptySlab(h, name), LAMBDA h1 :
    LET s == h1.cache[name].partial
        c == h1.cache[name]
        buffer == h1.slab[PageOf(s)].free_list - c.bufctl_offset IN
    IF s = NULL THEN [h |-> [h1 EXCEPT !.warned = {}], buffer |-> NULL]
    ELSE [h |-> CheckFreedBuffer(TakeBuffer(h1, name), c, buffer), buffer |-> buffer])

---------------------------------------------------------------------------
(* slab_cache_free(), slab_cache_reap(), slab_cache_set_working_set().     *)

\* The debugging work on a buffer that is returned.
CheckBuffer(h, c, buffer) ==
  LET zone == buffer + c.obj_size
      h1 == IF "RED_ZONE" \in c.flags THEN Store(h, zone, RedZone) ELSE h IN
  [(IF "POISON" \in c.flags THEN Fill(h1, buffer, c.obj_size, Dead) ELSE h1)
     EXCEPT !.warned = {x \in {"past object"} :
                          "RED_ZONE" \in c.flags /\ Load(h, zone) # RedZone}]

SlabCacheFree(h, buffer) ==
  LET p == PageOf(buffer)
      s == AddrOf(p)
      name == h.slab[p].cache
      c == h.cache[name]
      bufctl == buffer + c.bufctl_offset
      h1 == IF h.slab[p].free_list # NULL THEN h
            ELSE PushSlab(UnlinkSlab(h, name, "full", s), name, "partial", s)
      Return(heap) == [Store(heap, bufctl, Addr(heap.slab[p].free_list))
                         EXCEPT !.slab[p].free_list = bufctl, !.slab[p].obj_count = @ - 1] IN
  With(Return(CheckBuffer(h1, c, buffer)), LAMBDA h2 :
    IF h2.slab[p].obj_count # 0 THEN h2
    ELSE [PushSlab(UnlinkSlab(h2, name, "partial", s), name, "empty", s)
            EXCEPT !.cache[name].empty_count = @ + 1])

\* slab_cache_reap(): destroy_slab() on the first empty slabs, as long as
\* there are more than the working set.  The destructor's effect on an
\* object that is going away is left out.
ReapOne(h, name) ==
  LET s == h.cache[name].empty IN
  PageFree([h EXCEPT !.cache[name].empty = NextOf(h, s), !.cache[name].empty_count = @ - 1], s)

RECURSIVE SlabCacheReap(_, _)
SlabCacheReap(h, name) ==
  IF h.cache[name].empty_count > h.cache[name].working_set
    THEN SlabCacheReap(ReapOne(h, name), name) ELSE h

SlabCacheSetWorkingSet(h, name, n) == [h EXCEPT !.cache[name].working_set = n]
=============================================================================
