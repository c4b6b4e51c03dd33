--------------------------------- MODULE Slab ---------------------------------
(***************************************************************************)
(* kmalloc and kfree of kernel/memory.c, and the slab caches a subsystem   *)
(* may create for itself.  Every cache of KmallocSlabSet owns a circular   *)
(* list of slabs, one 2 MiB page each; the first slab of a cache is set up *)
(* at boot and stays.  A slab is named by its page.  An address is a page  *)
(* and an offset in it.  A call is one step: the model has one caller at   *)
(* a time.                                                                 *)
(***************************************************************************)
EXTENDS KernelList, Integers, Sequences, SequencesExt

CONSTANTS
  NIL,            \* no address, no page
  SlabPages,           \* the 2 MiB pages AllocPage can hand out
  Static,          \* cache -> the page of its first slab
  size,            \* cache -> the size of its objects, ascending
  Embedded,        \* the caches whose new slabs live in their own page
  PAGE_2M_SIZE,
  SizeofSlab, SizeofSlabCache, SizeofLong,
  Requests,        \* the sizes callers ask kmalloc for
  ObjectSize       \* the size of the objects a subsystem wants a cache for

ASSUME SlabAssumption ==
  /\ \A c, d \in DOMAIN size : c < d => size[c] < size[d]
  /\ DOMAIN Static = DOMAIN size
  /\ \A c \in DOMAIN size : size[c] >= SizeofSlab => \E d \in Embedded : size[d] >= SizeofSlab /\ d <= c

Sets == DOMAIN size                   \* KMALLOC_SLAB_SIZE caches
Own == Len(size) + 1                  \* the cache a subsystem created
Caches == Sets \cup {Own}
AllPages == SlabPages \cup {Static[c] : c \in Sets}

VARIABLES
  mm,      \* the allocator: lists, slabs, caches, free pages
  objects,    \* the objects callers hold: addresses with their length
  cache    \* what CreateSlabCache returned, or NIL

Addr(page, at) == [page |-> page, at |-> at]

\* A slab of n objects.  struct and map are what kmalloc gave for its structure
\* and its map; over is the part of its own page that they take up instead.
ASlab(n, struct, map) ==
  [ColorMap |-> {}, UsingCount |-> 0, FreeCount |-> n, ColorCount |-> n,
   struct |-> struct, map |-> map, over |-> {}]

sizeOf(st, c) == IF c = Own THEN st.ownSize ELSE size[c]

\* SlabCacheInit: one slab for every cache of kmalloc.
SlabCacheInit ==
  [lists |-> ListInit(AllPages),
   slab |-> [p \in AllPages |->
               IF \E c \in Sets : p = Static[c]
               THEN ASlab(PAGE_2M_SIZE \div size[CHOOSE c \in Sets : p = Static[c]], NIL, NIL)
               ELSE ASlab(0, NIL, NIL)],
   pool |-> [c \in Caches |-> IF c = Own THEN NIL ELSE Static[c]],
   TotalFree |-> [c \in Caches |-> IF c = Own THEN 0 ELSE PAGE_2M_SIZE \div size[c]],
   TotalUse |-> [c \in Caches |-> 0],
   ownSize |-> 1,
   free |-> SlabPages,
   fault |-> FALSE,
   overrun |-> FALSE]

\* The slabs of a cache in the order the loops visit them.
Slabs(st, c) == IF st.pool[c] = NIL THEN <<>> ELSE <<st.pool[c]>> \o Chain(st.lists, st.pool[c])

Result(st, ptr) == [st |-> st, ptr |-> ptr]

\* F(r) for the result r of the call before it, which TLC computes once.
AndThen(r, F(_)) == CHOOSE y \in {F(x) : x \in {r}} : TRUE

Colours(s) == (0..(s.ColorCount - 1)) \ s.ColorMap

\* Mutant: the counters of the cache are left alone.
TakeUncounted(st, c, n, i) ==
  [st EXCEPT !.slab[n].ColorMap = @ \cup {i},
             !.slab[n].FreeCount = @ - 1, !.slab[n].UsingCount = @ + 1]

Take(st, c, n, i) ==
  [st EXCEPT !.slab[n].ColorMap = @ \cup {i},
             !.slab[n].FreeCount = @ - 1, !.slab[n].UsingCount = @ + 1,
             !.TotalFree[c] = @ - 1, !.TotalUse[c] = @ + 1]

\* Mutant: only the first slab of the cache is searched.
AllocSlabFirst(st, c) ==
  LET n == st.pool[c]
      i == Min(Colours(st.slab[n]))
  IN  IF Colours(st.slab[n]) = {} THEN Result(st, NIL)
      ELSE Result(Take(st, c, n, i), Addr(n, i * sizeOf(st, c)))

\* The first object that is free in the first slab with a free one.  CreatSlab
\* leaves ColorCount at 0, so a slab it made has nothing to give.  Every cache
\* that comes here has TotalFree # 0: kmalloc saw to it, CreateSlabCache too.
AllocSlab(st, c) ==
  LET room == SelectSeq(Slabs(st, c), LAMBDA n : st.slab[n].FreeCount # 0 /\ Colours(st.slab[n]) # {})
      n == Head(room)
      i == Min(Colours(st.slab[n]))
  IN  IF room = <<>> THEN Result(st, NIL)
      ELSE Result(Take(st, c, n, i), Addr(n, i * sizeOf(st, c)))

\* AllocPage: the pages are alike, so which one it gives does not matter.
PageOf(st) == CHOOSE p \in st.free : TRUE

AddSlab(st, c, page, s) ==
  [st EXCEPT !.slab[page] = s,
             !.lists = ListBackAdd(@, st.pool[c], page),
             !.TotalFree[c] = @ + s.FreeCount,
             !.free = @ \ {page}]

\* The structure and the map of the slab stand at the end of its page.
StructSize(c) == SizeofSlab + (PAGE_2M_SIZE \div size[c]) \div SizeofLong

\* The number of objects is rounded up: the last one may reach into the structure.
GrowEmbedded(st, c) ==
  AddSlab(st, c, PageOf(st),
    [ASlab((PAGE_2M_SIZE - StructSize(c) + size[c] - 1) \div size[c], NIL, NIL) EXCEPT
       !.over = (PAGE_2M_SIZE - StructSize(c))..(PAGE_2M_SIZE - 1)])

\* What happens when the holder of the n bytes at ptr writes to them.  The
\* structure of a slab holds its links, and the kernel is lost.  A map then shows
\* whatever the holder wrote.
Overwrites(st, ptr, n) ==
  LET p == ptr.page
      s == st.slab[p]
  IN  IF (ptr.at..(ptr.at + n - 1)) \cap s.over = {} THEN {st}
      ELSE IF s.struct = NIL THEN {[st EXCEPT !.fault = TRUE]}
      ELSE {[st EXCEPT !.slab[p].ColorMap = bits, !.overrun = TRUE] :
              bits \in SUBSET (0..(s.ColorCount - 1))}

\* The kernel fills in a structure of n bytes.  It comes from a small class.
Fill(r, n) ==
  IF r.ptr = NIL THEN r ELSE Result(CHOOSE st \in Overwrites(r.st, r.ptr, n) : TRUE, r.ptr)

\* Mutant: a size one larger than a cache still goes to it.
CacheForTight(n) == Min({c \in Sets : size[c] >= n - 1})

CacheFor(n) == Min({c \in Sets : size[c] >= n})

\* kmalloc of a size whose cache is Embedded.
kmallocSmall(st, n) ==
  LET c == CacheFor(n)
  IN  IF st.TotalFree[c] # 0 THEN AllocSlab(st, c)
      ELSE IF st.free = {} THEN Result(st, NIL)
      ELSE AndThen(GrowEmbedded(st, c), LAMBDA grown : AllocSlab(grown, c))

\* BITS_MAP_LENGTH in bytes: a map of n bits in whole longs.
MapSize(n) == ((n + 8 * SizeofLong - 1) \div (8 * SizeofLong)) * SizeofLong

\* A larger cache takes the structure of its slab from kmalloc, and does not
\* look whether it got one: the write through NIL stops the kernel.  Its map lies
\* at the start of the page, where the first object is.
GrowLarge(st, c) ==
  LET page == PageOf(st)
      n == PAGE_2M_SIZE \div size[c]
  IN  AndThen(Fill(kmallocSmall([st EXCEPT !.free = @ \ {page}], SizeofSlab), SizeofSlab), LAMBDA r :
        IF r.ptr = NIL THEN [r.st EXCEPT !.fault = TRUE]
        ELSE AddSlab(r.st, c, page, [ASlab(n, r.ptr, NIL) EXCEPT !.over = 0..(MapSize(n) - 1)]))

kmallocLarge(st, n) ==
  LET c == CacheFor(n)
  IN  IF st.TotalFree[c] # 0 THEN AllocSlab(st, c)
      ELSE IF st.free = {} THEN Result(st, NIL)
      ELSE AndThen(GrowLarge(st, c), LAMBDA grown :
             IF grown.fault THEN Result(grown, NIL) ELSE AllocSlab(grown, c))

kmalloc(st, n) ==
  IF n > size[Len(size)] THEN Result(st, NIL)
  ELSE IF CacheFor(n) \in Embedded THEN kmallocSmall(st, n)
  ELSE kmallocLarge(st, n)

\* Give the object back to the counters and to the map of its slab.
GiveBack(st, c, page, i) ==
  [st EXCEPT !.slab[page].ColorMap = SymDiff(@, {i}),
             !.slab[page].FreeCount = @ + 1, !.slab[page].UsingCount = @ - 1,
             !.TotalFree[c] = @ + 1, !.TotalUse[c] = @ - 1]

\* A slab stays while it is in use, while the cache has less than half a slab
\* to spare besides, and when it is the first one.
Keep(st, c, page) ==
  \/ st.slab[page].UsingCount # 0
  \/ st.TotalFree[c] < (st.slab[page].FreeCount * 3) \div 2
  \/ page = st.pool[c]

\* Mutant: the page of the slab is not given back.
DropKeepsPage(st, c, page) ==
  [st EXCEPT !.TotalFree[c] = @ - st.slab[page].FreeCount,
             !.lists = ListDelete(@, page), !.slab[page] = ASlab(0, NIL, NIL)]

Drop(st, c, page) ==
  [st EXCEPT !.TotalFree[c] = @ - st.slab[page].FreeCount,
             !.lists = ListDelete(@, page), !.slab[page] = ASlab(0, NIL, NIL), !.free = @ \cup {page}]

\* The caches of kmalloc with a slab in use on the page of ptr.
Owners(st, ptr) ==
  {c \in Sets : /\ st.TotalUse[c] # 0
                /\ ptr.page \in ToSet(Slabs(st, c)) /\ st.slab[ptr.page].UsingCount # 0}

kfreeOne(st, ptr) ==
  IF Owners(st, ptr) = {} THEN st
  ELSE LET c == Min(Owners(st, ptr))
       IN  AndThen(GiveBack(st, c, ptr.page, ptr.at \div size[c]), LAMBDA done :
             IF Keep(done, c, ptr.page) THEN done ELSE Drop(done, c, ptr.page))

\* A larger cache whose slab goes gives the structure of the slab back, too.
kfree(st, ptr) ==
  LET struct == st.slab[ptr.page].struct
  IN  AndThen(kfreeOne(st, ptr), LAMBDA done :
        IF ptr.page \in done.free /\ struct # NIL THEN kfreeOne(done, struct) ELSE done)

\* CreatSlab: the structure, the map and the page of a slab; what was taken
\* goes back when the next one cannot be had.
CreatSlab(st, n) ==
  AndThen(Fill(kmalloc(st, SizeofSlab), SizeofSlab), LAMBDA s :
    IF s.ptr = NIL THEN s
    ELSE AndThen(Fill(kmalloc(s.st, SizeofLong), SizeofLong), LAMBDA m :
      IF m.ptr = NIL THEN Result(kfree(m.st, s.ptr), NIL)
      ELSE IF m.st.free = {}
      THEN AndThen(kfree(m.st, m.ptr), LAMBDA f : Result(kfree(f, s.ptr), NIL))
      ELSE LET page == PageOf(m.st)
               new == [ASlab(0, s.ptr, m.ptr) EXCEPT !.FreeCount = PAGE_2M_SIZE \div n]
           IN  Result([m.st EXCEPT !.slab[page] = new, !.free = @ \ {page}], page)))

ALIGN_WITH_LONG(n) == ((n + SizeofLong - 1) \div SizeofLong) * SizeofLong

CreateSlabCache(st, n) ==
  AndThen(Fill(kmalloc(st, SizeofSlabCache), SizeofSlabCache), LAMBDA sc :
    IF sc.ptr = NIL THEN sc
    ELSE AndThen(CreatSlab(sc.st, ALIGN_WITH_LONG(n)), LAMBDA s :
      IF s.ptr = NIL THEN Result(kfree(s.st, sc.ptr), NIL)
      ELSE Result([s.st EXCEPT !.pool[Own] = s.ptr, !.ownSize = ALIGN_WITH_LONG(n),
                               !.TotalFree[Own] = @ + s.st.slab[s.ptr].FreeCount], sc.ptr)))

\* The cache of a subsystem has one slab, for it never grows.
DeleteSlabCache(st, sc) ==
  LET page == st.pool[Own]
      s == st.slab[page]
      dropped(f) == [f EXCEPT !.lists = ListDelete(@, page), !.free = @ \cup {page},
                       !.slab[page] = ASlab(0, NIL, NIL), !.pool[Own] = NIL, !.TotalFree[Own] = 0]
  IN  AndThen(kfree(st, s.map), LAMBDA f :
        AndThen(dropped(f), LAMBDA d :
          AndThen(kfree(d, s.struct), LAMBDA g : kfree(g, sc))))

slab_vars == <<mm, objects, cache>>

SlabInit == mm = SlabCacheInit /\ objects = {} /\ cache = NIL

Object(ptr, n) == [page |-> ptr.page, at |-> ptr.at, len |-> n]

Kmalloc(n) ==
  /\ ~mm.fault
  /\ \E r \in {kmalloc(mm, n)} :
       /\ mm' = r.st
       /\ objects' = IF r.ptr = NIL THEN objects ELSE objects \cup {Object(r.ptr, n)}
  /\ UNCHANGED cache

\* A caller writes to what it holds.  Elsewhere in the page that changes nothing here.
Write(o) ==
  /\ ~mm.fault
  /\ mm' \in Overwrites(mm, o, o.len) \ {mm}
  /\ UNCHANGED <<objects, cache>>

Kfree(o) ==
  /\ ~mm.fault
  /\ mm' = kfree(mm, Addr(o.page, o.at))
  /\ objects' = objects \ {o}
  /\ UNCHANGED cache

Create ==
  /\ ~mm.fault /\ cache = NIL
  /\ \E r \in {CreateSlabCache(mm, ObjectSize)} : mm' = r.st /\ cache' = r.ptr
  /\ UNCHANGED objects

AllocOwn ==
  /\ ~mm.fault /\ cache # NIL
  /\ \E r \in {AllocSlab(mm, Own)} :
       /\ mm' = r.st
       /\ objects' = IF r.ptr = NIL THEN objects ELSE objects \cup {Object(r.ptr, sizeOf(mm, Own))}
  /\ UNCHANGED cache

Delete ==
  /\ ~mm.fault /\ cache # NIL /\ mm.TotalUse[Own] = 0
  /\ mm' = DeleteSlabCache(mm, cache)
  /\ cache' = NIL
  /\ UNCHANGED objects

SlabNext ==
  \/ \E n \in Requests : Kmalloc(n)
  \/ \E o \in objects : Kfree(o) \/ Write(o)
  \/ Create \/ AllocOwn \/ Delete

SlabSpec == SlabInit /\ [][SlabNext]_slab_vars

-------------------------------------------------------------------------------

\* No counter of kmalloc and kfree goes below zero, and the map of a slab has no bit
\* past its last object.
SlabTypeOK ==
  /\ mm.free \subseteq SlabPages
  /\ \A p \in AllPages :
       /\ mm.slab[p].FreeCount >= 0 /\ mm.slab[p].UsingCount >= 0
       /\ \A i \in mm.slab[p].ColorMap : i < mm.slab[p].ColorCount
  /\ \A c \in Caches : mm.TotalFree[c] >= 0 /\ mm.TotalUse[c] >= 0

\* Two kinds of slab lie in part under their own objects (memory.c:486 and 518), and
\* a caller that writes to such an object overwrites the structure (fault) or the map
\* (overrun).  The properties are about what happens until then.

\* Until a map is overwritten, the three places that count the free objects agree:
\* the map of a slab, the counters of the slab, and those of its cache, whatever
\* slabs have come and gone.  kmalloc grows a cache only when the last counter is 0
\* (memory.c:470).
CountsExact ==
  ~mm.overrun => \A c \in Sets :
    LET own == ToSet(Slabs(mm, c))
    IN  /\ \A p \in own : /\ mm.slab[p].UsingCount = Cardinality(mm.slab[p].ColorMap)
                          /\ mm.slab[p].FreeCount = mm.slab[p].ColorCount - mm.slab[p].UsingCount
        /\ mm.TotalUse[c] = MapThenSumSet(LAMBDA p : mm.slab[p].UsingCount, own)
        /\ mm.TotalFree[c] = MapThenSumSet(LAMBDA p : mm.slab[p].FreeCount, own)

\* Until a map is overwritten, what the maps show as taken is what somebody holds: a
\* caller, a slab of a larger cache (its structure), or the cache of a subsystem (its
\* structure, its slab and its map).  So nothing is lost on any path of
\* CreateSlabCache, kmalloc or kfree, the ones that fail included.
TakenIsHeld ==
  LET inner == {mm.slab[p].struct : p \in AllPages} \cup {mm.slab[p].map : p \in AllPages} \cup {cache}
  IN  ~mm.overrun =>
        UNION {{Addr(p, i * size[c]) : i \in mm.slab[p].ColorMap} : <<p, c>> \in
                 {x \in AllPages \X Sets : x[1] \in ToSet(Slabs(mm, x[2]))}}
        = {Addr(o.page, o.at) : o \in objects} \cup (inner \ {NIL})

\* Every page is free or carries exactly one slab, until a map is overwritten; only
\* the write through NIL in kmalloc, which needs the pages to be used up, loses one.
PagesAccounted ==
  \/ mm.overrun
  \/ mm.fault /\ mm.free = {}
  \/ \A p \in SlabPages :
       (p \in mm.free) <=> \A c \in Caches : p \notin ToSet(Slabs(mm, c))

\* Until a map is overwritten, kmalloc sends a caller away empty-handed only when the
\* size is too large or no page is left to grow the cache: an object that is free is
\* always found.
NullOnlyWhenFull ==
  \A n \in Requests :
    \A r \in {kmalloc(mm, n)} :
      (~mm.fault /\ ~mm.overrun /\ ~r.st.fault /\ r.ptr = NIL) =>
          n > size[Len(size)] \/ (mm.free = {} /\ mm.TotalFree[CacheFor(n)] = 0)

ByteAllocator == INSTANCE PageAllocator WITH
  Zone <- AllPages \X (0..PAGE_2M_SIZE - 1),
  PagesIn <- LAMBDA o : {o.page} \X (o.at..(o.at + o.len - 1)),
  held <- objects,
  reserved <- {}

\* Until a caller overwrites a map, kmalloc and kfree implement the allocator that
\* PageAllocator describes, byte by byte: no two objects share a byte until one is
\* given back.  In a slab that kmalloc added to a large class (memory.c:518) the map
\* lies under the first object, whose holder overwrites it when it first writes there;
\* AllocSlab then hands out what the map says.
ObjectsDisjoint ==
  ByteAllocator!Init /\ [][mm.overrun \/ ByteAllocator!Next]_objects
===============================================================================
