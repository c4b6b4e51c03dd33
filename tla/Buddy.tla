-------------------------------- MODULE Buddy --------------------------------
(***************************************************************************)
(* The physical page allocator of kernel/memory.c: one zone of 4 KiB       *)
(* pages, one LIFO free list per order, splitting on allocation and buddy  *)
(* merging on release, and the boot code that reserves the kernel's own    *)
(* pages and seeds the free lists with what is left.                       *)
(*                                                                         *)
(* A page is its absolute index (PhyAddr >> 12).  Each iteration of the    *)
(* split loop, of the merge loop and of the seeding loop is one step; pc   *)
(* says where in the code the running call stands, and nothing else runs   *)
(* until it returns.  Page.Attribute is left out: no branch reads it.      *)
(***************************************************************************)
EXTENDS Integers, Sequences, FiniteSets

CONSTANTS
  ZoneStart,    \* index of the zone's first page (ZoneStartAddr >> 12)
  ZoneEnd,      \* index just past its last page (ZoneEndAddr >> 12)
  MAX_ORDER,    \* number of orders; the largest block has order MAX_ORDER - 1
  BlockPages    \* BlockPages[o] is the C expression 1 << o

ASSUME ZoneAssumption ==
  /\ ZoneStart \in Nat /\ ZoneEnd \in Nat /\ ZoneStart < ZoneEnd
  /\ MAX_ORDER \in Nat \ {0}

ASSUME BlockPagesAssumption ==
  /\ BlockPages \in [0..MAX_ORDER -> Nat \ {0}]
  /\ BlockPages[0] = 1
  /\ \A o \in 0..MAX_ORDER-1 : BlockPages[o+1] = 2 * BlockPages[o]

Orders == 0..MAX_ORDER-1
ZonePages == ZoneStart..ZoneEnd-1

\* The pages of the block of order b.order whose first page is b.page.
Pages(b) == b.page .. b.page + BlockPages[b.order] - 1

Block(p, o) == [page |-> p, order |-> o]
NoBlock == Block(0, 0)
Elements(s) == {s[i] : i \in 1..Len(s)}

VARIABLES
  free_list,        \* order -> sequence of first pages, head of the list first
  nr_free,          \* order -> the counter kept beside each list
  PageFreeCount,
  PageUsingCount,
  TotalPagesLink,
  RefCount,         \* page -> reference count
  reserved,         \* the pages whose reserved flag is set
  pc,               \* where the running call stands ("idle" when there is none)
  cur,              \* the block the split or merge loop has reached
  req,              \* the block the call was made for
  held              \* blocks handed out to callers and not yet given back

counters == <<PageFreeCount, PageUsingCount, TotalPagesLink>>
lists    == <<free_list, nr_free>>
vars     == <<lists, counters, RefCount, reserved, pc, cur, req, held>>

-----------------------------------------------------------------------------
(* Helpers of the C code *)

\* page_index ^ (1 << order)
BuddyOf(p, o) ==
  IF (p \div BlockPages[o]) % 2 = 0 THEN p + BlockPages[o] ELSE p - BlockPages[o]

\* The smallest order whose block holds number pages, MAX_ORDER if none does.
get_order(number) ==
  CHOOSE o \in 0..MAX_ORDER :
    /\ o = MAX_ORDER \/ number <= BlockPages[o]
    /\ \A k \in 0..o-1 : number > BlockPages[k]

\* Mutant: the buddy stays on its list.
WithoutNothing(s, p) == s

\* ListDelete of the node that holds p.
Without(s, p) ==
  LET at == CHOOSE i \in 1..Len(s) : s[i] = p
  IN  [i \in 1..Len(s)-1 |-> IF i < at THEN s[i] ELSE s[i+1]]

\* ListBackAdd: insert at the head of a list.
PushFront(s, p) == <<p>> \o s

-----------------------------------------------------------------------------
(* Boot *)

Init ==
  /\ free_list = [o \in Orders |-> <<>>]
  /\ nr_free = [o \in Orders |-> 0]
  /\ PageFreeCount = ZoneEnd - ZoneStart
  /\ PageUsingCount = 0
  /\ TotalPagesLink = 0
  /\ RefCount = [p \in ZonePages |-> 0]
  /\ reserved = {}
  /\ pc = "reserve"
  /\ cur = NoBlock /\ req = NoBlock
  /\ held = {}

\* Mutant: pages that are reserved already are counted again.
ReserveAgain(first, last) ==
  LET n == Cardinality((first..last-1) \cap ZonePages)
  IN  /\ pc = "reserve"
      /\ reserved' = reserved \cup (first..last-1)
      /\ PageFreeCount' = PageFreeCount - n /\ PageUsingCount' = PageUsingCount + n
      /\ TotalPagesLink' = TotalPagesLink + n
      /\ RefCount' = [p \in ZonePages |-> IF p \in reserved' THEN 1 ELSE 0]
      /\ UNCHANGED <<lists, pc, cur, req, held>>

\* reserve_phys_range over the pages first..last-1.
Reserve(first, last) ==
  LET fresh == {p \in first..last-1 : p \in ZonePages /\ p \notin reserved}
      unref == {p \in fresh : RefCount[p] = 0}
  IN  /\ pc = "reserve"
      /\ reserved' = reserved \cup fresh
      /\ PageFreeCount' = PageFreeCount - Cardinality(fresh)
      /\ PageUsingCount' = PageUsingCount + Cardinality(fresh)
      /\ TotalPagesLink' = TotalPagesLink + Cardinality(unref)
      /\ RefCount' = [p \in ZonePages |-> IF p \in unref THEN 1 ELSE RefCount[p]]
      /\ UNCHANGED <<lists, pc, cur, req, held>>

\* init_buddy_system starts; cur.page is its cursor.
SeedStart ==
  /\ pc = "reserve"
  /\ pc' = "seed"
  /\ cur' = Block(ZoneStart, 0)
  /\ UNCHANGED <<lists, counters, RefCount, reserved, req, held>>

\* Does the block of order o at page p fit in a run of unreserved pages?
RunFits(p, o) ==
  /\ p + BlockPages[o] <= ZoneEnd
  /\ (p .. p + BlockPages[o] - 1) \cap reserved = {}
  /\ p % BlockPages[o] = 0

SeedOrder(p) ==
  CHOOSE o \in Orders :
    /\ o = 0 \/ RunFits(p, o)
    /\ \A k \in o+1..MAX_ORDER-1 : ~RunFits(p, k)

\* Mutant: the page after a reserved one is skipped too.
SeedSkipTwo ==
  /\ pc = "seed" /\ cur.page < ZoneEnd /\ cur.page \in reserved
  /\ cur' = Block(cur.page + 2, 0)
  /\ UNCHANGED <<lists, counters, RefCount, reserved, pc, req, held>>

SeedSkip ==
  /\ pc = "seed" /\ cur.page < ZoneEnd /\ cur.page \in reserved
  /\ cur' = Block(cur.page + 1, 0)
  /\ UNCHANGED <<lists, counters, RefCount, reserved, pc, req, held>>

SeedBlock ==
  /\ pc = "seed" /\ cur.page < ZoneEnd /\ cur.page \notin reserved
  /\ pc' = "seed_core"
  /\ cur' = Block(cur.page, SeedOrder(cur.page))
  /\ req' = cur'
  /\ UNCHANGED <<lists, counters, RefCount, reserved, held>>

SeedDone ==
  /\ pc = "seed" /\ cur.page >= ZoneEnd
  /\ pc' = "idle"
  /\ cur' = NoBlock /\ req' = NoBlock
  /\ UNCHANGED <<lists, counters, RefCount, reserved, held>>

-----------------------------------------------------------------------------
(* Allocation *)

\* alloc_pages up to the first order with a free block.
AllocStart(number) ==
  /\ pc = "idle"
  /\ \E i \in Orders :
       /\ i >= get_order(number) /\ nr_free[i] # 0
       /\ \A k \in get_order(number)..i-1 : nr_free[k] = 0
       /\ pc' = "split"
       /\ cur' = Block(0, i)
       /\ req' = Block(0, get_order(number))
  /\ UNCHANGED <<lists, counters, RefCount, reserved, held>>

\* alloc_pages returns NULL: the request is larger than the largest block, or
\* no order that could serve it has a free block.
AllocFail(number) ==
  /\ pc = "idle"
  /\ \A i \in get_order(number)..MAX_ORDER-1 : nr_free[i] = 0
  /\ UNCHANGED vars

\* Mutant: the upper half starts one page early.
AllocSplitEarly ==
  /\ pc = "split" /\ cur.order > req.order
  /\ LET ob == cur.order
         b  == Head(free_list[ob])
     IN  /\ free_list' = [free_list EXCEPT
              ![ob]   = Tail(@),
              ![ob-1] = PushFront(PushFront(@, b + BlockPages[ob-1] - 1), b)]
         /\ nr_free' = [nr_free EXCEPT ![ob] = @ - 1, ![ob-1] = @ + 2]
         /\ cur' = Block(0, ob - 1)
  /\ UNCHANGED <<counters, RefCount, reserved, pc, req, held>>

\* One iteration of the split loop of get_page_from_freelist.
AllocSplit ==
  /\ pc = "split" /\ cur.order > req.order
  /\ LET ob == cur.order
         b  == Head(free_list[ob])
     IN  /\ free_list' = [free_list EXCEPT
              ![ob]   = Tail(@),
              ![ob-1] = PushFront(PushFront(@, b + BlockPages[ob-1]), b)]
         /\ nr_free' = [nr_free EXCEPT ![ob] = @ - 1, ![ob-1] = @ + 2]
         /\ cur' = Block(0, ob - 1)
  /\ UNCHANGED <<counters, RefCount, reserved, pc, req, held>>

\* The rest of get_page_from_freelist: take the head and account for it.
AllocTake ==
  /\ pc = "split" /\ cur.order = req.order
  /\ LET o == req.order
         b == Block(Head(free_list[o]), o)
     IN  /\ free_list' = [free_list EXCEPT ![o] = Tail(@)]
         /\ nr_free' = [nr_free EXCEPT ![o] = @ - 1]
         /\ PageFreeCount' = PageFreeCount - BlockPages[o]
         /\ PageUsingCount' = PageUsingCount + BlockPages[o]
         /\ TotalPagesLink' = TotalPagesLink + BlockPages[o]
         /\ RefCount' = [p \in ZonePages |->
              IF p \in Pages(b) THEN RefCount[p] + 1 ELSE RefCount[p]]
         /\ held' = held \cup {b}
  /\ pc' = "idle" /\ cur' = NoBlock /\ req' = NoBlock
  /\ UNCHANGED reserved

-----------------------------------------------------------------------------
(* Release *)

\* free_pages: a caller gives back a block with the size it asked for.
FreeStart(b) ==
  /\ pc = "idle" /\ b \in held
  /\ pc' = "free_core"
  /\ cur' = b /\ req' = b
  /\ held' = held \ {b}
  /\ UNCHANGED <<lists, counters, RefCount, reserved>>

\* Mutant: only a buddy below the block is merged.
CanMergeBelow(p, o) ==
  /\ o < MAX_ORDER - 1
  /\ BuddyOf(p, o) >= ZoneStart /\ BuddyOf(p, o) < p
  /\ BuddyOf(p, o) \in Elements(free_list[o])

\* The conditions under which the merge loop goes on.
CanMerge(p, o) ==
  /\ o < MAX_ORDER - 1
  /\ BuddyOf(p, o) >= ZoneStart /\ BuddyOf(p, o) < ZoneEnd
  /\ BuddyOf(p, o) \in Elements(free_list[o])

\* One iteration of the merge loop of __free_pages_core.
CoreMerge ==
  /\ pc \in {"free_core", "seed_core"} /\ CanMerge(cur.page, cur.order)
  /\ LET o == cur.order
         buddy == BuddyOf(cur.page, o)
     IN  /\ free_list' = [free_list EXCEPT ![o] = Without(@, buddy)]
         /\ nr_free' = [nr_free EXCEPT ![o] = @ - 1]
         /\ cur' = Block(IF buddy < cur.page THEN buddy ELSE cur.page, o + 1)
  /\ UNCHANGED <<counters, RefCount, reserved, pc, req, held>>

\* Mutant: nr_free is not incremented.
CoreInsertUncounted ==
  /\ ~CanMerge(cur.page, cur.order)
  /\ free_list' = [free_list EXCEPT ![cur.order] = PushFront(@, cur.page)]
  /\ UNCHANGED nr_free

CoreInsert ==
  /\ ~CanMerge(cur.page, cur.order)
  /\ free_list' = [free_list EXCEPT ![cur.order] = PushFront(@, cur.page)]
  /\ nr_free' = [nr_free EXCEPT ![cur.order] = @ + 1]

\* The end of __free_pages_core and the accounting of __free_pages.
FreeInsert ==
  /\ pc = "free_core"
  /\ CoreInsert
  /\ PageFreeCount' = PageFreeCount + BlockPages[req.order]
  /\ PageUsingCount' = PageUsingCount - BlockPages[req.order]
  /\ TotalPagesLink' = TotalPagesLink - BlockPages[req.order]
  /\ RefCount' = [p \in ZonePages |->
       IF p \in Pages(req) THEN RefCount[p] - 1 ELSE RefCount[p]]
  /\ pc' = "idle" /\ cur' = NoBlock /\ req' = NoBlock
  /\ UNCHANGED <<reserved, held>>

\* The end of __free_pages_core when init_buddy_system called it.
SeedInsert ==
  /\ pc = "seed_core"
  /\ CoreInsert
  /\ pc' = "seed"
  /\ cur' = Block(req.page + BlockPages[req.order], 0)
  /\ UNCHANGED <<counters, RefCount, reserved, req, held>>

-----------------------------------------------------------------------------

Next ==
  \/ \E first, last \in ZoneStart..ZoneEnd : Reserve(first, last)
  \/ SeedStart \/ SeedSkip \/ SeedBlock \/ SeedDone
  \/ \E number \in 1..BlockPages[MAX_ORDER] : AllocStart(number) \/ AllocFail(number)
  \/ AllocSplit \/ AllocTake
  \/ \E b \in held : FreeStart(b)
  \/ CoreMerge \/ FreeInsert \/ SeedInsert

Spec == Init /\ [][Next]_vars

-----------------------------------------------------------------------------
(* Properties *)

FreeBlocks == UNION {{Block(p, o) : p \in Elements(free_list[o])} : o \in Orders}
InFlight   == IF pc \in {"free_core", "seed_core"} THEN {cur} ELSE {}
AllBlocks  == FreeBlocks \cup InFlight \cup held
PagesOf(B) == UNION {Pages(b) : b \in B}
BlockSpace == [page : Nat, order : Orders]

\* The shapes of the lists, the counters and the walk in progress; a RefCount
\* that __free_pages decrements never goes below zero.
TypeOK ==
  /\ free_list \in [Orders -> Seq(Nat)]
  /\ nr_free \in [Orders -> Nat]
  /\ PageFreeCount \in Int /\ PageUsingCount \in Int /\ TotalPagesLink \in Int
  /\ RefCount \in [ZonePages -> Nat]
  /\ reserved \subseteq ZonePages
  /\ pc \in {"reserve", "seed", "seed_core", "idle", "split", "free_core"}
  /\ cur \in BlockSpace /\ req \in BlockSpace
  /\ held \subseteq BlockSpace

\* No page of the zone is in two places at once: on two free lists, on one
\* list twice, free and handed out by alloc_pages, handed out twice, or in the
\* block that __free_pages_core is merging and anywhere else; and no block
\* holds a page that reserve_phys_range took or that lies outside the zone.
NoPageUsedTwice ==
  /\ \A b \in AllBlocks : Pages(b) \subseteq ZonePages \ reserved
  /\ \A b, c \in AllBlocks : b # c => Pages(b) \cap Pages(c) = {}
  /\ FreeBlocks \cap held = {} /\ InFlight \cap (FreeBlocks \cup held) = {}
  /\ \A o \in Orders : \A i, j \in 1..Len(free_list[o]) :
       i # j => free_list[o][i] # free_list[o][j]

\* Splitting and merging lose no page: from the end of init_buddy_system on,
\* every unreserved page is in a free block, in the block being merged, or in
\* a block some caller holds.
NoPageLost ==
  pc \in {"idle", "split", "free_core"} =>
    PagesOf(AllBlocks) = ZonePages \ reserved

\* nr_free, which get_page_from_freelist trusts instead of looking at the list,
\* is the length of the list, so the head it dereferences exists.
NrFreeIsLength == \A o \in Orders : nr_free[o] = Len(free_list[o])

\* Between calls the zone's three counters and every RefCount say exactly what
\* the lists and the callers' blocks say.
CountersExact ==
  pc = "idle" =>
    /\ PageFreeCount = Cardinality(PagesOf(FreeBlocks))
    /\ PageUsingCount = Cardinality(reserved \cup PagesOf(held))
    /\ TotalPagesLink = PageUsingCount
    /\ \A p \in ZonePages :
         RefCount[p] = IF p \in reserved \cup PagesOf(held) THEN 1 ELSE 0

\* An allocation of order o can only fail when no aligned run of 2^o free
\* pages exists: the merging of __free_pages_core and of init_buddy_system
\* leaves no such run cut into smaller free blocks.
NoFalseOutOfMemory ==
  pc = "idle" =>
    \A o \in Orders :
      (\A i \in o..MAX_ORDER-1 : nr_free[i] = 0) =>
        ~ \E p \in ZonePages :
            p % BlockPages[o] = 0 /\ Pages(Block(p, o)) \subseteq PagesOf(FreeBlocks)

\* The lists, the split and merge loops and the boot code together do what the
\* callers of alloc_pages and free_pages rely on.
Allocator == INSTANCE PageAllocator WITH Zone <- ZonePages, PagesIn <- Pages

ImplementsPageAllocator == Allocator!Spec

=============================================================================
