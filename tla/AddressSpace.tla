---------------------------- MODULE AddressSpace ----------------------------
(***************************************************************************)
(* The user half of one address space: the list of mapped areas of         *)
(* kernel/vma.c, do_mmap and do_munmap of kernel/mmap.c, and the page      *)
(* tables, page faults and heap of kernel/memory.c and kernel/sys.c.       *)
(*                                                                         *)
(* Areas, page-table entries and EndBrk are counted in pages; callers pass *)
(* addresses and lengths in bytes.  The page tables are a function from    *)
(* pages to entries; that kmalloc may fail to give a table, or an area     *)
(* descriptor, is a choice (ok, bad).  Pages of the zone are the set       *)
(* Frames.                                                                 *)
(***************************************************************************)
EXTENDS Integers, Sequences, SequencesExt, FiniteSets, FiniteSetsExt

CONSTANTS
  PAGE_SIZE,   \* bytes in a page
  USER_LIMIT,  \* first page that is not the user's
  MMAP_BASE,   \* DEFAULT_MMAP_BASE, a page
  CodePages,   \* the pages execve maps for code and stack
  StartBrk,    \* first page of the heap
  BrkLimit,    \* bound: the largest heap end a caller asks for, in pages
  Frames,      \* physical pages
  NoFrame,     \* an entry that is not present
  Addresses,   \* the byte addresses callers pass to do_mmap
  Prots,       \* the protections callers pass
  MaxLen       \* bound: the largest length callers pass, in bytes

ASSUME SizesAssumption ==
  /\ PAGE_SIZE \in Nat \ {0} /\ USER_LIMIT \in Nat /\ MaxLen \in Nat
  /\ MMAP_BASE \in 1..USER_LIMIT-1 /\ StartBrk \in 1..USER_LIMIT-1
  /\ BrkLimit \in StartBrk..USER_LIMIT /\ CodePages \subseteq 1..StartBrk-1
  /\ NoFrame \notin Frames /\ IsFiniteSet(Frames) /\ Addresses \subseteq Nat

UserPages == 1..USER_LIMIT-1
ENOMEM == 2 * USER_LIMIT          \* as a page number: beyond every user address
Access == {"read", "write", "exec"}

VARIABLES
  vma_list,   \* areas [start, end, prot], in list order
  pte,        \* page -> [frame, write]
  free,       \* frames AllocPage4K can give
  EndBrk,
  grown,      \* history: the end of the heap after the last call that could move it
  halted      \* DoPageFault has stopped the machine

space_vars == <<vma_list, pte, free, EndBrk, grown, halted>>

PAGE_ALIGN_UP(bytes)   == (bytes + PAGE_SIZE - 1) \div PAGE_SIZE
PAGE_ALIGN_DOWN(bytes) == bytes \div PAGE_SIZE

Present(p) == pte[p].frame # NoFrame
Absent == [frame |-> NoFrame, write |-> FALSE]

-----------------------------------------------------------------------------
(* vma.c *)

\* The first index of s that satisfies Test, or one past the end.
First(s, Test(_)) == Min({i \in 1..Len(s) : Test(s[i])} \cup {Len(s) + 1})

\* The index of the first area that ends after page p.
find_vma(p) == First(vma_list, LAMBDA v : p < v.end)

range_is_free(start, len) ==
  LET end == start + len
      at  == First(vma_list, LAMBDA v : end <= v.start \/ start < v.end)
  IN  /\ len # 0 /\ start >= 1 /\ start < USER_LIMIT /\ len <= USER_LIMIT - start
      /\ at <= Len(vma_list) => end <= vma_list[at].start

\* Mutant: a gap of exactly the right size is passed over.
ConsiderLarger(acc, v, len) ==
  IF acc.found \/ v.end <= acc.cur THEN acc
  ELSE IF v.start >= acc.cur /\ v.start - acc.cur > len THEN [acc EXCEPT !.found = TRUE]
  ELSE IF v.end >= USER_LIMIT \/ len > USER_LIMIT - v.end
       THEN [cur |-> ENOMEM, found |-> TRUE]
  ELSE [acc EXCEPT !.cur = v.end]

\* One area of the walk of find_unmapped_area.
Consider(acc, v, len) ==
  IF acc.found \/ v.end <= acc.cur THEN acc
  ELSE IF v.start >= acc.cur /\ v.start - acc.cur >= len THEN [acc EXCEPT !.found = TRUE]
  ELSE IF v.end >= USER_LIMIT \/ len > USER_LIMIT - v.end
       THEN [cur |-> ENOMEM, found |-> TRUE]
  ELSE [acc EXCEPT !.cur = v.end]

find_unmapped_area(len) ==
  IF len > USER_LIMIT - 1 \/ len > USER_LIMIT - MMAP_BASE THEN ENOMEM
  ELSE FoldLeft(LAMBDA acc, v : Consider(acc, v, len),
                [cur |-> MMAP_BASE, found |-> FALSE], vma_list).cur

\* Mutant: a new area always goes to the end of the list.
insert_last(start, end) == Len(vma_list) + 1

\* The place insert_vma gives an area, 0 when it overlaps one.
insert_at(start, end) ==
  LET at == First(vma_list, LAMBDA v : end <= v.start \/ start < v.end)
  IN  IF at <= Len(vma_list) /\ ~(end <= vma_list[at].start) THEN 0 ELSE at

-----------------------------------------------------------------------------
(* mmap.c *)

\* The page an mapping of len pages gets.
get_unmapped_area(addr, len, fixed) ==
  LET hint == PAGE_ALIGN_DOWN(addr)
  IN  IF fixed
      THEN IF addr % PAGE_SIZE = 0 /\ range_is_free(hint, len) THEN hint ELSE ENOMEM
      ELSE IF addr # 0 /\ range_is_free(hint, len) THEN hint
      ELSE find_unmapped_area(len)

do_mmap(addr, bytes, prot, fixed, ok) ==
  LET len   == PAGE_ALIGN_UP(bytes)
      start == get_unmapped_area(addr, len, fixed)
      at    == insert_at(start, start + len)
  IN  /\ ~halted /\ bytes # 0
      /\ IF start # ENOMEM /\ ok /\ at # 0
         THEN vma_list' = InsertAt(vma_list, at,
                            [start |-> start, end |-> start + len, prot |-> prot])
         ELSE UNCHANGED vma_list
      /\ UNCHANGED <<pte, free, EndBrk, grown, halted>>

\* Mutant: an area cut in the middle loses its upper part.
RestLower(v, start, end) ==
  IF v.end <= start \/ v.start >= end THEN <<v>>
  ELSE IF v.start < start THEN <<[v EXCEPT !.end = start]>>
  ELSE IF end < v.end THEN <<[v EXCEPT !.start = end]>> ELSE <<>>

\* What is left of area v when the pages start..end-1 go.
Rest(v, start, end) ==
  IF v.end <= start \/ v.start >= end THEN <<v>>
  ELSE (IF v.start < start THEN <<[v EXCEPT !.end = start]>> ELSE <<>>)
       \o (IF end < v.end THEN <<[v EXCEPT !.start = end]>> ELSE <<>>)

Area(v) == v.start .. v.end - 1
VmaPages == UNION {Area(vma_list[i]) : i \in 1..Len(vma_list)}

\* unmap_anonymous_pages for every area that meets the range.
Unmap(gone) ==
  /\ pte' = [p \in UserPages |-> IF p \in gone THEN Absent ELSE pte[p]]
  /\ free' = free \cup {pte[p].frame : p \in {q \in gone : Present(q)}}

Remaining(start, end) ==
  FlattenSeq([i \in 1..Len(vma_list) |-> Rest(vma_list[i], start, end)])

\* Splitting one area in two takes a new descriptor.
do_munmap(start, bytes, ok) ==
  LET len == PAGE_ALIGN_UP(bytes)
      end == start + len
      splits == \E i \in 1..Len(vma_list) : vma_list[i].start < start /\ end < vma_list[i].end
  IN  /\ ~halted /\ bytes # 0 /\ len <= USER_LIMIT - start
      /\ splits => ok
      /\ vma_list' = Remaining(start, end)
      /\ Unmap(VmaPages \cap (start..end-1))
      /\ UNCHANGED <<EndBrk, grown, halted>>

-----------------------------------------------------------------------------
(* Page faults and the heap *)

page_fault_access_allowed(v, access) == access \in v.prot

\* A user access to page p that the entry does not allow.  When
\* handle_page_fault fails, DoPageFault stops the machine.
PageFault(p, access, ok) ==
  LET i == find_vma(p)
      handled == /\ ~Present(p)
                 /\ i <= Len(vma_list) /\ vma_list[i].start <= p
                 /\ page_fault_access_allowed(vma_list[i], access)
                 /\ free # {} /\ ok
  IN  /\ ~halted
      /\ ~Present(p) \/ (access = "write" /\ ~pte[p].write)
      /\ IF handled
         THEN \E f \in free :
                /\ pte' = [pte EXCEPT ![p] =
                             [frame |-> f, write |-> "write" \in vma_list[i].prot]]
                /\ free' = free \ {f}
                /\ UNCHANGED halted
         ELSE halted' = TRUE /\ UNCHANGED <<pte, free>>
      /\ UNCHANGED <<vma_list, EndBrk, grown>>

\* The page at which the loop of MapUserRange4K fails: it is mapped already, there
\* is no frame for it, or no table (bad).  last if there is no such page.
MapStop(first, last, bad) ==
  Min({last} \cup {p \in first..last-1 : \/ Present(p) \/ p = bad
                                        \/ p - first >= Cardinality(free)})

\* The tables and the free frames after the loop has given the frames fs to the
\* pages first..stop-1.
Mapped(first, stop, fs) ==
  LET give == SetToSeq(fs)
  IN  [pte |-> [p \in UserPages |->
                  IF p \in first..stop-1
                  THEN [frame |-> give[p - first + 1], write |-> TRUE] ELSE pte[p]],
       free |-> free \ fs]

\* Mutant: the pages are unmapped and not freed.
UnmapBackLeaks(m, first, stop) ==
  [m EXCEPT !.pte = [p \in UserPages |-> IF p \in first..stop-1 THEN Absent ELSE @[p]]]

\* Mutant: the loop stops before it has come to the first page.
UnmapBackShort(m, first, stop) ==
  [pte |-> [p \in UserPages |-> IF p \in first+1..stop-1 THEN Absent ELSE m.pte[p]],
   free |-> m.free \cup {m.pte[p].frame : p \in first+1..stop-1}]

\* The loop at fail: from the page that failed back to the first one.
UnmapBack(m, first, stop) ==
  [pte |-> [p \in UserPages |-> IF p \in first..stop-1 THEN Absent ELSE m.pte[p]],
   free |-> m.free \cup {m.pte[p].frame : p \in first..stop-1}]

MapUserRange4K(first, last, bad) ==
  \E stop \in {MapStop(first, last, bad)} : \E fs \in kSubset(stop - first, free) :
    LET m == Mapped(first, stop, fs)
        r == IF stop = last THEN m ELSE UnmapBack(m, first, stop)
    IN  pte' = r.pte /\ free' = r.free

\* A failed do_brk stores its error in EndBrk; a smaller heap changes nothing.
sys_brk(bytes, bad) ==
  LET new == PAGE_ALIGN_UP(bytes)
      fits == MapStop(EndBrk, new, bad) = new
  IN  /\ ~halted /\ new # 0 /\ new >= EndBrk
      /\ MapUserRange4K(EndBrk, new, bad)
      /\ EndBrk' = IF fits THEN new ELSE ENOMEM
      /\ grown' = IF fits THEN new ELSE grown
      /\ UNCHANGED <<vma_list, halted>>

-----------------------------------------------------------------------------

\* After execve: code and stack are mapped, the heap is empty.
SpaceInit ==
  /\ vma_list = <<>>
  /\ \E fs \in kSubset(Cardinality(CodePages), Frames) :
       LET code == SetToSeq(CodePages)
           give == SetToSeq(fs)
       IN  /\ pte = [p \in UserPages |->
                       IF p \in CodePages
                       THEN [frame |-> give[CHOOSE i \in 1..Len(code) : code[i] = p],
                             write |-> TRUE]
                       ELSE Absent]
           /\ free = Frames \ fs
  /\ EndBrk = StartBrk /\ grown = StartBrk
  /\ halted = FALSE

Mmap ==
  \E addr \in Addresses, bytes \in 1..MaxLen, prot \in Prots :
    \E fixed, ok \in BOOLEAN : do_mmap(addr, bytes, prot, fixed, ok)

Munmap(start) == \E bytes \in 1..MaxLen, ok \in BOOLEAN : do_munmap(start, bytes, ok)

SpaceNext ==
  \/ Mmap
  \/ \E start \in UserPages : Munmap(start)
  \/ \E p \in UserPages, access \in Access, ok \in BOOLEAN : PageFault(p, access, ok)
  \/ \E bytes \in 1..BrkLimit * PAGE_SIZE, bad \in StartBrk..BrkLimit : sys_brk(bytes, bad)

SpaceSpec == SpaceInit /\ [][SpaceNext]_space_vars

-----------------------------------------------------------------------------
(* Properties *)

Heap == StartBrk..grown-1
Entry == [frame : Frames \cup {NoFrame}, write : BOOLEAN]

\* Areas are page aligned and lie between the first page and USER_LIMIT, where
\* insert_vma and range_is_free keep them.
SpaceTypeOK ==
  /\ vma_list \in Seq([start : UserPages, end : 2..USER_LIMIT, prot : Prots])
  /\ pte \in [UserPages -> Entry]
  /\ free \subseteq Frames
  /\ EndBrk \in StartBrk..BrkLimit \cup {ENOMEM} /\ grown \in StartBrk..BrkLimit
  /\ halted \in BOOLEAN

\* The list that find_vma, range_is_free and insert_vma walk is sorted and its
\* areas are disjoint, whatever do_mmap inserts and do_munmap cuts.
VmasDisjoint ==
  /\ \A i \in 1..Len(vma_list) : vma_list[i].start < vma_list[i].end
  /\ \A i, j \in 1..Len(vma_list) : i < j => vma_list[i].end <= vma_list[j].start

\* Every physical page is free or mapped at one place: a fault, do_munmap, and a heap
\* that could not grow after some of its pages were mapped (memory.c:749), neither
\* leaks a page nor maps it twice.
FramesConserved ==
  LET mapped == {p \in UserPages : Present(p)}
  IN  /\ \A p, q \in mapped : p # q => pte[p].frame # pte[q].frame
      /\ {pte[p].frame : p \in mapped} = Frames \ free

\* Outside code, stack and heap a page is present only inside an area, and writable
\* only if the area is: do_munmap leaves no page behind for a later area at the same
\* place, and a call that could not move the end of the heap leaves none above it.
EntriesMatchAreas ==
  \A p \in UserPages \ CodePages :
    Present(p) /\ p \notin Heap =>
      \E i \in 1..Len(vma_list) :
        p \in Area(vma_list[i]) /\ (pte[p].write <=> "write" \in vma_list[i].prot)

\* Is p the start of len free pages for find_unmapped_area?
Gap(p, len) ==
  p >= MMAP_BASE /\ p + len <= USER_LIMIT /\ (p..p+len-1) \cap VmaPages = {}

\* find_unmapped_area returns the lowest gap that is large enough, and fails
\* only when there is none.
LowestGap ==
  \A len \in 1..USER_LIMIT :
    LET gaps == {p \in UserPages : Gap(p, len)}
    IN  find_unmapped_area(len) = Min(gaps \cup {ENOMEM})

\* do_munmap takes away the pages it was asked for and no other, however many
\* areas they cut, and leaves a list of disjoint areas in order.
MunmapExact ==
  \A start \in UserPages : \A end \in start+1..USER_LIMIT :
    LET rest == Remaining(start, end)
    IN  /\ UNION {Area(rest[i]) : i \in 1..Len(rest)} = VmaPages \ (start..end-1)
        /\ \A i, j \in 1..Len(rest) : i < j => rest[i].end <= rest[j].start

\* mmap.c: "This first stage does not replace existing mappings."  The pages
\* of a new area are not mapped before.
MmapTakesFreePages ==
  [][\A p \in VmaPages' \ VmaPages : ~Present(p)]_space_vars

=============================================================================
