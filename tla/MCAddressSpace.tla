--------------------------- MODULE MCAddressSpace ---------------------------
(* Nine pages of two bytes: code, a heap of two pages, and the rest for mmap. *)
EXTENDS AddressSpace, TLC

CONSTANTS f1, f2, f3

ThreeFrames == {f1, f2, f3}
FramesSymmetry == Permutations(ThreeFrames)
OnePage == {1}
TwoProts == {{"read"}, {"read", "write"}}

\* Addresses a caller passes: none, and aligned and unaligned ones that keep
\* clear of code and heap, or lie in the heap.
AboveHeap == {0, 8, 11, 16}
InHeap == {0, 4, 8}

=============================================================================
