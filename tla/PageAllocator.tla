---------------------------- MODULE PageAllocator ----------------------------
(***************************************************************************)
(* What alloc_pages and free_pages promise their callers: a block nobody   *)
(* else has, made of pages nobody reserved, kept until it is given back.   *)
(***************************************************************************)

CONSTANTS
  Zone,        \* the pages of the zone
  PagesIn(_)   \* the pages of a block

VARIABLES
  reserved,    \* pages that are never handed out
  held         \* blocks handed out and not given back

Init == reserved = {} /\ held = {}

\* Pages are reserved at boot, before anything is handed out.
Reserve ==
  /\ held = {} /\ UNCHANGED held
  /\ reserved \subseteq reserved' /\ reserved' \subseteq Zone

Alloc ==
  \E b \in held' \ held :
    /\ held' = held \cup {b}
    /\ PagesIn(b) \subseteq Zone \ reserved
    /\ \A c \in held : PagesIn(b) \cap PagesIn(c) = {}
    /\ UNCHANGED reserved

Free ==
  \E b \in held : held' = held \ {b} /\ UNCHANGED reserved

Next == Reserve \/ Alloc \/ Free

Spec == Init /\ [][Next]_<<reserved, held>>

=============================================================================
