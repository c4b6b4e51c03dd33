---------------------------- MODULE MCSequential ----------------------------
(* Parts of the kernel and of init that run one call at a time: the page and *)
(* the slab allocator, directories, the decoder of the keyboard, the shell   *)
(* and formatted output.  They share no state here: part says which of them  *)
(* runs, and the others stay as they start.                                  *)
EXTENDS Buddy, Slab, Directory, KeyDecode, Shell, Format

CONSTANTS p1, p2, s1, s2

VARIABLE part

\* A zone that starts on an odd page: the buddy of its first page is outside.
Powers == [o \in 0..MAX_ORDER |-> 2^o]

\* Two caches, the first with its slabs in their own pages.
TwoPages == {p1, p2}
TwoStatic == <<s1, s2>>
TwoSizes == <<2, 4>>
FirstOnly == {1}
SmallLargeHuge == {2, 3, 5}

\* Directories of short names, one of them with 0x05, a long name in two pieces,
\* deleted entries and end marks.  0xe5 in ldir_ord reads as piece 37.
ShortEntry(b, x, mark, nt) ==
  [long |-> FALSE, mark |-> mark, base |-> b, ext |-> x, nt |-> nt, isdir |-> FALSE]
PieceEntry(o, last, text, mark) ==
  [long |-> TRUE, mark |-> mark, ord |-> o, last |-> last, part |-> text]
EndMark == ShortEntry(<<>>, <<>>, "00", FALSE)
EntryKinds ==
  { ShortEntry(<<"A">>, <<"B">>, "name", TRUE),
    ShortEntry(<<"C">>, <<>>, "name", FALSE),
    ShortEntry(<<"e5", "D">>, <<>>, "e5", FALSE),
    ShortEntry(<<"05", "D">>, <<>>, "05", FALSE),
    EndMark,
    PieceEntry(2, TRUE, <<"a">>, "name"),
    PieceEntry(1, FALSE, <<"b">>, "name"),
    PieceEntry(37, TRUE, <<"b">>, "e5") }
AskedFor == { <<"A", "B">> }
Distinct(es) == \A s, t \in DOMAIN es : (es[s] = es[t] /\ es[s].mark = "name") => s = t

\* The printing keys of a US keyboard: plain and with shift, in the order of the
\* rows, along which their codes ascend.
Pairs ==
  <<<<"1", "!">>, <<"2", "@">>, <<"3", "#">>, <<"4", "$">>, <<"5", "%">>, <<"6", "^">>,
    <<"7", "&">>, <<"8", "*">>, <<"9", "(">>, <<"0", ")">>, <<"-", "_">>, <<"=", "+">>,
    <<"q", "Q">>, <<"w", "W">>, <<"e", "E">>, <<"r", "R">>, <<"t", "T">>, <<"y", "Y">>,
    <<"u", "U">>, <<"i", "I">>, <<"o", "O">>, <<"p", "P">>, <<"[", "{">>, <<"]", "}">>,
    <<"a", "A">>, <<"s", "S">>, <<"d", "D">>, <<"f", "F">>, <<"g", "G">>, <<"h", "H">>,
    <<"j", "J">>, <<"k", "K">>, <<"l", "L">>, <<";", ":">>, <<"'", "\"">>, <<"backquote", "~">>,
    <<"\\", "|">>, <<"z", "Z">>, <<"x", "X">>, <<"c", "C">>, <<"v", "V">>, <<"b", "B">>,
    <<"n", "N">>, <<"m", "M">>, <<",", "<">>, <<".", ">">>, <<"/", "?">>>>
LetterCodes == (2..13) \cup (16..27) \cup (30..41) \cup (43..53)
LegendOf(k) == Pairs[Cardinality(LetterCodes \cap 0..k)]
UpAndAlt == {72, 56}

\* Every printing key with the two shift keys, and one of them with Backspace, Tab,
\* Enter, control and alt as well.
SpecialKeys == {30, 14, 15, 28, 29, 42, 54, 56}
OneOrSpecial == {{k, 42, 54} : k \in LetterCodes} \cup {SpecialKeys}

\* Lines of two letters and blanks.
TwoLettersAndBlank == {"l", "s", " "}
SomeCommands == <<<<"l", "s">>, <<"s">>>>

\* ints of four bits, longs of six.
Number(conv, vs) == {[conv |-> conv, num |-> v, str |-> <<>>] : v \in vs}
Text(conv, ss) == {[conv |-> conv, num |-> 0, str |-> s] : s \in ss}
SomeItems ==
  Number("x", {0, 7, 15, 31}) \cup Number("X", {10, 31, 63}) \cup Number("p", {47})
  \cup Number("d", {0, 5, 7, 12, 16}) \cup Number("D", {0, 10, 31, 60})
  \cup Text("s", {<<>>, <<"h", "i">>, <<"l", "o", "n", "g", "e", "r">>})
  \cup Text("c", {<<"c">>}) \cup Text("plain", {<<"z">>})
  \cup Number("%", {0}) \cup Number("?", {0})

-----------------------------------------------------------------------------

Parts == {"buddy", "slab", "directory", "keys", "shell", "format"}

\* The initial states of a part that does not run are cut down to one.
SequentialInit ==
  /\ part \in Parts
  /\ IF part = "directory" THEN TRUE ELSE dir = [s \in Slots |-> EndMark]
  /\ IF part = "keys" THEN TRUE ELSE keys = SpecialKeys
  /\ IF part = "format" THEN TRUE ELSE side = "user"
  /\ Init /\ SlabInit /\ DirectoryInit /\ KeyDecodeInit /\ ShellInit /\ FormatInit

\* The kernel is lost, a caller has overwritten the map of a slab, the task is gone in
\* a page fault, the bound on the keys is reached, or the text is on the screen.
Finished ==
  mm.fault \/ mm.overrun \/ ~Runs \/ part = "keys" \/ (part = "format" /\ side = "done")

SequentialNext ==
  /\ UNCHANGED part
  /\ \/ /\ part = "buddy" /\ Next
        /\ UNCHANGED <<slab_vars, directory_vars, decode_vars, shell_vars, format_vars>>
     \/ /\ part = "slab" /\ ~mm.overrun /\ SlabNext
        /\ UNCHANGED <<vars, directory_vars, decode_vars, shell_vars, format_vars>>
     \/ /\ part = "directory" /\ DirectoryNext
        /\ UNCHANGED <<vars, slab_vars, decode_vars, shell_vars, format_vars>>
     \/ /\ part = "keys" /\ regular /\ KeyDecodeNext
        /\ UNCHANGED <<vars, slab_vars, directory_vars, shell_vars, format_vars>>
     \/ /\ part = "shell" /\ ShellNext
        /\ UNCHANGED <<vars, slab_vars, directory_vars, decode_vars, format_vars>>
     \/ /\ part = "format" /\ FormatNext
        /\ UNCHANGED <<vars, slab_vars, directory_vars, decode_vars, shell_vars>>
     \/ /\ Finished
        /\ UNCHANGED <<vars, slab_vars, directory_vars, decode_vars, shell_vars, format_vars>>

SequentialSpec ==
  SequentialInit /\ [][SequentialNext]_<<part, vars, slab_vars, directory_vars, decode_vars,
                                         shell_vars, format_vars>>

-----------------------------------------------------------------------------
(* The invariants of Slab take long and are left out for the other parts.    *)

\* CountsExact and TakenIsHeld: until a caller writes to an object that lies over the
\* map of its slab (memory.c:518), the three places in which kmalloc and kfree count
\* objects agree, and the maps they count mark exactly what the callers and the slabs
\* themselves hold.
SlabBooks == part = "slab" => CountsExact /\ TakenIsHeld

\* PagesAccounted: until then, a page that kmalloc got is free again or carries one slab.
SlabPageUse == part = "slab" => PagesAccounted

\* NullOnlyWhenFull: until then, kmalloc finds an object if there is one.
SlabServes == part = "slab" => NullOnlyWhenFull

=============================================================================
