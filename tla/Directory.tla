------------------------------ MODULE Directory ------------------------------
(***************************************************************************)
(* Directories of kernel/fat32.c: fat32_lookup finds a name, fat32_readdir *)
(* lists them one call at a time, path_walk of kernel/vfs.c and sys_open   *)
(* follow a path.  A directory is what its chain of clusters holds, a      *)
(* sequence of entries; names are short sequences of characters.           *)
(***************************************************************************)
EXTENDS Naturals, FiniteSets, FiniteSetsExt, Sequences, SequencesExt

CONSTANTS
  Entries,         \* the entries a directory is made of
  PerClus,         \* how many of them a cluster holds
  Clusters,        \* how many clusters the chain of the directory has
  Names,           \* the names somebody asks for
  Allowed(_)       \* the directories of this instance

VARIABLES
  dir,             \* the entries on the disk, slot by slot
  position,        \* filp->position of the open root directory, in entries
  listed,          \* the slots getdents has returned since the last rewind
  ended,           \* getdents has returned 0
  answer           \* the last open: the path, the flag and the result

directory_vars == <<dir, position, listed, ended, answer>>

Slots == 1..(PerClus * Clusters)

\* The first byte of dir_name: 0xe5 is a deleted entry, 0x05 stands for a name
\* that begins with 0xe5, 0x00 marks the end.
Live(e) == e.mark = "name" \/ e.mark = "05"

\* What upper_case and lower_case make of the characters of this model.
Upper(c) == CASE c = "a" -> "A" [] c = "b" -> "B" [] OTHER -> c
Lower(c) == CASE c = "A" -> "a" [] c = "B" -> "b" [] OTHER -> c
upper_case(s) == [k \in DOMAIN s |-> Upper(s[k])]
lower_case(s) == [k \in DOMAIN s |-> Lower(s[k])]

\* fsde: the eleven bytes of an entry without the blanks.  An end mark is all 0.
fsde(e) == IF e.mark = "00" THEN <<>> ELSE upper_case(e.base \o e.ext)

\* fdn2sde: what the caller asks for without the dots and the blanks.
fdn2sde(name) == upper_case(SelectSeq(name, LAMBDA c : c # "." /\ c # " "))

\* The buffer of a long name has 256 bytes and a piece 13 characters.
PIECES == 256 \div 13

\* A piece of a long name goes to the place its order gives, which may lie behind
\* the buffer.
AddPiece(buf, e) ==
  IF e.ord > PIECES THEN buf
  ELSE [o \in DOMAIN buf \cup {e.ord} |-> IF o = e.ord THEN e.part ELSE buf[o]]

EmptyBuf == [o \in {} |-> <<>>]

\* The string in the buffer: the pieces up to the first one that is missing.
BufString(buf) ==
  LET n == CHOOSE k \in 0..Cardinality(DOMAIN buf) :
             (1..k) \subseteq DOMAIN buf /\ k + 1 \notin DOMAIN buf
  IN  FlattenSeq([k \in 1..n |-> buf[k]])

\* Mutant: the buffer of the long name is not cleared after a name.
BufferBeforeKept(s) ==
  LET buf[k \in 0..(s - 1)] ==
        IF k = 0 THEN EmptyBuf
        ELSE IF dir[k].long THEN AddPiece(buf[k-1], dir[k]) ELSE buf[k-1]
  IN  buf[s - 1]

\* What the buffer of the long name holds when the scan comes to slot s.
BufferBefore(s) ==
  LET buf[k \in 0..(s - 1)] ==
        IF k = 0 THEN EmptyBuf
        ELSE IF dir[k].long THEN AddPiece(buf[k-1], dir[k]) ELSE EmptyBuf
  IN  buf[s - 1]

\* Does the entry in slot s match?  An entry behind a long name is compared by the
\* long name alone, every other one by its short name, whatever its mark.
Matches(s, name) ==
  /\ ~dir[s].long
  /\ IF 1 \in DOMAIN BufferBefore(s)
     THEN name = BufString(BufferBefore(s))
     ELSE fdn2sde(name) = fsde(dir[s])

NotFound == 0

\* fat32_lookup: the first slot that matches, cluster after cluster.
fat32_lookup(name) ==
  IF \E s \in Slots : Matches(s, name) THEN Min({s \in Slots : Matches(s, name)}) ELSE NotFound

\* On the way to its result fat32_lookup has stored a piece behind its buffer, into
\* whatever the stack holds there: it looks at deleted pieces, too.
Overruns(name) ==
  \E k \in Slots : /\ dir[k].long /\ dir[k].ord > PIECES
                   /\ \A s \in 1..(k - 1) : ~Matches(s, name)

\* The index_node fat32_lookup returns.  The memset that is meant for the private
\* part clears the node: its size, its attribute and its superblock.
FS_ATTR_DIR == "dir"
inode_of(s) == [res |-> "ok", slot |-> s, file_size |-> 0, attribute |-> FS_ATTR_DIR, sb |-> "NULL"]

\* The root, set up by fat32_read_superblock.
root_inode == [res |-> "ok", slot |-> NotFound, file_size |-> 0, attribute |-> FS_ATTR_DIR, sb |-> "fsb"]

\* path_walk: the components of the path, one after the other.  A lookup in a node
\* without a superblock goes through a null pointer.
path_walk(path) ==
  LET walk[k \in 0..Len(path)] ==
        IF k = 0 THEN root_inode
        ELSE IF walk[k-1].res # "ok" THEN walk[k-1]
        ELSE IF walk[k-1].sb = "NULL" THEN [walk[k-1] EXCEPT !.res = "fault"]
        ELSE IF fat32_lookup(path[k]) = NotFound THEN [walk[k-1] EXCEPT !.res = "-ENOENT"]
        ELSE inode_of(fat32_lookup(path[k]))
  IN  walk[Len(path)]

\* sys_open up to the choice of the descriptor.
sys_open(path, O_DIRECTORY) ==
  LET node == path_walk(path)
  IN  IF node.res # "ok" THEN node
      ELSE IF ~O_DIRECTORY /\ node.attribute = FS_ATTR_DIR THEN [node EXCEPT !.res = "-EISDIR"]
      ELSE IF O_DIRECTORY /\ node.attribute # FS_ATTR_DIR THEN [node EXCEPT !.res = "-ENOTDIR"]
      ELSE node

\* sys_chdir wants a directory and keeps nothing.
sys_chdir(path) ==
  LET node == path_walk(path)
  IN  IF node.res = "ok" /\ node.attribute # FS_ATTR_DIR THEN [node EXCEPT !.res = "-ENOTDIR"] ELSE node

\* The 8.3 name fat32_readdir puts together.  The flag for a base in lower case
\* is honoured; the one for the extension works on a string that is still empty.
ShortName(e) ==
  (IF e.nt THEN lower_case(e.base) ELSE e.base) \o (IF e.ext = <<>> THEN <<>> ELSE <<".">> \o e.ext)

\* Mutant: entries that begin with 0xe5 are not skipped.
SkippedLess(e) == e.mark \in {"05", "00"}

Skipped(e) == e.mark \in {"e5", "05", "00"}

\* Where the position stands when the chain is used up.
DirEnd == PerClus * Clusters

\* One call of fat32_readdir: skip what is not a name, collect the long name on the
\* way, stop behind the first name.  The name buffer is empty when the call starts.
fat32_readdir(p) ==
  LET next == {s \in Slots : s > p /\ ~Skipped(dir[s]) /\ ~dir[s].long}
      s == Min(next)
      buf[k \in p..(s - 1)] ==
        IF k = p THEN EmptyBuf
        ELSE IF ~Skipped(dir[k]) /\ dir[k].long THEN AddPiece(buf[k-1], dir[k]) ELSE buf[k-1]
  IN  IF next = {} THEN [slot |-> NotFound, name |-> <<>>, position |-> DirEnd]
      ELSE [slot |-> s, position |-> s,
            name |-> IF 1 \in DOMAIN buf[s-1] THEN BufString(buf[s-1]) ELSE ShortName(dir[s])]

\* DoPageFault never returns from a null pointer, and a task whose stack is spoilt may
\* do anything: neither is followed further.
Runs == answer.node.res \notin {"fault", "lost"}

\* How a call that walks the path may end when it returns node if all goes well.
\* Only the root can be searched, so at most one lookup comes to an end.
Outcomes(path, node) ==
  {node} \cup IF path # <<>> /\ Overruns(path[1]) THEN {[node EXCEPT !.res = "lost"]} ELSE {}

Getdents ==
  /\ Runs
  /\ \E r \in {fat32_readdir(position)} :
       /\ position' = r.position
       /\ IF r.slot = NotFound
          THEN ended' = TRUE /\ UNCHANGED listed
          ELSE listed' = Append(listed, [slot |-> r.slot, name |-> r.name]) /\ UNCHANGED ended
  /\ UNCHANGED <<dir, answer>>

\* fat32_lseek refuses a place behind the end, and the size of the root is 0.
SeekAllowed(pos) == pos = root_inode.file_size

Lseek(whence, offset) ==
  LET pos == CASE whence = "SEEK_SET" -> offset
               [] whence = "SEEK_CUR" -> position + offset
               [] whence = "SEEK_END" -> root_inode.file_size + offset
  IN  /\ Runs /\ SeekAllowed(pos)
      /\ position' = pos
      /\ listed' = <<>> /\ ended' = FALSE
      /\ UNCHANGED <<dir, answer>>

Open(path, O_DIRECTORY) ==
  /\ Runs
  /\ \E node \in Outcomes(path, sys_open(path, O_DIRECTORY)) :
       answer' = [path |-> path, flag |-> O_DIRECTORY, node |-> node]
  /\ UNCHANGED <<dir, position, listed, ended>>

Chdir(path) ==
  /\ Runs
  /\ \E node \in Outcomes(path, sys_chdir(path)) :
       answer' = [path |-> path, flag |-> TRUE, node |-> node]
  /\ UNCHANGED <<dir, position, listed, ended>>

-------------------------------------------------------------------------------

\* Directories as a file system keeps them: nothing but end marks behind an end
\* mark, and the pieces of a long name in front of the entry they belong to, the
\* last one first.
WellFormed(d) ==
  /\ \A s \in Slots \ {1} : d[s-1].mark = "00" => d[s].mark = "00"
  /\ \A s \in Slots : (d[s].long /\ d[s].mark = "name") =>
       /\ s < Len(d) /\ d[s+1].mark \notin {"e5", "00"}
       /\ IF d[s].ord = 1 THEN ~d[s+1].long ELSE d[s+1].long /\ d[s+1].ord = d[s].ord - 1
       /\ d[s].last <=> ~(s > 1 /\ d[s-1].long /\ d[s-1].mark = "name" /\ d[s-1].ord > d[s].ord)

\* The pieces in front of slot s, back from the entry.
LongPieces(s) ==
  LET run == {k \in 1..(s - 1) : \A j \in k..(s - 1) : dir[j].long /\ dir[j].mark = "name"}
  IN  [k \in 1..Cardinality(run) |-> dir[s - k].part]

NameOf(s) == IF LongPieces(s) # <<>> THEN FlattenSeq(LongPieces(s)) ELSE ShortName(dir[s])

Files == {s \in Slots : ~dir[s].long /\ Live(dir[s])}

\* No two names are the same but for their dots, their blanks and their case.
NoTwins == \A s, t \in Files : fdn2sde(NameOf(s)) = fdn2sde(NameOf(t)) => s = t

NoAnswer == [path |-> <<>>, flag |-> TRUE, node |-> root_inode]

DirectoryInit ==
  /\ dir \in {d \in [Slots -> Entries] : WellFormed(d) /\ Allowed(d)}
  /\ position = 0 /\ listed = <<>> /\ ended = FALSE
  /\ answer = NoAnswer

Paths == {<<>>} \cup {<<n>> : n \in Names} \cup {<<n, m>> : n, m \in Names}

DirectoryNext ==
  \/ Getdents
  \/ \E w \in {"SEEK_SET", "SEEK_CUR", "SEEK_END"}, o \in 0..1 : Lseek(w, o)
  \/ \E path \in Paths, f \in BOOLEAN : Open(path, f)
  \/ \E path \in Paths : Chdir(path)

DirectorySpec == DirectoryInit /\ [][DirectoryNext]_directory_vars

-------------------------------------------------------------------------------

\* fat32_readdir never moves the file position past the end of the directory, and
\* every entry it returns is on the disk.
DirectoryTypeOK ==
  /\ position \in 0..(PerClus * Clusters)
  /\ \A k \in DOMAIN listed : listed[k].slot \in Slots

\* fat32_readdir passes over a name that begins with 0x05, which fat32.h calls a name.
Listable == {s \in Files : dir[s].mark # "05"}
InOrder == SetToSortSeq(Listable, <)

\* Such a name has no long name, which fat32_readdir would keep and give to the next
\* file.
NoLongNamePassed == \A s \in Files \ Listable : LongPieces(s) = <<>>

\* A listing of the root is exact, but for the names that begin with 0x05, however its
\* calls fall on the clusters: the names in the order of the disk, each one once and
\* with its long name if it has one, and getdents says that it is over only when none
\* is left.
ListingExact ==
  NoLongNamePassed =>
    /\ Len(listed) <= Cardinality(Listable)
    /\ \A k \in DOMAIN listed : listed[k] = [slot |-> InOrder[k], name |-> NameOf(InOrder[k])]
    /\ ended => Len(listed) = Cardinality(Listable)

\* What getdents lists, sys_open finds again: a name that was listed leads back to
\* its own entry, if it is its own (NoLongNamePassed), if no other name differs from it
\* only in dots, blanks and case, and if fat32_lookup meets no deleted piece of a long
\* name on its way, for which its buffer is too short (fat32.c:162).
ListedIsFound ==
  \A k \in DOMAIN listed :
    NoLongNamePassed /\ NoTwins /\ ~Overruns(listed[k].name)
      => fat32_lookup(listed[k].name) = listed[k].slot

\* A file that is in the directory can be opened as a file.
FileOpens ==
  \A s \in Files : (answer.path = <<NameOf(s)>> /\ ~answer.flag /\ ~dir[s].isdir) =>
     answer.node.res = "ok"
===============================================================================
