------------------------------ MODULE MCProcess ------------------------------
(* Three tasks, and as many objects of each kind as they can come to hold;    *)
(* three files and address spaces are enough where memory is scarce.          *)
EXTENDS Process, TLC

CONSTANTS a, b, c, m1, m2, m3, m4, f1, f2, f3, f4, f5

ThreeTasks == {a, b, c}
FourMms == {m1, m2, m3, m4}
ThreeMms == {m1, m2, m3}
ThreeFiles == {f1, f2, f3}
FiveFiles == {f1, f2, f3, f4, f5}

\* ProcessInit names one task and one address space; the rest are interchangeable,
\* those of ThreeMms and ThreeFiles with each other.
Symmetry ==
  Permutations({b, c}) \cup Permutations(ThreeMms \ {m1})
    \cup Permutations(ThreeFiles) \cup Permutations(FiveFiles \ ThreeFiles)

\* Bound: the files and address spaces where memory is scarce.
Few == files' \subseteq ThreeFiles /\ mms' \subseteq ThreeMms

ProcessSpec == ProcessInit /\ [][Next /\ (scarce => Few)]_<<scarce, process_vars>>

\* The child of a fork may call execve too.
ExecSpec ==
  ProcessInit /\ ~scarce /\ [][~halted /\ NextExec /\ UNCHANGED scarce]_<<scarce, process_vars>>

=============================================================================
