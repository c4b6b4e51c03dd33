------------------------------- MODULE Process -------------------------------
(***************************************************************************)
(* What a task owns and how fork, vfork and execve pass it on: the address *)
(* space (the LocalMemManager behind lmm) and the open files behind        *)
(* handle_array.  kernel/task.c and the open and close of kernel/sys.c.    *)
(*                                                                         *)
(* A system call is one step.  It can be preempted, but it only touches    *)
(* the table and the address space of its own task, and the objects it     *)
(* allocates or frees.  An address space is its identity and whether the   *)
(* code range is mapped in it; an open file is its identity.  kfree makes  *)
(* an object available to the next kmalloc, so a pointer kept too long     *)
(* comes to point at somebody else's object.                               *)
(***************************************************************************)
EXTENDS Naturals, FiniteSets

CONSTANTS
  Tasks,        \* the task structures
  InitProc,     \* the task that runs init()
  Mms,          \* the LocalMemManager objects
  InitLmm,      \* the one the kernel starts with
  Files,        \* the file objects
  MAX_HANDLE_PER_TASK,
  NULL

ASSUME ProcessAssumption ==
  /\ InitProc \in Tasks /\ InitLmm \in Mms /\ NULL \notin Mms \cup Files
  /\ MAX_HANDLE_PER_TASK \in Nat \ {0}

VARIABLES
  alive,          \* the tasks that exist
  PF_VFORK,       \* the tasks with that flag
  lmm,            \* task -> its address space, or NULL
  mms,            \* the address spaces that are allocated
  mapped,         \* those with the code range mapped
  handle_array,   \* task -> handle -> file or NULL
  files,          \* the file objects that are allocated
  freed,          \* history: the address spaces a failing execve in place has freed
  halted,         \* DoPageFault has stopped the machine
  scarce          \* may memory run out, and the child of a vfork do more than execve?

process_vars == <<alive, PF_VFORK, lmm, mms, mapped, handle_array, files, freed, halted>>

Handles == 0..MAX_HANDLE_PER_TASK-1
NoHandles == [i \in Handles |-> NULL]
Open(h) == {h[i] : i \in Handles} \ {NULL}

\* init() is about to call do_execve.  It has cleared its flags, PF_VFORK too,
\* so it stays in the address space it shares with the idle task.
ProcessInit ==
  /\ alive = {InitProc} /\ PF_VFORK = {}
  /\ lmm = [t \in Tasks |-> IF t = InitProc THEN InitLmm ELSE NULL]
  /\ mms = {InitLmm} /\ mapped = {}
  /\ handle_array = [t \in Tasks |-> NoHandles]
  /\ files = {} /\ freed = {} /\ halted = FALSE
  /\ scarce \in BOOLEAN

-----------------------------------------------------------------------------
(* Files *)

\* sys_open: the first free handle.  With none left the new object is freed.
sys_open(t) ==
  \E f \in Files \ files, i \in Handles :
    /\ handle_array[t][i] = NULL /\ \A j \in 0..i-1 : handle_array[t][j] # NULL
    /\ handle_array' = [handle_array EXCEPT ![t][i] = f]
    /\ files' = files \cup {f}
    /\ UNCHANGED <<alive, PF_VFORK, lmm, mms, mapped, freed, halted>>

\* The kernel goes through a null pointer, and DoPageFault never returns.
DoPageFault ==
  /\ halted' = TRUE
  /\ UNCHANGED <<alive, PF_VFORK, lmm, mms, mapped, handle_array, files, freed>>

\* sys_close looks for f_ops in whatever the handle leads to.
sys_close_empty(t) == (\E i \in Handles : handle_array[t][i] = NULL) /\ DoPageFault

sys_close(t, i) ==
  /\ handle_array[t][i] # NULL
  /\ files' = files \ {handle_array[t][i]}
  /\ handle_array' = [handle_array EXCEPT ![t][i] = NULL]
  /\ UNCHANGED <<alive, PF_VFORK, lmm, mms, mapped, freed, halted>>

\* Mutant: the files are freed whoever else uses them.
exit_files_all(vforked, h) == Open(h)

\* exit_files: what it frees of the table h.
exit_files(vforked, h) == IF vforked THEN {} ELSE Open(h)

\* copy_files after n copies: the entries below n point to copies, and when the
\* allocation of the next one fails its entry is NULL; the others are still the
\* parent's.
copy_files(h, n, fresh) ==
  [i \in Handles |->
     IF h[i] = NULL THEN NULL ELSE IF i < n THEN fresh[i] ELSE IF i = n THEN NULL ELSE h[i]]

-----------------------------------------------------------------------------
(* fork and vfork *)

\* The distinct new objects for the handles of h below n.
Copies(h, n) ==
  {c \in [{i \in Handles : i < n /\ h[i] # NULL} -> Files \ files] :
     \A i, j \in DOMAIN c : i # j => c[i] # c[j]}

\* do_fork with no clone flags.  The child's flags are a copy of the parent's.
sys_fork(t, child) ==
  \E m \in Mms \ mms, c \in Copies(handle_array[t], MAX_HANDLE_PER_TASK) :
    /\ alive' = alive \cup {child}
    /\ PF_VFORK' = IF t \in PF_VFORK THEN PF_VFORK \cup {child} ELSE PF_VFORK
    /\ lmm' = [lmm EXCEPT ![child] = m]
    /\ mms' = mms \cup {m} /\ mapped' = mapped \cup {m}
    /\ handle_array' = [handle_array EXCEPT ![child] =
                          copy_files(handle_array[t], MAX_HANDLE_PER_TASK, c)]
    /\ files' = files \cup {c[i] : i \in DOMAIN c}
    /\ UNCHANGED <<freed, halted>>

\* Mutant: task->lmm is not cleared first.
fork_mm_inherits(t) ==
  /\ files' = files \ exit_files(t \in PF_VFORK, handle_array[t])
  /\ mms' = IF t \in PF_VFORK THEN mms ELSE mms \ {lmm[t]}
  /\ mapped' = mapped \cap mms'
  /\ UNCHANGED <<alive, PF_VFORK, lmm, handle_array, freed, halted>>

\* do_fork when copy_mm runs out of memory: exit_mm finds no address space, and
\* exit_files finds the parent's table.  (For the memory of the pgd see no_pgd.)
fork_mm_fails(t) ==
  /\ files' = files \ exit_files(t \in PF_VFORK, handle_array[t])
  /\ UNCHANGED <<alive, PF_VFORK, lmm, mms, mapped, handle_array, freed, halted>>

\* do_fork when copy_files cannot copy handle n: exit_mm is not called, and
\* exit_files frees the copies and the parent's files above n.
fork_files_fails(t, n) ==
  \E m \in Mms \ mms, c \in Copies(handle_array[t], n) :
    /\ handle_array[t][n] # NULL
    /\ mms' = mms \cup {m} /\ mapped' = mapped \cup {m}
    /\ files' = (files \cup {c[i] : i \in DOMAIN c})
                  \ exit_files(t \in PF_VFORK, copy_files(handle_array[t], n, c))
    /\ UNCHANGED <<alive, PF_VFORK, lmm, handle_array, freed, halted>>

\* do_fork with CLONE_VM and CLONE_FS: the child has the parent's address space
\* and the parent's files.
sys_vfork(t, child) ==
  /\ alive' = alive \cup {child}
  /\ PF_VFORK' = PF_VFORK \cup {child}
  /\ lmm' = [lmm EXCEPT ![child] = lmm[t]]
  /\ handle_array' = [handle_array EXCEPT ![child] = handle_array[t]]
  /\ UNCHANGED <<mms, mapped, files, freed, halted>>

-----------------------------------------------------------------------------
(* execve *)

\* From the mapped code range on.  When open_exec_file finds the program, the
\* file object it makes is neither stored nor freed.
ExecRest(t) ==
  /\ handle_array' = [handle_array EXCEPT ![t] = NoHandles]
  /\ PF_VFORK' = PF_VFORK \ {t}
  /\ \E filp \in {{}} \cup {{f} : f \in Files \ files} :
       files' = (files \ exit_files(t \in PF_VFORK, handle_array[t])) \cup filp
  /\ UNCHANGED <<alive, freed, halted>>

\* Mutant: no address space is made for the child of a vfork.
ExecVforkedShares(t) ==
  /\ t \in PF_VFORK
  /\ ExecRest(t)
  /\ UNCHANGED <<lmm, mms, mapped>>

\* do_execve in a task with PF_VFORK: it gets an address space of its own.
ExecVforked(t) ==
  /\ t \in PF_VFORK
  /\ \E m \in Mms \ mms :
       /\ lmm' = [lmm EXCEPT ![t] = m]
       /\ mms' = mms \cup {m} /\ mapped' = mapped \cup {m}
  /\ ExecRest(t)

\* Memory runs out, for the structure or in MapUserRange4K: what was allocated
\* is freed, and the task is left without an address space.
ExecVforkedFails(t) ==
  /\ t \in PF_VFORK
  /\ lmm' = [lmm EXCEPT ![t] = NULL]
  /\ UNCHANGED <<alive, PF_VFORK, mms, mapped, handle_array, files, freed, halted>>

\* kmalloc gives no page for the pgd that do_fork and do_execve ask for.  What
\* VIRT_TO_PHY makes of NULL passes their test, and they copy the kernel's entries
\* to where it leads.
no_pgd == DoPageFault

\* do_execve in any other task maps the code range into the address space it
\* has and loads the program there.
ExecInPlace(t) ==
  /\ t \notin PF_VFORK /\ lmm[t] # NULL /\ lmm[t] \notin mapped
  /\ mapped' = mapped \cup {lmm[t]}
  /\ ExecRest(t)
  /\ UNCHANGED <<lmm, mms>>

\* MapUserRange4K refuses a page that is present, or runs out of memory.  The address
\* space is freed, whoever shares it.
ExecFails(t) ==
  /\ t \notin PF_VFORK /\ lmm[t] # NULL
  /\ lmm' = [lmm EXCEPT ![t] = NULL]
  /\ mms' = mms \ {lmm[t]} /\ mapped' = mapped \ {lmm[t]}
  /\ freed' = freed \cup {lmm[t]}
  /\ UNCHANGED <<alive, PF_VFORK, handle_array, files, halted>>

-----------------------------------------------------------------------------

Unborn == Tasks \ alive

\* The tasks that are in user mode.  One that has lost its address space, or whose
\* address space was freed, cannot be followed any further.
Running == {t \in alive : lmm[t] \in mapped}

UserCall(t) ==
  \/ sys_open(t)
  \/ (\E i \in Handles : sys_close(t, i)) \/ sys_close_empty(t)
  \/ \E child \in Unborn : sys_fork(t, child) \/ sys_vfork(t, child)

\* Programs that use vfork for what it is made for: until its execve the child
\* does nothing else, and no other task calls execve.  Memory does not run out.
ProcessNext ==
  \/ ExecInPlace(InitProc)
  \/ \E t \in Running \ PF_VFORK : UserCall(t)
  \/ \E t \in Running : ExecVforked(t)

\* Any task may call anything, and memory may run out.
NextScarce ==
  \/ ExecInPlace(InitProc) \/ ExecFails(InitProc)
  \/ \E t \in Running :
       \/ UserCall(t) \/ ExecVforked(t) \/ ExecVforkedFails(t) \/ ExecFails(t)
       \/ fork_mm_fails(t) \/ (\E i \in Handles : fork_files_fails(t, i)) \/ no_pgd

\* The child of a fork may call execve too.
NextExec == ProcessNext \/ \E t \in Running \ {InitProc} : ExecFails(t)

\* One program environment or the other, from the start on.
Next ==
  /\ ~halted /\ UNCHANGED scarce
  /\ \/ ~scarce /\ ProcessNext
     \/ scarce /\ NextScarce

Spec == ProcessInit /\ [][Next]_<<scarce, process_vars>>

-----------------------------------------------------------------------------
(* Properties *)

\* The shapes of the task table; a task structure that is not in use owns
\* nothing.
ProcessTypeOK ==
  /\ alive \subseteq Tasks /\ PF_VFORK \subseteq alive
  /\ lmm \in [Tasks -> Mms \cup {NULL}] /\ mms \subseteq Mms /\ mapped \subseteq mms
  /\ handle_array \in [Tasks -> [Handles -> Files \cup {NULL}]] /\ files \subseteq Files
  /\ \A t \in Unborn : lmm[t] = NULL /\ handle_array[t] = NoHandles

\* The handles of a task lead to files that are still allocated, until the task
\* itself closes them: no execve and no close in another task frees them.
HandlesValid ==
  \A t \in alive \ PF_VFORK : Open(handle_array[t]) \subseteq files

\* Two tasks that run their own programs share no open file, and no task has
\* one file twice, so no file is ever freed twice.
FilesNotShared ==
  \A t, u \in alive \ PF_VFORK, i, j \in Handles :
    handle_array[t][i] # NULL /\ handle_array[t][i] = handle_array[u][j]
      => t = u /\ i = j

\* Two tasks that run their own programs run in different address spaces: the
\* child of a vfork has left its parent's when do_execve clears PF_VFORK.
SpacesSeparate ==
  \A t, u \in alive \ PF_VFORK : t # u => lmm[t] # lmm[u] /\ lmm[t] # NULL

\* No address space is lost: each one that is allocated is that of some task.
NoSpaceLost == mms \subseteq {lmm[t] : t \in alive}

\* HandlesValid and FilesNotShared, for programs that use vfork for what it is
\* made for, while memory lasts: a handle leads to a file object of its own,
\* which no close or execve of another task has freed.
FilesApart == ~scarce => HandlesValid /\ FilesNotShared

\* SpacesSeparate and NoSpaceLost, under the same condition: once do_execve has
\* cleared PF_VFORK, two programs run in two address spaces, and each address
\* space that do_fork or do_execve allocated is that of some task.
SpacesApart == ~scarce => SpacesSeparate /\ NoSpaceLost

\* "Do not let an allocation failure make the fork cleanup free the parent's address
\* space": whatever fails in do_fork, and in the do_execve of a vfork's child, and
\* whoever shares it, the address space of a task is allocated, unless it is one that
\* a failing do_execve in place has freed (task.c:236).
SpaceAllocated == \A t \in alive : lmm[t] # NULL => lmm[t] \in mms \cup freed

\* "sub process should have an independent vaddr to run": a task that is not in
\* its vfork phase has an address space, also after it has called do_execve.
SubProcessHasSpace == \A t \in alive \ PF_VFORK : lmm[t] # NULL

=============================================================================
