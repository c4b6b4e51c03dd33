------------------------------- MODULE Keyboard -------------------------------
(***************************************************************************)
(* The keyboard driver of kernel/keyboard.c: the interrupt handler puts    *)
(* scan codes into a ring, and keyboard_read, in a task, takes them out    *)
(* and sleeps on a wait queue while there are none.  A task runs the       *)
(* driver with interrupts on, so a tick or a key may come between any two  *)
(* of its statements.                                                      *)
(*                                                                         *)
(* A pointer into the ring is its offset from buf.  The n-th key since the *)
(* ring was reset has the scan code n; 0 is what memset leaves.            *)
(***************************************************************************)
EXTENDS WaitQueue

CONSTANTS
  Readers,       \* the tasks that have the keyboard open
  KB_BUF_SIZE,
  MaxKeys,       \* bound: keys since the last reset
  Counts         \* the lengths that callers of read ask for

ASSUME KeyboardAssumption ==
  /\ Readers \subseteq Tasks
  /\ KB_BUF_SIZE \in Nat \ {0} /\ MaxKeys \in Nat /\ Counts \subseteq Nat \ {0}

VARIABLES
  KBIB,        \* [PHead, PTail, count, buf]
  local,       \* task -> count asked for, then counter, then the new KBIB->count
  typed,       \* keys since the last reset
  received,    \* the codes read since then
  disturbed    \* a key came in the middle of that reset

kb_vars == <<KBIB, local, typed, received, disturbed>>
keyboard_vars == <<sched_vars, wait_list, wpc, kb_vars>>

\* Statements of a task that leave the scheduler alone.
Quiet == UNCHANGED <<sched_vars, wait_list>>

-----------------------------------------------------------------------------
(* The interrupt handler *)

Store(x) ==
  LET head == IF KBIB.PHead = KB_BUF_SIZE THEN 0 ELSE KBIB.PHead
  IN  [KBIB EXCEPT !.buf = [@ EXCEPT ![head] = x], !.count = @ + 1, !.PHead = head + 1]

KeyboardHandler ==
  /\ intr /\ ~rq.spins /\ ~wait_list.lost /\ typed < MaxKeys
  /\ KBIB' = Store(typed + 1)
  /\ typed' = typed + 1
  /\ disturbed' = (disturbed \/ \E t \in Readers : wpc[t] \in {"reset1", "reset2", "reset3"})
  /\ wake_up_irq(TASK_UNINTERRUPTABLE) \/ wake_up_astray
  /\ UNCHANGED <<wpc, local, received>>

-----------------------------------------------------------------------------
(* The calls of a task *)

\* keyboard_open, keyboard_close and the reset of keyboard_ioctl do the same to
\* the ring, one statement after the other.
keyboard_open(t) ==
  /\ At(t, "user")
  /\ WGoto(t, "reset1")
  /\ KBIB' = [KBIB EXCEPT !.PHead = 0]
  /\ typed' = 0 /\ received' = <<>> /\ disturbed' = FALSE
  /\ Quiet /\ UNCHANGED local

ResetTail(t) ==
  /\ At(t, "reset1") /\ WGoto(t, "reset2")
  /\ KBIB' = [KBIB EXCEPT !.PTail = 0]
  /\ Quiet /\ UNCHANGED <<local, typed, received, disturbed>>

\* Mutant: the counter is not reset.
ResetCountForgets(t) ==
  /\ At(t, "reset2") /\ WGoto(t, "reset3")
  /\ UNCHANGED KBIB
  /\ Quiet /\ UNCHANGED <<local, typed, received, disturbed>>

ResetCount(t) ==
  /\ At(t, "reset2") /\ WGoto(t, "reset3")
  /\ KBIB' = [KBIB EXCEPT !.count = 0]
  /\ Quiet /\ UNCHANGED <<local, typed, received, disturbed>>

ResetBuf(t) ==
  /\ At(t, "reset3") /\ WGoto(t, "return")
  /\ KBIB' = [KBIB EXCEPT !.buf = [i \in 0..KB_BUF_SIZE-1 |-> 0]]
  /\ Quiet /\ UNCHANGED <<local, typed, received, disturbed>>

\* keyboard_read: the test before the sleep.
keyboard_read(t, n) ==
  /\ At(t, "user")
  /\ local' = [local EXCEPT ![t] = n]
  /\ WGoto(t, IF KBIB.count = 0 THEN "sleep" ELSE "woken")
  /\ Quiet /\ UNCHANGED <<KBIB, typed, received, disturbed>>

\* counter = count < KBIB->count ? count : KBIB->count, which reads KBIB->count twice:
\* after a key in between, counter is more than was asked for.
ReadTest(t) ==
  /\ At(t, "woken") /\ WGoto(t, IF local[t] < KBIB.count THEN "copy" ELSE "counter")
  /\ Quiet /\ UNCHANGED kb_vars

ReadCounter(t) ==
  /\ At(t, "counter") /\ WGoto(t, "copy")
  /\ local' = [local EXCEPT ![t] = KBIB.count]
  /\ Quiet /\ UNCHANGED <<KBIB, typed, received, disturbed>>

\* Mutant: the bytes behind the ones asked for.
BytesNext(from, n) ==
  [i \in 1..n |-> IF from + i < KB_BUF_SIZE THEN KBIB.buf[from + i] ELSE 0]

\* n bytes from an offset on; what lies behind the ring counts as 0.
Bytes(from, n) ==
  [i \in 1..n |-> IF from + i - 1 < KB_BUF_SIZE THEN KBIB.buf[from + i - 1] ELSE 0]

\* Both branches of the copy.  The comparison is unsigned, so a PTail behind the
\* ring takes the first.  In the second the caller's buffer is first given the
\* end of the ring, then, from its start again, what is at PHead.
ReadCopy(t) ==
  LET n    == local[t]
      room == KB_BUF_SIZE - KBIB.PTail
      rest == n - room
      head == KBIB.PHead
  IN  /\ At(t, "copy") /\ WGoto(t, "load")
      /\ IF n <= room \/ room < 0
         THEN /\ received' = received \o Bytes(KBIB.PTail, n)
              /\ KBIB' = [KBIB EXCEPT !.PTail = @ + n]
         ELSE /\ received' = received \o Bytes(head, rest)
                               \o Bytes(KBIB.PTail + rest, room - Min({rest, room}))
              /\ KBIB' = [KBIB EXCEPT !.PTail = head + rest]
      /\ Quiet /\ UNCHANGED <<local, typed, disturbed>>

\* KBIB->count -= counter, a load and a store.
ReadLoad(t) ==
  /\ At(t, "load") /\ WGoto(t, "store")
  /\ local' = [local EXCEPT ![t] = KBIB.count - @]
  /\ Quiet /\ UNCHANGED <<KBIB, typed, received, disturbed>>

ReadStore(t) ==
  /\ At(t, "store") /\ WGoto(t, "return")
  /\ KBIB' = [KBIB EXCEPT !.count = local[t]]
  /\ local' = [local EXCEPT ![t] = 0]
  /\ Quiet /\ UNCHANGED <<typed, received, disturbed>>

\* ret_system_call opens interrupts, whatever the call left.
Return(t) ==
  /\ At(t, "return") /\ WGoto(t, "user")
  /\ intr' = TRUE
  /\ UNCHANGED <<rq, CPU_exec_task_jiffies, vrun_time, state, NEED_SCHEDULE,
                 preempt_count, current, pc, picked, wait_list, kb_vars>>

ReadStep(t) ==
  \/ ResetTail(t) \/ ResetCount(t) \/ ResetBuf(t)
  \/ ReadTest(t) \/ ReadCounter(t) \/ ReadCopy(t) \/ ReadLoad(t) \/ ReadStore(t) \/ Return(t)
  \/ (sleep_on(t) /\ UNCHANGED kb_vars)

-----------------------------------------------------------------------------

KeyboardInit ==
  /\ Init
  /\ wait_list = wait_queue_init
  /\ wpc = [t \in Tasks |-> "user"]
  /\ KBIB = [PHead |-> 0, PTail |-> 0, count |-> 0, buf |-> [i \in 0..KB_BUF_SIZE-1 |-> 0]]
  /\ local = [t \in Tasks |-> 0]
  /\ typed = 0 /\ received = <<>> /\ disturbed = FALSE

KeyboardNext ==
  \/ /\ Tick \/ SchedStep \/ \E child \in Tasks : Fork(child)
     /\ UNCHANGED <<wait_list, wpc, kb_vars>>
  \/ KeyboardHandler
  \/ \E t \in Readers : ReadStep(t) \/ keyboard_open(t) \/ \E n \in Counts : keyboard_read(t, n)

KeyboardSpec == KeyboardInit /\ [][KeyboardNext]_keyboard_vars

-----------------------------------------------------------------------------
(* Properties *)

\* The shapes of the driver's state; count is never negative, and PTail stays in
\* the ring until it wraps for the first time.
KeyboardTypeOK ==
  /\ TypeOK
  /\ KBIB.PHead \in 0..KB_BUF_SIZE /\ KBIB.PTail \in Nat
  /\ typed <= KB_BUF_SIZE /\ ~disturbed /\ (\A t \in Readers : wpc[t] # "reset1") =>
       KBIB.PTail <= KBIB.PHead
  /\ KBIB.count \in Nat
  /\ KBIB.buf \in [0..KB_BUF_SIZE-1 -> 0..MaxKeys]
  /\ typed \in 0..MaxKeys

\* The reader gets the scan codes in the order of the keys, none twice and none
\* that was not typed, as long as no more keys have come since the ring was
\* reset than it has room for, and none in the middle of the reset.
ReadInOrder ==
  typed <= KB_BUF_SIZE /\ ~disturbed =>
    /\ Len(received) <= typed
    /\ \A i \in DOMAIN received : received[i] = i

\* count may miss keys, because the handler can run between the load and the
\* store of the reader, but under the same condition it never counts a key that
\* is not there, so the reader never returns the same key again.
CountNotAhead ==
  typed <= KB_BUF_SIZE /\ ~disturbed =>
    \A t \in Readers :
      wpc[t] \in {"user", "sleep", "queue", "asleep", "woken", "counter"} =>
        KBIB.count <= typed - Len(received)

=============================================================================
