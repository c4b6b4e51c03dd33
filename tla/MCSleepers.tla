----------------------------- MODULE MCSleepers -----------------------------
(* The two drivers whose callers sleep until an interrupt wakes them: the    *)
(* disk, used by one of two tasks (part "disk") or by both ("disks"), and    *)
(* the keyboard, read by the only task.  The driver that is not in use stays *)
(* as it starts.                                                             *)
EXTENDS Disk, Keyboard

CONSTANTS a, b, i

VARIABLE part

TwoTasks == {a, b}
OneTask == {a}
OneOrTwo == {1, 2}

driver_vars == <<part, disk_vars, wait_list, wpc, kb_vars>>

SleepersInit == part \in {"disk", "disks", "keyboard"} /\ DiskInit /\ KeyboardInit

\* Two tasks only read: a write is no different from the read of a sector.
OnlyReads == \A r \in (Range(queue_list') \cup {in_using'}) \ {NULL} : r.cmd = ATA_READ_CMD

\* The run queue or the wait queue is broken: what follows is of no use to anybody.
Broken == rq.doubled \/ rq.spins \/ wait_list.lost

SleepersNext ==
  /\ UNCHANGED part
  /\ \/ /\ part \in {"disk", "disks"} /\ ~rq.doubled
        /\ DiskNext
        /\ IF part = "disk" THEN unfinished'[b] = 0 ELSE OnlyReads
        /\ UNCHANGED <<wait_list, wpc, kb_vars>>
     \/ /\ part = "keyboard" /\ ~wait_list.lost /\ KeyboardNext /\ state'[b] = Unborn
        /\ UNCHANGED disk_vars
     \/ Broken /\ UNCHANGED <<sched_vars, disk_vars, wait_list, wpc, kb_vars>>

SleepersSpec == SleepersInit /\ [][SleepersNext]_<<sched_vars, driver_vars>>

\* NoLostWakeup of Disk: a task that has fallen asleep in wait_for_finish has a
\* request for which end_request is still to come.
WakeupToCome == part # "keyboard" => NoLostWakeup

=============================================================================
