-------------------------------- MODULE Disk --------------------------------
(***************************************************************************)
(* The ATA request queue of kernel/disk.c on top of the scheduler: tasks   *)
(* call ide_transfer, sleep in wait_for_finish, and the disk interrupt     *)
(* ends the request in service, starts the next one and wakes its owner.   *)
(*                                                                         *)
(* A request is its owner, its command and the sectors still to come; the  *)
(* data itself, the task-file registers and the error branches that only   *)
(* print are left out.  The drive is external: once a command is issued it *)
(* interrupts when it likes, once per sector.                              *)
(***************************************************************************)
EXTENDS Scheduler

CONSTANTS
  NULL,           \* no request
  IoTasks,        \* the tasks that use the disk
  MaxSectors,     \* the largest read
  MaxRequests     \* bound on the requests a behaviour has pending at once

ASSUME DiskAssumption ==
  /\ IoTasks \subseteq Tasks
  /\ MaxSectors \in Nat \ {0} /\ MaxRequests \in Nat \ {0}

ATA_READ_CMD == "read"
ATA_WRITE_CMD == "write"

VARIABLES
  queue_list,            \* requests that wait, head first
  block_request_count,   \* the counter kept beside it
  in_using,              \* the request the drive works on, or NULL
  unfinished             \* task -> its requests that end_request has not seen

disk_vars == <<queue_list, block_request_count, in_using, unfinished>>
vars == <<sched_vars, disk_vars>>

\* Mutant: a request is only queued, even when the drive has nothing to do.
submit_queued(node) ==
  /\ queue_list' = Append(queue_list, node)
  /\ block_request_count' = block_request_count + 1
  /\ UNCHANGED in_using

\* submit: queue the request, and start it if the drive has nothing to do.
submit(node) ==
  LET q == Append(queue_list, node)
  IN  IF in_using = NULL
      THEN /\ in_using' = Head(q) /\ queue_list' = Tail(q)
           /\ UNCHANGED block_request_count
      ELSE /\ queue_list' = q /\ block_request_count' = block_request_count + 1
           /\ UNCHANGED in_using

\* ide_transfer up to the call of schedule() in wait_for_finish.  From cli to
\* sti nothing can interrupt it.
ide_transfer(cmd, count) ==
  LET t == current
  IN  /\ pc[t] = "run" /\ t \in IoTasks
      /\ Len(queue_list) < MaxRequests /\ ~rq.spins
      /\ state' = [state EXCEPT ![t] = TASK_UNINTERRUPTABLE]
      /\ submit([tsk |-> t, cmd |-> cmd, count |-> count])
      /\ unfinished' = [unfinished EXCEPT ![t] = @ + 1]
      /\ CPU_exec_task_jiffies' = 0
      /\ intr' = TRUE
      /\ Goto("enter")
      /\ UNCHANGED <<rq, vrun_time, NEED_SCHEDULE, preempt_count, current, picked>>

\* schedule() has returned and ide_transfer returns to the file system.
TransferReturns ==
  /\ pc[current] = "back" /\ ~rq.spins
  /\ Goto("run")
  /\ UNCHANGED <<rq, CPU_exec_task_jiffies, vrun_time, state, NEED_SCHEDULE,
                 preempt_count, current, intr, picked, disk_vars>>

\* ret_system_call: interrupts are on in user mode, whatever the call left.
ret_system_call ==
  /\ pc[current] = "run" /\ ~intr /\ ~rq.spins
  /\ intr' = TRUE
  /\ UNCHANGED <<rq, CPU_exec_task_jiffies, vrun_time, state, NEED_SCHEDULE,
                 preempt_count, current, pc, picked, disk_vars>>

\* disk_irq_handler with read_handler or write_handler, a sector that is not
\* the last one.
SectorDone ==
  /\ intr /\ ~rq.spins /\ in_using # NULL /\ in_using.count > 1
  /\ in_using' = [in_using EXCEPT !.count = @ - 1]
  /\ ret_from_intr(rq, vrun_time, state, NEED_SCHEDULE, CPU_exec_task_jiffies)
  /\ UNCHANGED <<queue_list, block_request_count, unfinished>>

\* The last sector: end_request starts the next request and wakes the owner.
end_request ==
  LET t == in_using.tsk
  IN  /\ intr /\ ~rq.spins /\ in_using # NULL /\ in_using.count = 1
      /\ IF block_request_count # 0
         THEN /\ in_using' = Head(queue_list) /\ queue_list' = Tail(queue_list)
              /\ block_request_count' = block_request_count - 1
         ELSE in_using' = NULL /\ UNCHANGED <<queue_list, block_request_count>>
      /\ unfinished' = [unfinished EXCEPT ![t] = @ - 1]
      /\ \E r \in {insert_task_queue(rq, t, vrun_time)} :
           ret_from_intr(r, vrun_time, [state EXCEPT ![t] = TASK_RUNING],
                         [NEED_SCHEDULE EXCEPT ![current] = TRUE],
                         CPU_exec_task_jiffies)

DiskIrq == SectorDone \/ end_request

-----------------------------------------------------------------------------

DiskInit ==
  /\ Init
  /\ queue_list = <<>> /\ block_request_count = 0 /\ in_using = NULL
  /\ unfinished = [t \in Tasks |-> 0]

\* What the file system asks for.  A write is one sector, for which cmd_out sends the
\* data: the FAT is written by sectors, and a cluster of the disk image is one.
Transfer ==
  \/ \E n \in 1..MaxSectors : ide_transfer(ATA_READ_CMD, n)
  \/ ide_transfer(ATA_WRITE_CMD, 1)

\* What a running task does by itself once it has called ide_transfer.
TaskStep == (SchedStep /\ UNCHANGED disk_vars) \/ TransferReturns \/ ret_system_call

DiskNext ==
  \/ UNCHANGED disk_vars /\ (Tick \/ \E child \in Tasks : Fork(child))
  \/ Transfer \/ TaskStep \/ DiskIrq

DiskSpec == DiskInit /\ [][DiskNext]_vars

\* The HPET is periodic.  An interrupt the drive has raised stays pending until
\* interrupts are on.  A task on the processor executes many instructions
\* between two interrupts.
DiskFairness ==
  /\ WF_vars(Tick /\ UNCHANGED disk_vars)
  /\ SF_vars(DiskIrq)
  /\ \A t \in AllTasks : SF_vars(TaskStep /\ current = t)

FairDiskSpec == DiskSpec /\ DiskFairness

-----------------------------------------------------------------------------
(* Properties *)

Request == [tsk : Tasks, cmd : {ATA_READ_CMD, ATA_WRITE_CMD}, count : 1..MaxSectors]

\* kmalloc gives no request the address NULL.
ASSUME RequestAssumption == NULL \notin Request

\* The shapes of the request queue; a request in service has a sector to come.
DiskTypeOK ==
  /\ TypeOK
  /\ queue_list \in Seq(Request) /\ block_request_count \in Nat
  /\ in_using \in Request \cup {NULL}
  /\ unfinished \in [Tasks -> Nat]

\* The drive is never idle while a request waits, for nobody would start it; and
\* block_request_count, by which end_request decides whether to go on, is the
\* length of the queue.
DriveNotStalled ==
  /\ in_using = NULL => queue_list = <<>>
  /\ block_request_count = Len(queue_list)

\* A task that sleeps for the disk has a request the drive will finish: its
\* wake-up has not come and gone while it was falling asleep.
NoLostWakeup ==
  \A t \in Tasks : state[t] = TASK_UNINTERRUPTABLE => unfinished[t] > 0

\* doc.md says that a task puts itself to sleep "waiting for the I/O to
\* complete": when ide_transfer returns, the transfer it was called for is over.
TransferWaits ==
  \A t \in Tasks : pc[t] = "back" => unfinished[t] = 0

\* A task that waits for the disk goes on with its work in the end.
TransferEnds ==
  \A t \in IoTasks : pc[t] = "enter" ~> pc[t] = "run"

=============================================================================
