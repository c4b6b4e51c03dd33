------------------------------ MODULE WaitQueue ------------------------------
(***************************************************************************)
(* The wait queues of kernel/waitqueue.c on top of the scheduler.  The     *)
(* wait_queue_t that sleep_on keeps on its stack is the node of the task   *)
(* that sleeps.  wpc is where a task stands in the code around its sleep;  *)
(* the modules that use wait queues add their own places.                  *)
(*                                                                         *)
(* A task that leaves sleep_on while it is on the list leaves a node on a  *)
(* stack frame that is no more.  Whoever comes to that node finds what     *)
(* handlers and calls have written there since.                            *)
(***************************************************************************)
EXTENDS Scheduler

VARIABLES
  wait_list,   \* the links of the wait queue, and whether the kernel is lost in them
  wpc          \* task -> its place in the code that sleeps

wait_queue_head == "wait_queue_head"

\* The head of a wait queue is a structure of its own.
ASSUME WaitAssumption == wait_queue_head \notin Tasks

wait_queue_init ==
  LET nodes == Tasks \cup {wait_queue_head}
  IN  [next |-> [x \in nodes |-> x], prev |-> [x \in nodes |-> x], lost |-> FALSE]

Waiters == Chain(wait_list, wait_queue_head)

\* The node of t is on the list, and t is not in sleep_on.
Dangles(t) == t \in Range(Waiters) /\ wpc[t] \notin {"queue", "asleep"}

\* The list after a step that came to x.
Touched(list, x) == {list} \cup IF Dangles(x) THEN {[list EXCEPT !.lost = TRUE]} ELSE {}

At(t, l) == current = t /\ pc[t] = "run" /\ wpc[t] = l /\ ~rq.spins /\ ~wait_list.lost

WGoto(t, l) == wpc' = [wpc EXCEPT ![t] = l]

\* sleep_on up to CURRENT->state = TASK_UNINTERRUPTABLE.  wait is at the place on
\* the stack where it was in the last call, and wait_queue_init unlinks it without
\* looking whether wake_up has taken it off the list.
SleepState(t) ==
  /\ At(t, "sleep")
  /\ wait_list' = [wait_list EXCEPT !.next = [@ EXCEPT ![t] = t],
                                    !.prev = [@ EXCEPT ![t] = t]]
  /\ state' = [state EXCEPT ![t] = TASK_UNINTERRUPTABLE]
  /\ WGoto(t, "queue")
  /\ UNCHANGED <<rq, CPU_exec_task_jiffies, vrun_time, NEED_SCHEDULE, preempt_count,
                 current, intr, pc, picked>>

\* Then the task queues itself and calls schedule().
SleepQueue(t) ==
  /\ At(t, "queue")
  /\ wait_list' \in Touched(ListForeAdd(wait_list, t, wait_queue_head),
                             wait_list.prev[wait_queue_head])
  /\ WGoto(t, "asleep")
  /\ Goto("enter")
  /\ UNCHANGED <<rq, CPU_exec_task_jiffies, vrun_time, state, NEED_SCHEDULE,
                 preempt_count, current, intr, picked>>

\* schedule() has returned, and sleep_on with it, whether t is off the list or not.
SleepReturns(t) ==
  /\ current = t /\ pc[t] = "back" /\ wpc[t] = "asleep" /\ ~rq.spins /\ ~wait_list.lost
  /\ Goto("run")
  /\ WGoto(t, "woken")
  /\ UNCHANGED <<rq, CPU_exec_task_jiffies, vrun_time, state, NEED_SCHEDULE,
                 preempt_count, current, intr, picked, wait_list>>

sleep_on(t) == SleepState(t) \/ SleepQueue(t) \/ SleepReturns(t)

\* The task that wake_up takes: the head of the list.
wakes == wait_list.next[wait_queue_head]

\* Does wake_up wake anybody?  TASK_RUNING is 0 and TASK_UNINTERRUPTABLE is 1,
\* so the test state & mask needs both to be TASK_UNINTERRUPTABLE.
can_wake(mask) ==
  /\ ~ListIsEmpty(wait_list, wait_queue_head)
  /\ state[wakes] = TASK_UNINTERRUPTABLE /\ mask = TASK_UNINTERRUPTABLE

\* Mutant: the task that is woken is not put on the run queue.
wake_up_irq_unqueued(mask) ==
  IF can_wake(mask)
  THEN /\ wait_list' = ListDelete(wait_list, wakes)
       /\ ret_from_intr(rq, vrun_time, [state EXCEPT ![wakes] = TASK_RUNING],
                        [NEED_SCHEDULE EXCEPT ![current] = TRUE], CPU_exec_task_jiffies)
  ELSE /\ ret_from_intr(rq, vrun_time, state, NEED_SCHEDULE, CPU_exec_task_jiffies)
       /\ UNCHANGED wait_list

\* Mutant: the task is taken off the wait queue and its state stays as it is.
wake_up_irq_asleep(mask) ==
  IF can_wake(mask)
  THEN LET t == wakes IN
           /\ wait_list' = ListDelete(wait_list, t)
           /\ \E r \in {insert_task_queue(rq, t, vrun_time)} :
                ret_from_intr(r, vrun_time, state, [NEED_SCHEDULE EXCEPT ![current] = TRUE],
                              CPU_exec_task_jiffies)
  ELSE /\ ret_from_intr(rq, vrun_time, state, NEED_SCHEDULE, CPU_exec_task_jiffies)
       /\ UNCHANGED wait_list

\* wake_up comes to a node on a dead frame and takes what it reads there for a task.
wake_up_astray ==
  /\ ~ListIsEmpty(wait_list, wait_queue_head) /\ Dangles(wakes)
  /\ wait_list' = [wait_list EXCEPT !.lost = TRUE]
  /\ UNCHANGED sched_vars

\* wake_up in an interrupt handler, with the return path of the interrupt, when the
\* node it comes to is as sleep_on left it.
wake_up_irq(mask) ==
  IF can_wake(mask)
  THEN LET t == wakes IN
           /\ wait_list' = ListDelete(wait_list, t)
           /\ \E r \in {insert_task_queue(rq, t, vrun_time)} :
                ret_from_intr(r, vrun_time, [state EXCEPT ![t] = TASK_RUNING],
                              [NEED_SCHEDULE EXCEPT ![current] = TRUE],
                              CPU_exec_task_jiffies)
  ELSE /\ ret_from_intr(rq, vrun_time, state, NEED_SCHEDULE, CPU_exec_task_jiffies)
       /\ UNCHANGED wait_list

-----------------------------------------------------------------------------

\* A task that has come to the schedule() of sleep_on is on the wait queue until it is
\* woken, where wake_up can find it: although schedule() can return too early, and a
\* task then queues itself a second time, no sleeper drops out of the list as long as
\* no wake_up has met a node that was left behind.  (A task that is preempted before
\* it has queued itself, at waitqueue.c:13, is not there yet and never will be.)
SleeperIsQueued ==
  ~wait_list.lost =>
    \A t \in Tasks :
      wpc[t] = "asleep" /\ state[t] = TASK_UNINTERRUPTABLE => t \in Range(Waiters)

=============================================================================
