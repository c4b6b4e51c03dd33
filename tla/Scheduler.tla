------------------------------ MODULE Scheduler ------------------------------
(***************************************************************************)
(* The run queue and schedule() of kernel/schedule.c, the HPET tick of     *)
(* kernel/hpet.c that drives it, the return path of an interrupt in        *)
(* kernel/entry.S, and the wake-up that ends do_fork in kernel/task.c.     *)
(*                                                                         *)
(* There is one processor.  An interrupt handler runs with interrupts off, *)
(* so a handler and the schedule() that ret_from_intr may call are one     *)
(* step.  A task that calls schedule() itself (to wait) does so with       *)
(* interrupts on: each statement of that call is a step of its own and     *)
(* handlers run in between; an operation on the linked list is one step.   *)
(*                                                                         *)
(* vrun_time is only ever compared, so the least of them is kept at zero;  *)
(* a task that has slept, or the idle task, may be further behind than     *)
(* MaxLag and then counts as MaxLag behind.  min_vrun_time is left out,    *)
(* since nothing reads it.                                                 *)
(***************************************************************************)
EXTENDS KernelList, Integers, Sequences

CONSTANTS
  Tasks,    \* every task but the idle one
  Idle,     \* the init task of the processor
  MaxLag    \* bound on the differences between vrun_times

\* Tasks are structures in memory; the list head in the scheduler is none of them.
ASSUME TasksAssumption ==
  /\ IsFiniteSet(Tasks) /\ Idle \notin Tasks /\ MaxLag \in Nat
  /\ "task_queue" \notin Tasks \cup {Idle}

TASK_RUNING == "running"
TASK_UNINTERRUPTABLE == "uninterruptable"
Unborn == "unborn"
AllTasks == Tasks \cup {Idle}

task_queue == "task_queue"    \* the list head in the scheduler structure
Nodes == AllTasks \cup {task_queue}

VARIABLES
  rq,                     \* the links of the run queue, running_task_count,
                          \* whether a handler spins in it for ever, and whether
                          \* a task that was on it has been linked in again
  CPU_exec_task_jiffies,
  vrun_time,
  state,
  NEED_SCHEDULE,          \* the flag of each task
  preempt_count,
  current,                \* the task on the processor
  intr,                   \* the interrupt flag of the processor
  pc,                     \* where each task stands in its call of schedule()
  picked                  \* the local variable task of that call

sched_vars ==
  <<rq, CPU_exec_task_jiffies, vrun_time, state, NEED_SCHEDULE, preempt_count,
    current, intr, pc, picked>>

\* do_fork gives every task priority 2; the idle task has priority 0.
Weight(t) == IF t = Idle THEN 1 ELSE 2

\* How long a task may run: 4 / count jiffies, three times that at priority 2.
Budget(t, count) == IF t = Idle THEN 4 \div count ELSE (4 \div count) * 3

-----------------------------------------------------------------------------
(* The run queue: a circular list through the tasks and the scheduler *)

\* Mutant: always insert at the end, whatever the vrun_times are.
insert_at_end(r, t, v) ==
  IF t = Idle \/ r.next[t] # t THEN r
  ELSE [ListForeAdd(r, t, task_queue) EXCEPT !.running_task_count = @ + 1]

\* The scan goes past every task whose vrun_time is not larger; the scheduler's
\* own node has the largest vrun_time of all.  A scan that meets no node to stop
\* at after as many steps as there are nodes never ends.
insert_task_queue(r, t, v) ==
  LET n == Cardinality(Nodes)
      tmp[k \in 0..n] == IF k = 0 THEN r.next[task_queue] ELSE r.next[tmp[k-1]]
      stops == {k \in 0..n : tmp[k] \in {task_queue, t} \/ v[tmp[k]] > v[t]}
      at == tmp[Min(stops)]
  IN  IF t = Idle THEN r
      ELSE IF stops = {} THEN [r EXCEPT !.spins = TRUE]
      ELSE IF at = t THEN r
      ELSE [ListForeAdd(r, t, at) EXCEPT !.running_task_count = @ + 1,
                                         !.doubled = @ \/ r.next[t] # t]

QueueEmpty(r) == ListIsEmpty(r, task_queue)

get_next_task(r) == IF QueueEmpty(r) THEN Idle ELSE r.next[task_queue]

\* Mutant: the counter is not decremented.
RemoveUncounted(r) ==
  IF QueueEmpty(r) THEN r ELSE ListDelete(r, r.next[task_queue])

\* What get_next_task leaves of the queue.
RemoveNext(r) ==
  IF QueueEmpty(r) THEN r
  ELSE [ListDelete(r, r.next[task_queue]) EXCEPT !.running_task_count = @ - 1]

-----------------------------------------------------------------------------
(* Interrupts *)

\* SWITCH_TO(current, n).  rflags is not saved: a task that gave up the
\* processor inside its own schedule() goes on with the interrupt flag it is
\* handed (carried), any other resumes through iretq or sti.
SwitchTo(n, carried) ==
  /\ current' = n
  /\ intr' = IF pc[n] = "out" THEN carried ELSE TRUE

\* schedule() queues the current task when it leaves it, and puts the task it
\* had picked back when it does not.
QueueAgain(r, v, switch, n, runs) ==
  IF ~switch THEN insert_task_queue(r, n, v)
  ELSE IF runs THEN insert_task_queue(r, current, v) ELSE r

\* schedule() called by ret_from_intr, after the handler has left the run queue
\* r, the times v, the states st, the flags nd and the budget ex.
ScheduleFromIrq(r, v, st, nd, ex) ==
  \E n \in {get_next_task(r)}, r1 \in {RemoveNext(r)} :
    LET switch == v[current] >= v[n] \/ st[current] # TASK_RUNING
    IN  \E r2 \in {QueueAgain(r1, v, switch, n, st[current] = TASK_RUNING)} :
          /\ NEED_SCHEDULE' = [nd EXCEPT ![current] = FALSE]
          /\ \/ /\ switch /\ n = current
                /\ rq' = r1 /\ CPU_exec_task_jiffies' = ex
                /\ UNCHANGED <<current, intr, pc>>
             \/ /\ switch /\ n # current
                /\ rq' = r2
                /\ CPU_exec_task_jiffies' = Budget(n, r2.running_task_count)
                /\ SwitchTo(n, FALSE)
                /\ pc' = [pc EXCEPT ![n] = IF @ = "out" THEN "back" ELSE @]
             \/ /\ ~switch
                /\ rq' = r2
                /\ CPU_exec_task_jiffies' =
                     IF ex = 0 THEN Budget(n, r2.running_task_count) ELSE ex
                /\ UNCHANGED <<current, intr, pc>>

\* Mutant: the test of preempt_count is the wrong way round.
ret_from_intr_inverted(r, v, st, nd, ex) ==
  /\ vrun_time' = v /\ state' = st
  /\ IF preempt_count[current] # 0 /\ nd[current]
     THEN ScheduleFromIrq(r, v, st, nd, ex)
     ELSE /\ rq' = r /\ NEED_SCHEDULE' = nd /\ CPU_exec_task_jiffies' = ex
          /\ UNCHANGED <<current, intr, pc>>
  /\ UNCHANGED <<preempt_count, picked>>

\* ret_from_intr: reschedule unless the interrupted task forbids preemption.
ret_from_intr(r, v, st, nd, ex) ==
  /\ vrun_time' = v /\ state' = st
  /\ IF preempt_count[current] = 0 /\ nd[current]
     THEN ScheduleFromIrq(r, v, st, nd, ex)
     ELSE /\ rq' = r /\ NEED_SCHEDULE' = nd /\ CPU_exec_task_jiffies' = ex
          /\ UNCHANGED <<current, intr, pc>>
  /\ UNCHANGED <<preempt_count, picked>>

Alive == {t \in AllTasks : state[t] # Unborn}

\* The least vrun_time becomes zero; differences stay what they are up to MaxLag.
Least(v) == LET times == {v[t] : t \in Alive} IN Max({Min(times), Max(times) - MaxLag})
Rebase(v, least) == [t \in AllTasks |-> IF t \in Alive /\ v[t] > least THEN v[t] - least ELSE 0]

\* hpet_handler.  Every budget below zero is the same to the code.
Tick ==
  LET w  == Weight(current)
      ex == Max({CPU_exec_task_jiffies - w, -1})
  IN  /\ intr /\ ~rq.spins
      /\ \E charged \in {[vrun_time EXCEPT ![current] = @ + w]} :
         \E least \in {Least(charged)} : \E v \in {Rebase(charged, least)} :
           ret_from_intr(rq, v, state,
                         [NEED_SCHEDULE EXCEPT ![current] = @ \/ ex <= 0], ex)

-----------------------------------------------------------------------------
(* schedule() called by the task itself, one statement at a time *)

Goto(l) == pc' = [pc EXCEPT ![current] = l]

\* Mutant: the task goes to sleep after submitting its request, interrupts on.
SchedEnterSleeps ==
  /\ pc[current] = "enter"
  /\ preempt_count' = [preempt_count EXCEPT ![current] = @ + 1]
  /\ state' = [state EXCEPT ![current] = TASK_UNINTERRUPTABLE]
  /\ Goto("clear")
  /\ UNCHANGED <<rq, CPU_exec_task_jiffies, vrun_time, NEED_SCHEDULE, current, intr,
                 picked>>

SchedEnter ==
  /\ pc[current] = "enter"
  /\ preempt_count' = [preempt_count EXCEPT ![current] = @ + 1]
  /\ Goto("clear")
  /\ UNCHANGED <<rq, CPU_exec_task_jiffies, vrun_time, state, NEED_SCHEDULE,
                 current, intr, picked>>

SchedClear ==
  /\ pc[current] = "clear"
  /\ NEED_SCHEDULE' = [NEED_SCHEDULE EXCEPT ![current] = FALSE]
  /\ Goto("pick")
  /\ UNCHANGED <<rq, CPU_exec_task_jiffies, vrun_time, state, preempt_count,
                 current, intr, picked>>

SchedPick ==
  /\ pc[current] = "pick"
  /\ picked' = [picked EXCEPT ![current] = get_next_task(rq)]
  /\ rq' = RemoveNext(rq)
  /\ Goto("test")
  /\ UNCHANGED <<CPU_exec_task_jiffies, vrun_time, state, NEED_SCHEDULE,
                 preempt_count, current, intr>>

SchedTest ==
  LET n == picked[current]
  IN  /\ pc[current] = "test"
      /\ IF vrun_time[current] >= vrun_time[n] \/ state[current] # TASK_RUNING
         THEN IF n = current
              THEN Goto("leave") /\ UNCHANGED CPU_exec_task_jiffies
              ELSE Goto("requeue") /\ CPU_exec_task_jiffies' = 0
         ELSE Goto("keep") /\ UNCHANGED CPU_exec_task_jiffies
      /\ UNCHANGED <<rq, vrun_time, state, NEED_SCHEDULE, preempt_count, current,
                     intr, picked>>

SchedRequeue ==
  /\ pc[current] = "requeue"
  /\ rq' = IF state[current] = TASK_RUNING
           THEN insert_task_queue(rq, current, vrun_time) ELSE rq
  /\ ~rq'.spins
  /\ Goto("switch")
  /\ UNCHANGED <<CPU_exec_task_jiffies, vrun_time, state, NEED_SCHEDULE,
                 preempt_count, current, intr, picked>>

SchedSwitch ==
  LET n == picked[current]
  IN  /\ pc[current] = "switch"
      /\ CPU_exec_task_jiffies' = Budget(n, rq.running_task_count)
      /\ SwitchTo(n, intr)
      /\ pc' = [pc EXCEPT ![current] = "out", ![n] = IF @ = "out" THEN "back" ELSE @]
      /\ preempt_count' = [preempt_count EXCEPT ![current] = @ - 1]
      /\ picked' = [picked EXCEPT ![current] = Idle]
      /\ UNCHANGED <<rq, vrun_time, state, NEED_SCHEDULE>>

SchedKeep ==
  \E r \in {insert_task_queue(rq, picked[current], vrun_time)} :
    /\ pc[current] = "keep" /\ ~r.spins
    /\ rq' = r
    /\ CPU_exec_task_jiffies' =
         IF CPU_exec_task_jiffies = 0
         THEN Budget(picked[current], r.running_task_count)
         ELSE CPU_exec_task_jiffies
    /\ Goto("leave")
    /\ UNCHANGED <<vrun_time, state, NEED_SCHEDULE, preempt_count, current, intr,
                   picked>>

SchedLeave ==
  /\ pc[current] = "leave"
  /\ preempt_count' = [preempt_count EXCEPT ![current] = @ - 1]
  /\ Goto("back")
  /\ picked' = [picked EXCEPT ![current] = Idle]
  /\ UNCHANGED <<rq, CPU_exec_task_jiffies, vrun_time, state, NEED_SCHEDULE,
                 current, intr>>

SchedStep ==
  /\ ~rq.spins
  /\ \/ SchedEnter \/ SchedClear \/ SchedPick \/ SchedTest
     \/ SchedRequeue \/ SchedSwitch \/ SchedKeep \/ SchedLeave

-----------------------------------------------------------------------------
(* The birth of a task *)

\* The end of do_fork: the child is a copy of its parent, and wakeup_process
\* queues it.
Fork(child) ==
  LET v == [vrun_time EXCEPT ![child] = vrun_time[current]]
  IN  /\ pc[current] = "run" /\ state[child] = Unborn /\ ~rq.spins
      /\ vrun_time' = v
      /\ state' = [state EXCEPT ![child] = TASK_RUNING]
      /\ rq' = insert_task_queue(rq, child, v)
      /\ NEED_SCHEDULE' =
           [NEED_SCHEDULE EXCEPT ![child] = NEED_SCHEDULE[current], ![current] = TRUE]
      /\ preempt_count' = [preempt_count EXCEPT ![child] = preempt_count[current]]
      /\ UNCHANGED <<CPU_exec_task_jiffies, current, intr, pc, picked>>

\* After scheduler_init and the end of TaskInit's own set-up.
Init ==
  /\ rq = [next |-> [x \in Nodes |-> x], prev |-> [x \in Nodes |-> x],
           running_task_count |-> 1, spins |-> FALSE, doubled |-> FALSE]
  /\ CPU_exec_task_jiffies = 4
  /\ vrun_time = [t \in AllTasks |-> 0]
  /\ state = [t \in AllTasks |-> IF t = Idle THEN TASK_RUNING ELSE Unborn]
  /\ NEED_SCHEDULE = [t \in AllTasks |-> FALSE]
  /\ preempt_count = [t \in AllTasks |-> 0]
  /\ current = Idle
  /\ intr = TRUE
  /\ pc = [t \in AllTasks |-> "run"]
  /\ picked = [t \in AllTasks |-> Idle]

\* Tasks that only compute and fork.
Next == Tick \/ \E child \in Tasks : Fork(child)

\* The HPET is periodic and the kernel forks its first task while it boots.
Spec == Init /\ [][Next]_sched_vars /\ WF_sched_vars(Tick)

-----------------------------------------------------------------------------
(* Properties *)

\* The tasks on the run queue, head first.
Queue == Chain(rq, task_queue)

\* The shapes of the scheduler's state: preempt_count is 0 or 1 and the budget
\* is at most the twelve jiffies of a lone task.
TypeOK ==
  /\ rq \in [next : [Nodes -> Nodes], prev : [Nodes -> Nodes],
             running_task_count : Nat, spins : BOOLEAN, doubled : BOOLEAN]
  /\ CPU_exec_task_jiffies \in -1..12
  /\ vrun_time \in [AllTasks -> 0..MaxLag]
  /\ state \in [AllTasks -> {TASK_RUNING, TASK_UNINTERRUPTABLE, Unborn}]
  /\ NEED_SCHEDULE \in [AllTasks -> BOOLEAN]
  /\ preempt_count \in [AllTasks -> 0..1]
  /\ current \in AllTasks /\ intr \in BOOLEAN
  /\ pc \in [AllTasks -> {"run", "enter", "clear", "pick", "test", "requeue",
                          "switch", "keep", "leave", "out", "back"}]
  /\ picked \in [AllTasks -> AllTasks]

\* Until insert_task_queue links in a task that is on the queue already and that its
\* scan has not met (schedule.c:63), the run queue is one circular list: backward
\* links undo forward links, the idle task is never on it, and running_task_count, by
\* which schedule() divides, is one more than its length, so it is never zero.
\* Nothing else that schedule() and the handlers do to the queue can break it.
QueueIntact ==
  ~rq.doubled =>
    /\ \A x \in Nodes : rq.prev[rq.next[x]] = x
    /\ \A x \in Nodes : x \in Range(Queue) \cup {task_queue} \/ rq.next[x] = x
    /\ Idle \notin Range(Queue)
    /\ rq.running_task_count = 1 + Len(Queue)

\* A task that may run is running, queued, or in the hands of the schedule()
\* that took it off the queue: no path of schedule() drops it.
NobodyLost ==
  \A t \in Tasks :
    state[t] = TASK_RUNING =>
      \/ t = current \/ t \in Range(Queue)
      \/ pc[current] \in {"test", "requeue", "switch", "keep"} /\ picked[current] = t

\* Tasks that compute share the processor evenly: insert_task_queue keeps the run
\* queue sorted, so get_next_task takes the task that has had the least, and no
\* two are ever further apart in vrun_time than the longest budget schedule()
\* hands out.
FairShare ==
  /\ \A i, j \in DOMAIN Queue : i < j => vrun_time[Queue[i]] <= vrun_time[Queue[j]]
  /\ \A t, u \in Tasks :
       state[t] = TASK_RUNING /\ state[u] = TASK_RUNING => vrun_time[t] - vrun_time[u] <= 12

\* Every task that may run gets the processor, again and again.
EveryTaskRuns ==
  \A t \in Tasks : []((state[t] = TASK_RUNING) => <>(current = t))

=============================================================================
