----------------------------- MODULE MCProgress -----------------------------
(***************************************************************************)
(* What must go on for ever: the scheduler with three tasks that compute   *)
(* and fork, and the console with two tasks and handlers that print.  The  *)
(* two share no state: part says which of them runs, and the other one     *)
(* stays in its initial state.                                             *)
(***************************************************************************)
EXTENDS Console

CONSTANTS a, b, c, i

VARIABLES
  part,
  rq, CPU_exec_task_jiffies, vrun_time, state, NEED_SCHEDULE, sched_preempt_count,
  sched_current, intr, pc, picked

ThreeTasks == {a, b, c}
TextsShort == {<<"a", "b">>, <<"c", "newline">>, <<"tab", "backspace", "d">>}

S == INSTANCE Scheduler WITH
  Tasks <- ThreeTasks, Idle <- i, MaxLag <- 14,
  current <- sched_current, preempt_count <- sched_preempt_count

sched_vars ==
  <<rq, CPU_exec_task_jiffies, vrun_time, state, NEED_SCHEDULE, sched_preempt_count,
    sched_current, intr, pc, picked>>

all_vars == <<part, vars, sched_vars>>

ProgressInit ==
  /\ part \in {"scheduler", "console"}
  /\ Init /\ S!Init
  /\ part = "scheduler" => current = a

ProgressNext ==
  /\ UNCHANGED part
  /\ \/ part = "scheduler" /\ S!Next /\ UNCHANGED vars
     \/ part = "console" /\ Next /\ UNCHANGED sched_vars

\* The fairness of each part while it runs.
ProgressSpec ==
  /\ ProgressInit /\ [][ProgressNext]_all_vars
  /\ WF_all_vars(part = "scheduler" /\ S!Tick /\ UNCHANGED <<part, vars>>)
  /\ \A t \in Tasks :
       /\ SF_all_vars(part = "console" /\ Switch(t) /\ UNCHANGED <<part, sched_vars>>)
       /\ SF_all_vars(part = "console" /\ Step /\ current = t /\ UNCHANGED <<part, sched_vars>>)

-----------------------------------------------------------------------------
(* The properties of Scheduler; those of Console have their names already. *)

\* insert_task_queue keeps the run queue sorted, and the vrun_times of two tasks
\* that compute stay within one budget of schedule().
FairShare == S!FairShare

\* schedule() comes back to every task that may run.
EveryTaskRuns == S!EveryTaskRuns

=============================================================================
