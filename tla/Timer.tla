-------------------------------- MODULE Timer --------------------------------
(***************************************************************************)
(* Kernel timers (kernel/timer.c) and the softirq that runs them           *)
(* (kernel/softirq.c), driven by the HPET tick (kernel/hpet.c).            *)
(*                                                                         *)
(* A tick that finds the first timer due raises TIME_SIRQ, and the return  *)
(* path of the interrupt calls do_softirq, which opens interrupts: a       *)
(* further tick nests on the stack of the same task and enters do_softirq  *)
(* again, and the scheduler may switch to another task in the middle of    *)
(* it.  stack holds the activations of do_softirq of each task, innermost  *)
(* last; each statement of do_softirq and do_time is a step.  Which task   *)
(* the scheduler takes is left open.                                       *)
(*                                                                         *)
(* jiffies stops at MaxJiffies, which no timer lies beyond.  TIME_SIRQ is  *)
(* the only softirq of the kernel.  A timer runs once and does not add     *)
(* itself again, as test_timer.                                            *)
(***************************************************************************)
EXTENDS KernelList, Integers, Sequences

CONSTANTS
  Timers,       \* the timer_list structures
  Tasks,
  MaxJiffies,   \* bound: the last time
  MaxDepth      \* bound: activations of do_softirq on one stack

timer_list_header == "timer_list_header"

\* The header is a timer_list of its own, which nobody adds.
ASSUME TimerAssumption ==
  /\ MaxJiffies \in Nat /\ MaxDepth \in Nat \ {0} /\ Tasks # {}
  /\ IsFiniteSet(Timers) /\ timer_list_header \notin Timers

Nodes == Timers \cup {timer_list_header}
Infinity == MaxJiffies + 1      \* -1UL

VARIABLES
  jiffies,
  timer_list,       \* the links of the list
  expire_jiffies,
  added,            \* timers that add_timer was called for
  fired,            \* how often each timer's function ran, up to 2
  softirq_status,   \* is TIME_SIRQ raised?
  current,
  stack             \* task -> its activations of do_softirq

timer_vars == <<timer_list, expire_jiffies, added, fired>>
vars == <<jiffies, timer_vars, softirq_status, current, stack>>

List == Chain(timer_list, timer_list_header)

\* time_init: the header expires at -1UL; others are set when they are added.
InitExpire == [x \in Nodes |-> Infinity]

Init ==
  /\ jiffies = 0
  /\ timer_list = ListInit(Nodes) /\ expire_jiffies = InitExpire
  /\ added = {} /\ fired = [t \in Timers |-> 0]
  /\ softirq_status = FALSE
  /\ current \in Tasks
  /\ stack = [k \in Tasks |-> <<>>]

-----------------------------------------------------------------------------
(* The tick *)

\* Does hpet_handler find the first timer due?
Due(now) == expire_jiffies[timer_list.next[timer_list_header]] <= now

\* ret_from_intr: do_softirq if anything is raised, else a reschedule may switch
\* to another task.
ret_from_intr(raised) ==
  IF raised
  THEN /\ stack' = [stack EXCEPT ![current] =
                      Append(@, [pc |-> "bit", tmp |-> timer_list_header])]
       /\ UNCHANGED current
  ELSE UNCHANGED stack /\ current' \in Tasks

Tick ==
  LET now == Min({jiffies + 1, MaxJiffies})
  IN  /\ Len(stack[current]) < MaxDepth
      /\ jiffies' = now
      /\ softirq_status' = (softirq_status \/ Due(now))
      /\ ret_from_intr(softirq_status \/ Due(now))
      /\ UNCHANGED timer_vars

-----------------------------------------------------------------------------
(* do_softirq and do_time *)

Frame == stack[current][Len(stack[current])]
At(l) == stack[current] # <<>> /\ Frame.pc = l
Goto(l) == stack' = [stack EXCEPT ![current][Len(stack[current])].pc = l]

\* GetBits(softirq_status, 0, 1).  The other bits are never set.
SoftirqTest ==
  /\ At("bit")
  /\ Goto(IF softirq_status THEN "clear" ELSE "leave")
  /\ UNCHANGED <<jiffies, timer_vars, softirq_status, current>>

\* softirq_status &= ~(1 << 0), whatever it was read as.
SoftirqClear ==
  /\ At("clear")
  /\ softirq_status' = FALSE
  /\ Goto("head")
  /\ UNCHANGED <<jiffies, timer_vars, current>>

TimeHead ==
  /\ At("head")
  /\ stack' = [stack EXCEPT ![current][Len(stack[current])] =
                 [pc |-> "due", tmp |-> timer_list.next[timer_list_header]]]
  /\ UNCHANGED <<jiffies, timer_vars, softirq_status, current>>

\* Mutant: the time is not looked at.
TimeDueAlways ==
  /\ At("due")
  /\ Goto(IF Frame.tmp # timer_list_header THEN "empty" ELSE "leave")
  /\ UNCHANGED <<jiffies, timer_vars, softirq_status, current>>

\* Mutant: only a timer that expires at this very jiffy is run.
TimeDueNow ==
  /\ At("due")
  /\ Goto(IF expire_jiffies[Frame.tmp] = jiffies THEN "empty" ELSE "leave")
  /\ UNCHANGED <<jiffies, timer_vars, softirq_status, current>>

TimeDue ==
  /\ At("due")
  /\ Goto(IF expire_jiffies[Frame.tmp] <= jiffies THEN "empty" ELSE "leave")
  /\ UNCHANGED <<jiffies, timer_vars, softirq_status, current>>

TimeEmpty ==
  /\ At("empty")
  /\ Goto(IF ListIsEmpty(timer_list, timer_list_header) THEN "leave" ELSE "delete")
  /\ UNCHANGED <<jiffies, timer_vars, softirq_status, current>>

delete_timer ==
  /\ At("delete")
  /\ timer_list' = ListDelete(timer_list, Frame.tmp)
  /\ Goto("func")
  /\ UNCHANGED <<jiffies, expire_jiffies, added, fired, softirq_status, current>>

\* Mutant: do_time runs one timer and leaves.
RunTimerOnce ==
  /\ At("func")
  /\ fired' = [fired EXCEPT ![Frame.tmp] = Min({@ + 1, 2})]
  /\ Goto("leave")
  /\ UNCHANGED <<jiffies, timer_list, expire_jiffies, added, softirq_status, current>>

RunTimer ==
  /\ At("func")
  /\ fired' = [fired EXCEPT ![Frame.tmp] = Min({@ + 1, 2})]
  /\ Goto("head")
  /\ UNCHANGED <<jiffies, timer_list, expire_jiffies, added, softirq_status, current>>

\* cli, then the rest of the return path of the interrupt.
SoftirqLeave ==
  /\ At("leave")
  /\ stack' = [stack EXCEPT ![current] = SubSeq(@, 1, Len(@) - 1)]
  /\ current' \in Tasks
  /\ UNCHANGED <<jiffies, timer_vars, softirq_status>>

SoftirqStep ==
  \/ SoftirqTest \/ SoftirqClear \/ TimeHead \/ TimeDue \/ TimeEmpty
  \/ delete_timer \/ RunTimer \/ SoftirqLeave

-----------------------------------------------------------------------------
(* add_timer *)

\* The first node at or behind x that does not expire before e.
Stop(x, e) ==
  LET n == Cardinality(Nodes)
      tmp[k \in 0..n] == IF k = 0 THEN x ELSE timer_list.next[tmp[k-1]]
  IN  tmp[Min({k \in 0..n : expire_jiffies[tmp[k]] >= e})]

\* Mutant: a new timer always goes to the front.
add_timer_front(t, e) == ListBackAdd(timer_list, timer_list_header, t)

\* What add_timer makes of the list.
add_timer(t, e) ==
  IF ListIsEmpty(timer_list, timer_list_header)
  THEN ListBackAdd(timer_list, timer_list_header, t)
  ELSE ListForeAdd(timer_list, t, Stop(timer_list.next[timer_list_header], e))

\* A caller that has interrupts off, at any moment, for a time to come.
Add(t, e) ==
  /\ t \notin added /\ e > jiffies
  /\ expire_jiffies' = [expire_jiffies EXCEPT ![t] = e]
  /\ timer_list' = add_timer(t, e)
  /\ added' = added \cup {t}
  /\ UNCHANGED <<jiffies, fired, softirq_status, current, stack>>

-----------------------------------------------------------------------------

Adds == \E t \in Timers, e \in 1..MaxJiffies : Add(t, e)

Next == Tick \/ SoftirqStep \/ Adds

\* The HPET is periodic, every task gets the processor again and again, and a
\* task that has it executes some instructions between two interrupts.
Fairness ==
  /\ WF_vars(Tick)
  /\ \A k \in Tasks : SF_vars(SoftirqStep /\ current = k)

Spec == Init /\ [][Next]_vars /\ Fairness

-----------------------------------------------------------------------------
(* Properties *)

\* The shapes of the state.  do_time never deletes or calls the list header,
\* whose function is NULL.
TypeOK ==
  /\ jiffies \in 0..MaxJiffies
  /\ timer_list \in [next : [Nodes -> Nodes], prev : [Nodes -> Nodes]]
  /\ expire_jiffies \in [Nodes -> 1..Infinity]
  /\ added \subseteq Timers /\ fired \in [Timers -> 0..2]
  /\ softirq_status \in BOOLEAN /\ current \in Tasks
  /\ \A k \in Tasks : \A f \in Range(stack[k]) :
       /\ f.pc \in {"bit", "clear", "head", "due", "empty", "delete", "func", "leave"}
       /\ f.tmp \in (IF f.pc \in {"delete", "func"} THEN Timers ELSE Nodes)

InHand(t) ==
  \E k \in Tasks : \E f \in Range(stack[k]) : f.pc = "func" /\ f.tmp = t

\* However do_time is interrupted by itself, the list stays one circle that is
\* sorted by expiry, and it holds exactly the timers that have neither run nor
\* been taken off to be run: a timer that is deleted a second time by an outer
\* activation brings nothing back and loses nothing.
TimerListExact ==
  /\ Linked(timer_list)
  /\ \A i, j \in DOMAIN List : i < j => expire_jiffies[List[i]] <= expire_jiffies[List[j]]
  /\ Range(List) = {t \in added : fired[t] = 0 /\ ~InHand(t)}

\* A timer that is due is never forgotten: as long as one is on the list, the
\* softirq is raised or some activation of do_time still has to look at the
\* list, although clearing the bit and the tests in do_time can be interrupted.
DueIsCovered ==
  (\E t \in Range(List) : expire_jiffies[t] <= jiffies) =>
    \/ softirq_status
    \/ \E k \in Tasks : \E f \in Range(stack[k]) : f.pc \notin {"bit", "leave"}

\* No timer runs before its time, in whatever activation.
NotEarly ==
  [][\A t \in Timers : fired'[t] # fired[t] => expire_jiffies[t] <= jiffies]_vars

\* A timer that was added runs in the end.
EveryTimerRuns == \A t \in Timers : t \in added ~> fired[t] > 0

=============================================================================
