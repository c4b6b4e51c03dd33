------------------------------- MODULE MCTimer -------------------------------
(* Three timers and two tasks.  The timers are alike, and so are the tasks:   *)
(* the timers are added in the order of their names, and a runs first.  (A    *)
(* SYMMETRY would not be sound for EveryTimerRuns.)                           *)
EXTENDS Timer

CONSTANTS t1, t2, t3, a, b

ThreeTimers == {t1, t2, t3}
TwoTasks == {a, b}

Named == {{}, {t1}, {t1, t2}, ThreeTimers}

\* Bound: the activations of do_softirq on the stack of b.
BDepth == 2

TimerSpec ==
  /\ Init /\ current = a
  /\ [][Next /\ added' \in Named /\ Len(stack'[b]) <= BDepth]_vars
  /\ Fairness

=============================================================================
