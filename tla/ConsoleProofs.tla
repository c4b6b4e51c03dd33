----------------------------- MODULE ConsoleProofs -----------------------------
(***************************************************************************)
(* As long as only tasks and handlers print, the screen lock is never      *)
(* contended on one processor, for any number of tasks, any texts and any  *)
(* screen: it is enough that spin_lock forbids preemption before it        *)
(* touches the lock and that spin_unlock frees the lock before it allows   *)
(* preemption again.                                                       *)
(***************************************************************************)
EXTENDS Console, TLAPS

\* From preempt_disable to preempt_enable.
Guarded == {"inc", "cmp", "put", "unlock", "enable"}

\* The lock has been incremented and not yet freed.
Entered == {"cmp", "put", "unlock"}

Frame == [pc : Guarded \cup {"disable"}, text : Texts, i : Nat]

\* Where a task stands in ColorPrintfk.
PcOf(t) == IF frames[t] = <<>> THEN "out" ELSE frames[t][1].pc

\* A task has one call at most: only a softirq prints on top of another one.
Shape ==
  /\ current \in Tasks
  /\ frames \in [Tasks -> {<<>>} \cup {<<f>> : f \in Frame}]
  /\ preempt_count \in [Tasks -> Nat]
  /\ lock \in Nat

\* The inductive invariant: the counter says whether the task is between
\* preempt_disable and preempt_enable, only the task on the processor is, and the
\* lock says whether that task has entered.
LockInv ==
  /\ Shape
  /\ \A t \in Tasks : preempt_count[t] = IF PcOf(t) \in Guarded THEN 1 ELSE 0
  /\ \A t \in Tasks : PcOf(t) \in Guarded => t = current
  /\ lock = IF PcOf(current) \in Entered THEN 1 ELSE 0

-----------------------------------------------------------------------------

\* A task that prints has exactly one frame, which is Top.
LEMMA TopFrame ==
  ASSUME Shape, Running
  PROVE  /\ Top \in Frame /\ frames[current] = <<Top>> /\ Len(frames[current]) = 1
         /\ PcOf(current) = Top.pc
<1>1. PICK f \in Frame : frames[current] = <<f>>
  BY DEF Shape, Running
<1>2. Len(frames[current]) = 1 /\ frames[current][1] = f /\ frames[current] # <<>>
  BY <1>1
<1> QED BY <1>1, <1>2 DEF Top, PcOf

\* What SetTop does to the places of the tasks.
LEMMA SetTopEffect ==
  ASSUME Shape, Running, NEW f \in Frame, SetTop(f)
  PROVE  /\ frames' \in [Tasks -> {<<>>} \cup {<<g>> : g \in Frame}]
         /\ PcOf(current)' = f.pc \/ current' # current
         /\ frames'[current] = <<f>>
         /\ \A t \in Tasks : t # current => frames'[t] = frames[t]
<1>1. frames[current] = <<Top>> /\ Len(frames[current]) = 1 /\ current \in Tasks
  BY TopFrame DEF Shape
<1>2. frames' = [frames EXCEPT ![current] = [@ EXCEPT ![1] = f]]
  BY <1>1 DEF SetTop
<1>3. [frames[current] EXCEPT ![1] = f] = <<f>>
  BY <1>1
<1>4. frames' = [frames EXCEPT ![current] = <<f>>]
  BY <1>1, <1>2, <1>3
<1>5. frames'[current] = <<f>> /\ <<f>> # <<>> /\ <<f>>[1] = f
  BY <1>1, <1>4 DEF Shape
<1> QED BY <1>1, <1>4, <1>5 DEF Shape, PcOf

\* A step that moves the running task from one place to another and leaves the
\* rest of the tasks alone.
LEMMA MoveEffect ==
  ASSUME Shape, NEW l \in Guarded, NEW k, At(k), Goto(l), current' = current
  PROVE  /\ frames' \in [Tasks -> {<<>>} \cup {<<g>> : g \in Frame}]
         /\ PcOf(current) = k /\ PcOf(current)' = l
         /\ \A t \in Tasks : t # current => PcOf(t)' = PcOf(t)
<1>1. Running /\ Top \in Frame /\ PcOf(current) = k
  BY TopFrame DEF At
<1>2. [Top EXCEPT !.pc = l] \in Frame /\ [Top EXCEPT !.pc = l].pc = l
  BY <1>1 DEF Frame
<1>3. SetTop([Top EXCEPT !.pc = l])
  BY DEF Goto
<1> QED BY <1>1, <1>2, <1>3, SetTopEffect DEF PcOf

-----------------------------------------------------------------------------

\* PrintkInit leaves the lock free, and nobody prints yet.
LEMMA InitInv == Init => LockInv
BY DEF Init, LockInv, Shape, PcOf, Guarded, Entered

\* Each step of spin_lock, of the loop of ColorPrintfk and of spin_unlock keeps it.
LEMMA StepInv ==
  ASSUME LockInv, Step
  PROVE  LockInv'
<1> USE DEF LockInv, Guarded, Entered
<1>1. CASE preempt_disable
  <2>1. /\ frames' \in [Tasks -> {<<>>} \cup {<<g>> : g \in Frame}]
        /\ PcOf(current) = "disable" /\ PcOf(current)' = "inc" /\ current' = current
        /\ \A t \in Tasks : t # current => PcOf(t)' = PcOf(t)
    BY <1>1, MoveEffect DEF preempt_disable
  <2>2. preempt_count[current] = 0 /\ current \in Tasks
    BY <2>1 DEF Shape
  <2>3. /\ preempt_count' \in [Tasks -> Nat] /\ preempt_count'[current] = 1
        /\ \A t \in Tasks : t # current => preempt_count'[t] = preempt_count[t]
    BY <1>1, <2>2 DEF preempt_disable, Shape
  <2>4. lock = 0 /\ lock' = 0
    BY <1>1, <2>1 DEF preempt_disable
  <2>5. Shape'
    BY <2>1, <2>2, <2>3, <2>4 DEF Shape
  <2>6. \A t \in Tasks : /\ (preempt_count[t] = IF PcOf(t) \in Guarded THEN 1 ELSE 0)'
                        /\ (PcOf(t) \in Guarded => t = current)'
    BY <2>1, <2>3
  <2> QED BY <2>1, <2>4, <2>5, <2>6
<1>2. CASE LockInc
  <2>1. /\ frames' \in [Tasks -> {<<>>} \cup {<<g>> : g \in Frame}]
        /\ PcOf(current) = "inc" /\ PcOf(current)' = "cmp" /\ current' = current
        /\ \A t \in Tasks : t # current => PcOf(t)' = PcOf(t)
    BY <1>2, MoveEffect DEF LockInc
  <2> QED BY <1>2, <2>1 DEF LockInc, Shape
<1>3. CASE LockCmp
  <2>1. lock = 1
    BY <1>3, TopFrame DEF LockCmp, At
  <2>2. /\ frames' \in [Tasks -> {<<>>} \cup {<<g>> : g \in Frame}]
        /\ PcOf(current) = "cmp" /\ PcOf(current)' = "put" /\ current' = current
        /\ \A t \in Tasks : t # current => PcOf(t)' = PcOf(t)
    BY <1>3, <2>1, MoveEffect DEF LockCmp
  <2> QED BY <1>3, <2>1, <2>2 DEF LockCmp, Shape
<1>4. CASE Put
  <2>1. Running /\ Top \in Frame /\ Top.pc = "put" /\ PcOf(current) = "put" /\ current' = current
    BY <1>4, TopFrame DEF Put, At
  <2>2. /\ frames' \in [Tasks -> {<<>>} \cup {<<g>> : g \in Frame}]
        /\ PcOf(current)' \in {"put", "unlock"}
        /\ \A t \in Tasks : t # current => PcOf(t)' = PcOf(t)
    <3>1. CASE Goto("unlock")
      BY <1>4, <2>1, <3>1, MoveEffect DEF Put
    <3>2. CASE SetTop([Top EXCEPT !.i = @ + 1])
      <4>1. [Top EXCEPT !.i = @ + 1] \in Frame /\ [Top EXCEPT !.i = @ + 1].pc = "put"
        BY <2>1 DEF Frame
      <4> QED BY <2>1, <3>2, <4>1, SetTopEffect DEF PcOf
    <3> QED BY <1>4, <3>1, <3>2 DEF Put
  <2> QED BY <1>4, <2>1, <2>2 DEF Put, Shape
<1>5. CASE Unlock
  <2>1. /\ frames' \in [Tasks -> {<<>>} \cup {<<g>> : g \in Frame}]
        /\ PcOf(current) = "unlock" /\ PcOf(current)' = "enable" /\ current' = current
        /\ \A t \in Tasks : t # current => PcOf(t)' = PcOf(t)
    BY <1>5, MoveEffect DEF Unlock
  <2> QED BY <1>5, <2>1 DEF Unlock, Shape
<1>6. CASE preempt_enable
  <2>1. frames[current] = <<Top>> /\ PcOf(current) = "enable" /\ current' = current
    BY <1>6, TopFrame DEF preempt_enable, At
  <2>2. SubSeq(frames[current], 1, Len(frames[current]) - 1) = <<>>
    <3>1. Len(<<Top>>) - 1 = 0 /\ <<Top>> \in Seq({Top})
      OBVIOUS
    <3>2. SubSeq(<<Top>>, 1, 0) = <<>>
      BY <3>1
    <3> QED BY <2>1, <3>1, <3>2
  <2>3. frames' = [frames EXCEPT ![current] = <<>>]
    BY <1>6, <2>2 DEF preempt_enable
  <2>4. preempt_count[current] = 1 /\ current \in Tasks
    BY <2>1 DEF Shape
  <2>5. /\ preempt_count' \in [Tasks -> Nat] /\ preempt_count'[current] = 0
        /\ \A t \in Tasks : t # current => preempt_count'[t] = preempt_count[t]
    BY <1>6, <2>4 DEF preempt_enable, Shape
  <2>6. /\ PcOf(current)' = "out"
        /\ \A t \in Tasks : t # current => PcOf(t)' = PcOf(t)
    BY <2>1, <2>3, <2>4 DEF Shape, PcOf
  <2>7. lock = 0 /\ lock' = 0
    BY <1>6, <2>1 DEF preempt_enable
  <2>8. Shape'
    BY <2>1, <2>3, <2>4, <2>5, <2>7 DEF Shape
  <2>9. \A t \in Tasks : /\ (preempt_count[t] = IF PcOf(t) \in Guarded THEN 1 ELSE 0)'
                        /\ (PcOf(t) \in Guarded => t = current)'
    BY <2>1, <2>5, <2>6
  <2> QED BY <2>1, <2>6, <2>7, <2>8, <2>9
<1> QED BY <1>1, <1>2, <1>3, <1>4, <1>5, <1>6 DEF Step

\* So do a new call, a handler that prints and a switch of tasks.
LEMMA NextInv ==
  ASSUME LockInv, [Next]_vars
  PROVE  LockInv'
<1> USE DEF LockInv, Guarded, Entered
<1>1. CASE Step
  BY <1>1, StepInv
<1>2. CASE ColorPrintfk
  <2>1. frames[current] = <<>> /\ current \in Tasks /\ PcOf(current) = "out"
    BY <1>2 DEF ColorPrintfk, Running, Shape, PcOf
  <2>2. PICK text \in Texts :
          frames' = [frames EXCEPT ![current] =
                       Append(@, [pc |-> "disable", text |-> text, i |-> 1])]
    BY <1>2 DEF ColorPrintfk, Call
  <2> DEFINE f == [pc |-> "disable", text |-> text, i |-> 1]
  <2>3. frames' = [frames EXCEPT ![current] = <<f>>] /\ f \in Frame /\ f.pc = "disable"
    BY <2>1, <2>2 DEF Frame, Shape
  <2>4. /\ <<f>> # <<>> /\ <<f>>[1] = f
        /\ UNCHANGED <<lock, preempt_count, current>>
    BY <1>2 DEF ColorPrintfk, Call
  <2> HIDE DEF f
  <2>5. PcOf(current)' = "disable" /\ \A t \in Tasks : t # current => PcOf(t)' = PcOf(t)
    BY <2>1, <2>3, <2>4 DEF PcOf, Shape
  <2> QED BY <2>1, <2>3, <2>4, <2>5 DEF Shape
<1>3. CASE HandlerPrints
  BY <1>3 DEF HandlerPrints, Shape, PcOf
<1>4. ASSUME NEW t \in Tasks, Switch(t)
      PROVE  LockInv'
  BY <1>4 DEF Switch, Shape, PcOf
<1>5. CASE UNCHANGED vars
  BY <1>5 DEF vars, Shape, PcOf
<1> QED BY <1>1, <1>2, <1>3, <1>4, <1>5 DEF Next

\* The invariant is stronger than what it is for.
LEMMA InvUncontended == LockInv => LockUncontended
<1> SUFFICES ASSUME LockInv PROVE LockUncontended
  OBVIOUS
<1>1. lock \in {0, 1}
  BY DEF LockInv
<1>2. ASSUME NEW t \in Tasks, NEW k \in DOMAIN frames[t]
      PROVE  /\ frames[t][k].pc # "spin"
             /\ frames[t][k].pc \in Entered => lock = 1 /\ t = current
  <2>1. PICK f \in Frame : frames[t] = <<f>>
    BY <1>2 DEF LockInv, Shape
  <2>2. k = 1 /\ frames[t][k] = f /\ PcOf(t) = f.pc
    BY <1>2, <2>1 DEF PcOf
  <2> QED BY <2>1, <2>2 DEF LockInv, Frame, Guarded, Entered
<1> QED BY <1>1, <1>2 DEF LockUncontended, Entered

\* Whoever comes to the screen lock finds it free: no call of ColorPrintfk ever
\* spins, whatever tasks and handlers print.
THEOREM LockNeverContended == Spec => []LockUncontended
<1>1. LockInv /\ [Next]_vars => LockInv'
  BY NextInv
<1> QED BY InitInv, InvUncontended, <1>1, PTL DEF Spec

================================================================================
