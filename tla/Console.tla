------------------------------- MODULE Console -------------------------------
(***************************************************************************)
(* ColorPrintfk of kernel/printk.c under the spin lock of                  *)
(* kernel/spin_lock.c, on the one processor that main() starts.            *)
(*                                                                         *)
(* A task that prints has a frame on its stack; the timer softirq that     *)
(* interrupts it prints in a second frame on top (test_timer of            *)
(* kernel/timer.c), and an interrupt handler prints in one step, since it  *)
(* runs with interrupts off, and takes no lock.  Each instruction of the   *)
(* spin lock is a step and so is each character.  The texts are already    *)
(* formatted (see Format).  Glyphs are left out: a cell of the screen      *)
(* holds the character last drawn there.                                   *)
(***************************************************************************)
EXTENDS Integers, Sequences, FiniteSets

CONSTANTS
  Tasks,
  XCharResolution, YCharResolution, TAB_WIDTH,
  Texts,         \* what is printed: sequences of characters
  MaxPrints      \* bound on the number of prints

ASSUME ScreenAssumption ==
  XCharResolution > 0 /\ YCharResolution > 0 /\ TAB_WIDTH \in 1..XCharResolution

VARIABLES
  screen,          \* cursorX, cursorY and the cells of the frame buffer
  lock,            \* screenInfo.lock
  preempt_count,
  current,         \* the task on the processor
  frames,          \* task -> its calls of ColorPrintfk, the innermost last
  printed,         \* history: the texts in the order in which they came to the screen
  mixed,           \* history: a handler has printed in the middle of a text
  prints           \* how many calls there have been

vars == <<screen, lock, preempt_count, current, frames, printed, mixed, prints>>

-----------------------------------------------------------------------------
(* The screen *)

Cells == (0 .. XCharResolution - 1) \X (0..YCharResolution)

PrintkInit == [cursorX |-> 0, cursorY |-> 0, cells |-> [c \in Cells |-> " "]]

\* Putchar.  A column past the right edge is an address in the next pixel line,
\* which belongs to the first columns of the same row of characters.
Putchar(s, c) ==
  [s EXCEPT !.cells[<<s.cursorX % XCharResolution, s.cursorY>>] = c]

PutNext(s, c) == [Putchar(s, c) EXCEPT !.cursorX = @ + 1]

NextRow(s) == IF s.cursorY < YCharResolution THEN s.cursorY + 1 ELSE s.cursorY

AutoPutchar(s, c) ==
  IF s.cursorX < XCharResolution THEN PutNext(s, c)
  ELSE PutNext([s EXCEPT !.cursorX = 0, !.cursorY = NextRow(s)], c)

Tab(s) ==
  LET n == TAB_WIDTH - (s.cursorX % TAB_WIDTH)
      after[k \in 0..n] == IF k = 0 THEN s ELSE PutNext(after[k-1], " ")
  IN  after[n]

Newline(s) == [s EXCEPT !.cursorY = NextRow(s), !.cursorX = 0]

Backspace(s) ==
  IF s.cursorX > 0 THEN PutNext([s EXCEPT !.cursorX = @ - 1], " ") ELSE s

\* One round of the loop of ColorPrintfk.
PutOne(s, c) ==
  CASE c = "tab" -> Tab(s)
    [] c = "newline" -> Newline(s)
    [] c = "backspace" -> Backspace(s)
    [] OTHER -> AutoPutchar(s, c)

\* The whole loop.
PutText(s, text) ==
  LET after[k \in 0..Len(text)] ==
        IF k = 0 THEN s ELSE PutOne(after[k-1], text[k])
  IN  after[Len(text)]

-----------------------------------------------------------------------------
(* ColorPrintfk, called with interrupts on *)

Running == frames[current] # <<>>
Top == frames[current][Len(frames[current])]
At(l) == Running /\ Top.pc = l
SetTop(f) == frames' = [frames EXCEPT ![current][Len(frames[current])] = f]
Goto(l) == SetTop([Top EXCEPT !.pc = l])

Call(l) ==
  /\ prints < MaxPrints
  /\ prints' = prints + 1
  /\ \E text \in Texts :
       frames' = [frames EXCEPT ![current] =
                    Append(@, [pc |-> l, text |-> text, i |-> 1])]
  /\ UNCHANGED <<screen, lock, preempt_count, current, printed, mixed>>

ColorPrintfk == ~Running /\ Call("disable")

\* test_timer, in the softirq that ends an interrupt of the task.
test_timer == Running /\ Len(frames[current]) = 1 /\ Call("disable")

\* Mutant: the task may be preempted.
preempt_disable_not ==
  /\ At("disable")
  /\ Goto("inc")
  /\ UNCHANGED <<preempt_count, screen, lock, current, printed, mixed, prints>>

\* spin_lock
preempt_disable ==
  /\ At("disable")
  /\ preempt_count' = [preempt_count EXCEPT ![current] = @ + 1]
  /\ Goto("inc")
  /\ UNCHANGED <<screen, lock, current, printed, mixed, prints>>

LockInc ==
  /\ At("inc")
  /\ lock' = lock + 1
  /\ Goto("cmp")
  /\ UNCHANGED <<screen, preempt_count, current, printed, mixed, prints>>

\* The loop "pause; cmpl; jae" that follows on a lock found taken only ends when
\* somebody else frees it, and here nobody else runs: the task is not preempted.
LockCmp ==
  /\ At("cmp")
  /\ Goto(IF lock = 1 THEN "put" ELSE "spin")
  /\ UNCHANGED <<screen, lock, preempt_count, current, printed, mixed, prints>>

\* Mutant: the loop does not get past a backspace.
PutStays ==
  /\ At("put")
  /\ IF Top.i > Len(Top.text)
     THEN Goto("unlock") /\ UNCHANGED <<screen, printed>>
     ELSE /\ screen' = PutOne(screen, Top.text[Top.i])
          /\ printed' = IF Top.i = 1 THEN Append(printed, Top.text) ELSE printed
          /\ SetTop([Top EXCEPT !.i = IF Top.text[@] = "backspace" THEN @ ELSE @ + 1])
  /\ UNCHANGED <<lock, preempt_count, current, mixed, prints>>

\* Mutant: the loop ends before the last character.
PutShort ==
  /\ At("put")
  /\ IF Top.i > 1 /\ Top.i >= Len(Top.text)
     THEN Goto("unlock") /\ UNCHANGED <<screen, printed>>
     ELSE /\ screen' = PutOne(screen, Top.text[Top.i])
          /\ printed' = IF Top.i = 1 THEN Append(printed, Top.text) ELSE printed
          /\ SetTop([Top EXCEPT !.i = @ + 1])
  /\ UNCHANGED <<lock, preempt_count, current, mixed, prints>>

\* The loop of ColorPrintfk.
Put ==
  /\ At("put")
  /\ IF Top.i > Len(Top.text)
     THEN Goto("unlock") /\ UNCHANGED <<screen, printed>>
     ELSE /\ screen' = PutOne(screen, Top.text[Top.i])
          /\ printed' = IF Top.i = 1 THEN Append(printed, Top.text) ELSE printed
          /\ SetTop([Top EXCEPT !.i = @ + 1])
  /\ UNCHANGED <<lock, preempt_count, current, mixed, prints>>

\* spin_unlock
Unlock ==
  /\ At("unlock")
  /\ lock' = 0
  /\ Goto("enable")
  /\ UNCHANGED <<screen, preempt_count, current, printed, mixed, prints>>

\* preempt_enable, and ColorPrintfk returns.
preempt_enable ==
  /\ At("enable")
  /\ preempt_count' = [preempt_count EXCEPT ![current] = @ - 1]
  /\ frames' = [frames EXCEPT ![current] = SubSeq(@, 1, Len(@) - 1)]
  /\ UNCHANGED <<screen, lock, current, printed, mixed, prints>>

-----------------------------------------------------------------------------

InTheMiddle ==
  \E t \in Tasks : \E k \in DOMAIN frames[t] :
    frames[t][k].pc = "put" /\ frames[t][k].i \in 2..Len(frames[t][k].text)

\* ColorPrintfk in an interrupt handler: get_rflags() says that interrupts are off.
HandlerPrints ==
  /\ prints < MaxPrints
  /\ prints' = prints + 1
  /\ \E text \in Texts :
       /\ screen' = PutText(screen, text)
       /\ printed' = Append(printed, text)
  /\ mixed' = (mixed \/ InTheMiddle)
  /\ UNCHANGED <<lock, preempt_count, current, frames>>

\* ret_from_intr reschedules unless the task holds a spin lock.
Switch(t) ==
  /\ preempt_count[current] = 0 /\ t # current
  /\ current' = t
  /\ UNCHANGED <<screen, lock, preempt_count, frames, printed, mixed, prints>>

Step ==
  \/ preempt_disable
  \/ LockInc
  \/ LockCmp
  \/ Put
  \/ Unlock
  \/ preempt_enable

Init ==
  /\ screen = PrintkInit
  /\ lock = 0
  /\ preempt_count = [t \in Tasks |-> 0]
  /\ current \in Tasks
  /\ frames = [t \in Tasks |-> <<>>]
  /\ printed = <<>> /\ mixed = FALSE /\ prints = 0

Next ==
  \/ Step
  \/ ColorPrintfk
  \/ HandlerPrints
  \/ \E t \in Tasks : Switch(t)

Spec == Init /\ [][Next]_vars

\* The scheduler comes round to every task, and one that has the processor gets on
\* with its code before it is preempted again (its budget is a jiffy at least).
Fairness ==
  \A t \in Tasks : SF_vars(Switch(t)) /\ SF_vars(Step /\ current = t)

FairSpec == Spec /\ Fairness

\* The timer softirq prints as well.
SoftirqSpec == Init /\ [][Next \/ test_timer]_vars /\ Fairness

-----------------------------------------------------------------------------

\* On one processor the preemption counter does the work of the lock: whoever
\* comes to LOCK finds it free, so the compare after the increment, which another
\* processor could come between, always sees its own increment.
LockUncontended ==
  /\ lock \in {0, 1}
  /\ \A t \in Tasks : \A k \in DOMAIN frames[t] :
       /\ frames[t][k].pc # "spin"
       /\ frames[t][k].pc \in {"cmp", "put", "unlock"} => lock = 1 /\ t = current

\* readme.md: the output of ColorPrintfk is "protected by a spin lock".  Whenever
\* nobody is in the middle of a text, the screen and the cursor are what printing
\* the texts one after the other gives: no text is cut in two by another, unless
\* a handler, which takes no lock, has come in the middle of one.
TextsWhole ==
  LET after[k \in 0..Len(printed)] ==
        IF k = 0 THEN PrintkInit ELSE PutText(after[k-1], printed[k])
  IN  ~InTheMiddle /\ ~mixed => screen = after[Len(printed)]

\* Every call of ColorPrintfk returns: nobody waits for the screen lock for ever.
PrintsReturn == \A t \in Tasks : frames[t] # <<>> ~> frames[t] = <<>>

=============================================================================
