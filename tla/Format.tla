------------------------------- MODULE Format -------------------------------
(***************************************************************************)
(* How a format becomes text: VsPrintfk of kernel/printk.c, its twin       *)
(* vsprintf of user/printf.c, NumToString of kernel/lib.c, and the way of  *)
(* printf's text through sys_putstring to the console.                     *)
(*                                                                         *)
(* A format is met one item at a time: a plain character, or a conversion  *)
(* with its argument.  An argument is the word that the caller passed; int *)
(* and long have IntBits and LongBits bits.                                *)
(***************************************************************************)
EXTENDS Integers, Sequences, SequencesExt

CONSTANTS
  IntBits, LongBits,
  MAX_BUFFER_LEN,        \* of the kernel
  USER_MAX_BUFFER_LEN,   \* MAX_BUFFER_LEN of user/printf.c
  Items,                 \* [conv, num, str]
  MaxItems               \* bound on the length of a format

ASSUME WidthsAssumption == IntBits \in 2..LongBits /\ USER_MAX_BUFFER_LEN < MAX_BUFFER_LEN

VARIABLES
  side,     \* "kernel": in VsPrintfk; "user": in vsprintf; "done"
  buffer,
  pieces,   \* history: each item with the text it gave
  shown     \* the text that ColorPrintfk puts on the screen

format_vars == <<side, buffer, pieces, shown>>

-----------------------------------------------------------------------------
(* Numbers *)

Signed(v, bits) == LET u == v % 2^bits IN IF u < 2^(bits-1) THEN u ELSE u - 2^bits

lower_digits == <<"0","1","2","3","4","5","6","7","8","9","a","b","c","d","e","f">>
upper_digits == <<"0","1","2","3","4","5","6","7","8","9","A","B","C","D","E","F">>

\* Mutant: the first digit is not a digit of the number.
DigitsFromZero(Num, base, glyphs) ==
  LET from[n \in 0 .. 2^LongBits - 1] ==
        <<glyphs[(n % base) + 1]>> \o IF n = 0 THEN <<>> ELSE from[n \div base]
  IN  from[Num % 2^LongBits]

\* The digits, the last one first.  DoDiv is divq, which takes Num as unsigned.
Digits(Num, base, glyphs) ==
  LET from[n \in 0 .. 2^LongBits - 1] ==
        IF n = 0 THEN <<>> ELSE <<glyphs[(n % base) + 1]>> \o from[n \div base]
  IN  IF Num = 0 THEN <<"0">> ELSE from[Num % 2^LongBits]

NumToString(Num, base, glyphs) ==
  Reverse(Digits(Num, base, glyphs)
          \o (IF Num < 0 /\ base = 10 THEN <<"-">> ELSE <<>>)
          \o (IF base = 16 THEN <<"x", "0">> ELSE <<>>))

-----------------------------------------------------------------------------
(* Conversions *)

\* What an item asks for, before anybody looks at the room in the buffer.
TextOf(i) ==
  CASE i.conv = "x" -> NumToString(i.num % 2^IntBits, 16, lower_digits)
    [] i.conv = "X" -> NumToString(Signed(i.num, LongBits), 16, upper_digits)
    [] i.conv = "d" -> NumToString(Signed(i.num, IntBits), 10, lower_digits)
    [] i.conv = "D" -> NumToString(Signed(i.num, LongBits), 10, lower_digits)
    [] i.conv = "p" -> NumToString(Signed(i.num, LongBits), 16, lower_digits)
    [] i.conv = "s" -> i.str
    [] i.conv \in {"c", "plain"} -> i.str
    [] i.conv = "%" -> <<"%">>
    [] OTHER -> <<"?">>

\* A single character goes to the buffer unasked; the text of a conversion must
\* leave room for the terminating zero.
Unasked == {"c", "plain", "%", "?"}

\* CurrentChar = 0 in the code that skips a text does not end the loop, since the
\* next character of the format is fetched after it.
Piece(i, b, max) ==
  IF i.conv \notin Unasked /\ Len(TextOf(i)) + Len(b) >= max THEN <<>> ELSE TextOf(i)

\* Single characters do not look at the room: the callers' formats are short enough.
Convert(i, max) ==
  /\ Len(pieces) < MaxItems
  /\ i.conv \in Unasked => Len(buffer) + 1 < max
  /\ buffer' = buffer \o Piece(i, buffer, max)
  /\ pieces' = Append(pieces, [item |-> i, text |-> Piece(i, buffer, max)])
  /\ UNCHANGED <<side, shown>>

\* One round of the loop of VsPrintfk.
VsPrintfk == side = "kernel" /\ \E i \in Items : Convert(i, MAX_BUFFER_LEN)

\* ColorPrintfk goes on to the screen.
ColorPrintfk ==
  /\ side = "kernel"
  /\ shown' = buffer /\ side' = "done"
  /\ UNCHANGED <<buffer, pieces>>

\* One round of the loop of vsprintf.
vsprintf == side = "user" /\ \E i \in Items : Convert(i, USER_MAX_BUFFER_LEN)

\* sys_putstring: the text is the argument of "%s" in a format of its own.
putstring ==
  LET i == [conv |-> "s", num |-> 0, str |-> buffer]
  IN  /\ side = "user"
      /\ shown' = Piece(i, <<>>, MAX_BUFFER_LEN)
      /\ side' = "done"
      /\ UNCHANGED <<buffer, pieces>>

FormatInit == side \in {"kernel", "user"} /\ buffer = <<>> /\ pieces = <<>> /\ shown = <<>>

FormatNext == VsPrintfk \/ ColorPrintfk \/ vsprintf \/ putstring

FormatSpec == FormatInit /\ [][FormatNext]_format_vars

-----------------------------------------------------------------------------

DigitOf(c) == CHOOSE d \in 0..15 : c \in {lower_digits[d+1], upper_digits[d+1]}

\* The number that a sequence of digits stands for.
Value(s, base) ==
  LET v[k \in 0..Len(s)] == IF k = 0 THEN 0 ELSE v[k-1] * base + DigitOf(s[k])
  IN  v[Len(s)]

NoLeadingZero(s) == Len(s) = 1 \/ (s # <<>> /\ s[1] # "0")

\* A text that stands for the number v, not below 0, as people write it.
StandsFor(s, v, base) ==
  LET digits == IF base = 16 THEN SubSeq(s, 3, Len(s)) ELSE s
  IN  /\ base = 16 => SubSeq(s, 1, 2) = <<"0", "x">>
      /\ NoLeadingZero(digits) /\ Value(digits, base) = v

\* The number that a conversion is to show, and its base.
NumberOf(i) ==
  CASE i.conv = "d" -> Signed(i.num, IntBits)
    [] i.conv = "D" -> Signed(i.num, LongBits)
    [] i.conv = "x" -> i.num % 2^IntBits
    [] OTHER        -> i.num % 2^LongBits

BaseOf(i) == IF i.conv \in {"d", "D"} THEN 10 ELSE 16

\* Whoever reads a number on the screen reads the one that was passed, if it was not
\* printed in decimal and below 0, for which NumToString divides the wrong number
\* (lib.c:22): the digits stand for it, unless it was left out for want of room; and
\* sys_putstring shows what printf has put together unchanged.
NumbersReadBack ==
  /\ \A k \in DOMAIN pieces :
       LET i == pieces[k].item
       IN  i.conv \in {"x", "X", "p", "d", "D"} /\ NumberOf(i) >= 0 /\ pieces[k].text # <<>>
           => StandsFor(pieces[k].text, NumberOf(i), BaseOf(i))
  /\ side = "done" => shown = buffer

=============================================================================
