------------------------------ MODULE KeyDecode ------------------------------
(***************************************************************************)
(* AnalyzeKeyCode of user/keyboard.c: from the scan codes that the device  *)
(* hands out byte by byte to characters.  Every GetScanCode waits for one  *)
(* byte, so the decoder is a machine that is fed bytes: at is the place    *)
(* where it waits and x the code it works on.                              *)
(***************************************************************************)
EXTENDS Naturals, Sequences, SequencesExt, TLC

CONSTANTS
  Letters,     \* the codes of the printing keys
  Legend(_),   \* what is printed on a key: plain and with shift
  KeySets,     \* the sets of keys, grey ones aside, that somebody may type with
  GreyKeys,    \* the codes of the keys that send 0xe0 first
  MaxBytes     \* bound on the bytes the keyboard sends

VARIABLES
  keys,        \* the keys somebody types with
  down,        \* the keys that are held down
  d,           \* the decoder
  typed,       \* what the keys mean, one after the other
  regular,     \* nothing has happened yet that AnalyzeKeyCode cannot handle
  sent         \* the bytes that were sent

decode_vars == <<keys, down, d, typed, regular, sent>>

FLAG_BREAK == 128
Code(x) == x % FLAG_BREAK              \* x & 0x7f
Make(x) == x < FLAG_BREAK

Line(first, chars) == [c \in first..(first + Len(chars) - 1) |-> chars[c - first + 1]]

None == [c \in 0..127 |-> ""]

\* KeyCodeMapNormal for the codes below 0x40, without and with shift; the codes
\* that are not here stand for 0.
KeyMapLow ==
  [plain |->
     Line(2, <<"1", "2", "3", "4", "5", "6", "7", "8", "9", "0", "-", "=">>) @@
     Line(16, <<"q", "w", "e", "r", "t", "y", "u", "i", "o", "p", "[", "]">>) @@
     Line(30, <<"a", "s", "d", "f", "g", "h", "j", "k", "l", ";", "'", "backquote">>) @@
     Line(43, <<"\\", "z", "x", "c", "v", "b", "n", "m", ",", ".", "/">>) @@
     Line(55, <<"*">>) @@ Line(57, <<" ">>),
   shift |->
     Line(2, <<"!", "@", "#", "$", "%", "^", "&", "*", "(", ")", "_", "+">>) @@
     Line(16, <<"Q", "W", "E", "R", "T", "Y", "U", "I", "O", "P", "{", "}">>) @@
     Line(30, <<"A", "S", "D", "F", "G", "H", "J", "K", "L", ":", "\"", "~">>) @@
     Line(43, <<"|", "Z", "X", "C", "V", "B", "N", "M", "<", ">", "?">>) @@
     Line(55, <<"*">>) @@ Line(57, <<" ">>)]

\* The codes from 0x40 on: the pad.
KeyMapHigh ==
  [plain |-> Line(71, <<"7", "8", "9", "-", "4", "5", "6", "+", "1", "2", "3", "0", ".">>),
   shift |-> None]

Plain == KeyMapLow.plain @@ KeyMapHigh.plain @@ None
Shifted == KeyMapLow.shift @@ KeyMapHigh.shift

\* The decoder returns: a key that is not 0 reaches the caller.
Return(s, key) == [s EXCEPT !.at = "start", !.text = IF key = "" THEN @ ELSE Append(@, key)]

\* Mutant: the right shift key does not shift.
ColumnLeft(s) == IF s.ShiftL THEN Shifted ELSE Plain

Column(s) == IF s.ShiftL \/ s.ShiftR THEN Shifted ELSE Plain

\* The second half of AnalyzeKeyCode: the key that code x stands for.
Key(s, x) ==
  CASE Code(x) = 1  -> Return(s, "")
    [] Code(x) = 14 -> Return(s, "backspace")
    [] Code(x) = 15 -> Return(s, "tab")
    [] Code(x) = 28 -> [s EXCEPT !.at = "enter"]
    [] Code(x) = 42 -> Return([s EXCEPT !.ShiftL = Make(x)], "")
    [] Code(x) = 29 -> Return([s EXCEPT !.CtrlL = Make(x)], "")
    [] Code(x) = 56 -> Return([s EXCEPT !.AltL = Make(x)], "")
    [] Code(x) = 54 -> Return([s EXCEPT !.ShiftR = Make(x)], "")
    [] Code(x) = 58 -> Return([s EXCEPT !.Caps = ~@], "")
    [] OTHER        -> Return(s, IF Make(x) THEN Column(s)[Code(x)] ELSE "")

PB_CODE_SIZE == 6

PauseBreakCode == <<225, 29, 69, 225, 157, 197>>

\* The codes of the switch behind 0xe0 that all do the same.
Others == {72, 75, 80, 77, 82, 71, 73, 83, 79, 81, 91, 92, 93, 53, 28}

SetAltR(s, x) == [s EXCEPT !.AltR = Make(x)]

\* The code behind 0xe0.  0x2a begins the code of print screen.  Both control keys
\* set CtrlL, and so do the keys of Others, pressed or released.
Extended(s, x) ==
  CASE Code(x) = 42 -> [s EXCEPT !.at = "screen", !.x = x]
    [] Code(x) = 29 -> Return([s EXCEPT !.CtrlL = Make(x)], "OTHER_KEY")
    [] Code(x) = 56 -> Return(SetAltR(s, x), "OTHER_KEY")
    [] Code(x) \in Others -> Return([s EXCEPT !.CtrlL = TRUE], "OTHER_KEY")
    [] OTHER -> Key(s, x)

\* One byte more for AnalyzeKeyCode.
Feed(s, b) ==
  CASE s.at = "start" ->
         IF b = 225 THEN [s EXCEPT !.at = "pause", !.x = 1]
         ELSE IF b = 224 THEN [s EXCEPT !.at = "extended"] ELSE Key(s, b)
    [] s.at = "pause" ->
         IF b # PauseBreakCode[s.x + 1] THEN Return(s, "")
         ELSE IF s.x = PB_CODE_SIZE - 1 THEN Return(s, "PAUSE_BREAK") ELSE [s EXCEPT !.x = @ + 1]
    [] s.at = "extended" -> Extended(s, b)
    [] s.at = "screen" -> IF b = 224 THEN [s EXCEPT !.at = "screen2"] ELSE Key(s, s.x)
    [] s.at = "screen2" -> IF b = 55 THEN Return(s, "PRINT_SCREEN") ELSE Key(s, s.x)
    [] s.at = "enter" -> Return(s, "newline")

-------------------------------------------------------------------------------

\* The keyboard: the bytes of an event go to the decoder in order.  The byte behind
\* the code of Enter is dropped, and must be the release of Enter.
Send(bytes, handled) ==
  /\ sent + Len(bytes) <= MaxBytes
  /\ sent' = sent + Len(bytes)
  /\ d' = FoldLeft(Feed, d, bytes)
  /\ regular' = (regular /\ handled /\ (d.at = "enter" => bytes = <<28 + FLAG_BREAK>>))
  /\ UNCHANGED keys

ShiftKeys == {42, 54}
TypingKeys == {14, 15, 28} \cup Letters
Grey(k) == 256 + k                     \* in down, to tell it from the plain key

Meaning(k) ==
  CASE k = 14 -> "backspace" [] k = 15 -> "tab" [] k = 28 -> "newline"
    [] OTHER -> Legend(k)[IF down \cap ShiftKeys # {} THEN 2 ELSE 1]

Press(k) ==
  /\ k \in down => k \in TypingKeys     \* such a key repeats while it is held
  /\ Send(<<k>>, TRUE)
  /\ down' = down \cup {k}
  /\ typed' = IF k \in TypingKeys THEN Append(typed, Meaning(k)) ELSE typed

\* The release of Backspace and of Tab types the character again.
Release(k) ==
  /\ k \in down
  /\ Send(<<k + FLAG_BREAK>>, k \notin {14, 15})
  /\ down' = down \ {k} /\ UNCHANGED typed

\* The grey keys, pressed without shift (with it they send codes of their own).  The
\* program is told that there was one, when it goes down and when it goes up.
PressGrey(k) ==
  /\ Grey(k) \notin down /\ down \cap ShiftKeys = {}
  /\ Send(<<224, k>>, TRUE)
  /\ down' = down \cup {Grey(k)} /\ typed' = Append(typed, "OTHER_KEY")

ReleaseGrey(k) ==
  /\ Grey(k) \in down
  /\ Send(<<224, k + FLAG_BREAK>>, TRUE)
  /\ down' = down \ {Grey(k)} /\ typed' = Append(typed, "OTHER_KEY")

Pause ==
  /\ Send(PauseBreakCode, TRUE)
  /\ typed' = Append(typed, "PAUSE_BREAK") /\ UNCHANGED down

KeyDecodeInit ==
  /\ keys \in KeySets
  /\ down = {} /\ typed = <<>> /\ regular = TRUE /\ sent = 0
  /\ d = [at |-> "start", x |-> 0, text |-> <<>>, ShiftL |-> FALSE, ShiftR |-> FALSE,
          CtrlL |-> FALSE, AltL |-> FALSE, AltR |-> FALSE, Caps |-> FALSE]

KeyDecodeNext ==
  \/ \E k \in keys : Press(k) \/ Release(k)
  \/ \E k \in GreyKeys : PressGrey(k) \/ ReleaseGrey(k)
  \/ Pause

KeyDecodeSpec == KeyDecodeInit /\ [][KeyDecodeNext]_decode_vars

-------------------------------------------------------------------------------

\* AnalyzeKeyCode waits at one of its calls of GetScanCode, and in the pause code at
\* one of its five further bytes.
KeyDecodeTypeOK ==
  /\ d.at \in {"start", "pause", "extended", "screen", "screen2", "enter"}
  /\ d.at = "pause" => d.x \in 1..5
  /\ sent <= MaxBytes

\* What AnalyzeKeyCode returns, call after call, is what was typed: a character with
\* shift where a shift key was held when its key went down, and a code of its own for a
\* grey key and for Pause.  It is so whatever keys overlap, as long as two things have
\* not happened: Backspace or Tab was released, which types it again (keyboard.c:462),
\* or something other than its release came behind Enter, and was dropped
\* (keyboard.c:470).  read_line stores every one of these codes in its line.
TextIsTyped == regular /\ d.at = "start" => d.text = typed

===============================================================================
