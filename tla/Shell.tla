-------------------------------- MODULE Shell --------------------------------
(***************************************************************************)
(* The loop of user/init.c: read_line collects the keys up to Enter in a   *)
(* buffer that was cleared, parse_command cuts the buffer into words in    *)
(* place, and the first word selects a command.                            *)
(***************************************************************************)
EXTENDS Naturals, FiniteSets, FiniteSetsExt, Sequences, SequencesExt

CONSTANTS
  Keys,        \* the characters somebody types, the blank among them
  BUF,         \* the size of the buffer
  MaxLine,     \* bound on the keys of a line
  Commands     \* the names of shell_internal_cmd, in order

\* read_line does not look at the size of the buffer: the end of the string has
\* its place only in lines that are shorter.
ASSUME LineFits == MaxLine < BUF

NUL == "NUL"
Blank == " "

VARIABLES
  buf, count,          \* of main and of read_line
  argc, argv, index,   \* what parse_command has found
  stage,               \* read or run
  line                 \* the keys of this line

shell_vars == <<buf, count, argc, argv, index, stage, line>>

\* The string that begins at place i.
StringAt(b, i) ==
  LET n == Min({k \in i..(BUF - 1) : b[k] = NUL}) IN [k \in 1..(n - i) |-> b[i + k - 1]]

\* while(buf[j] == ' ') j++
SkipBlanks(b, j) == Min({k \in j..(BUF - 1) : b[k] # Blank})

\* while(buf[j] != ' ' && buf[j] != '\0') j++
SkipWord(b, j) == Min({k \in j..(BUF - 1) : b[k] \in {Blank, NUL}})

\* Mutant: a word counts only when a blank follows it.
EndsWordBlank(b, i) == b[i] # Blank /\ b[i+1] = Blank

EndsWord(b, i) == b[i] # Blank /\ b[i+1] \in {Blank, NUL}

\* The first loop of parse_command counts the words.
CountWords(b) ==
  LET stop == Min({k \in SkipBlanks(b, 0)..(BUF - 1) : b[k] = NUL})
  IN  Cardinality({i \in SkipBlanks(b, 0)..(stop - 1) : EndsWord(b, i)})

\* The second one ends every word where its blank was.
Cut(b, n) ==
  LET cut[i \in 0..n] ==
        IF i = 0 THEN [b |-> b, j |-> SkipBlanks(b, 0), argv |-> <<>>]
        ELSE LET c == cut[i-1]
                 e == SkipWord(c.b, c.j)
                 after == [c.b EXCEPT ![e] = NUL]
             IN  [b |-> after, argv |-> Append(c.argv, c.j),
                  j |-> IF e + 1 < BUF THEN SkipBlanks(after, e + 1) ELSE BUF]
  IN  cut[n]

NoCommand == 0

find_cmd(name) ==
  IF \E i \in DOMAIN Commands : Commands[i] = name
  THEN Min({i \in DOMAIN Commands : Commands[i] = name}) ELSE NoCommand

ReadLine(key) ==
  /\ stage = "read" /\ count < MaxLine
  /\ buf' = [buf EXCEPT ![count] = key]
  /\ count' = count + 1
  /\ line' = Append(line, key)
  /\ UNCHANGED <<argc, argv, index, stage>>

\* Enter: read_line returns and parse_command does its work.
ParseCommand ==
  /\ stage = "read"
  /\ argc' = CountWords(buf)
  /\ IF CountWords(buf) = 0
     THEN index' = NoCommand /\ argv' = <<>> /\ UNCHANGED buf
     ELSE \E r \in {Cut(buf, CountWords(buf))} :
            /\ buf' = r.b /\ argv' = r.argv
            /\ index' = find_cmd(StringAt(r.b, r.argv[1]))
  /\ stage' = "run"
  /\ UNCHANGED <<count, line>>

Cleared == [k \in 0..(BUF - 1) |-> NUL]

\* The command has run, or there was none: main turns to the next line.
RunCommand ==
  /\ stage = "run"
  /\ buf' = Cleared /\ count' = 0
  /\ argc' = 0 /\ argv' = <<>> /\ index' = NoCommand
  /\ stage' = "read" /\ line' = <<>>

ShellInit ==
  /\ buf = [k \in 0..(BUF - 1) |-> NUL] /\ count = 0
  /\ argc = 0 /\ argv = <<>> /\ index = NoCommand
  /\ stage = "read" /\ line = <<>>

ShellNext == (\E key \in Keys : ReadLine(key)) \/ ParseCommand \/ RunCommand

ShellSpec == ShellInit /\ [][ShellNext]_shell_vars

-------------------------------------------------------------------------------

\* The words of the line: the longest runs without a blank, in order.
WordStarts == {i \in DOMAIN line : line[i] # Blank /\ (i = 1 \/ line[i-1] = Blank)}
WordAt(i) ==
  SubSeq(line, i, Max({k \in i..Len(line) : \A m \in i..k : line[m] # Blank}))
Words == LET starts == SetToSortSeq(WordStarts, <) IN [k \in DOMAIN starts |-> WordAt(starts[k])]

\* A line runs the command that its first word names, if there is one, with the
\* words of the line as argv and their number as argc, wherever the blanks are and
\* whatever the line before left in the buffer: the count of the first loop and
\* the cuts of the second agree, and find_cmd compares whole words.
LineRuns ==
  stage = "run" =>
    /\ argc = Len(Words)
    /\ [k \in DOMAIN argv |-> StringAt(buf, argv[k])] = Words
    /\ IF Words # <<>> /\ Words[1] \in ToSet(Commands)
       THEN index # NoCommand /\ Commands[index] = Words[1]
       ELSE index = NoCommand

===============================================================================
