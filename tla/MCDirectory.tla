----------------------------- MODULE MCDirectory -----------------------------
(* Small directories with short names, one of them with 0x05, a long name in  *)
(* two pieces, deleted entries and end marks.                                 *)
EXTENDS Directory

Short(b, x, mark, nt) ==
  [long |-> FALSE, mark |-> mark, base |-> b, ext |-> x, nt |-> nt, isdir |-> FALSE]
Piece(o, last, part, mark) ==
  [long |-> TRUE, mark |-> mark, ord |-> o, last |-> last, part |-> part]

\* 0xe5 in ldir_ord reads as piece 37.
Kinds ==
  { Short(<<"A">>, <<"B">>, "name", FALSE),
    Short(<<"A", "B">>, <<>>, "name", TRUE),
    Short(<<"C">>, <<>>, "name", FALSE),
    Short(<<"e5", "D">>, <<>>, "e5", FALSE),
    Short(<<"05", "D">>, <<>>, "05", FALSE),
    Short(<<>>, <<>>, "00", FALSE),
    Piece(2, TRUE, <<"a">>, "name"),
    Piece(1, FALSE, <<"b">>, "name"),
    Piece(37, TRUE, <<"b">>, "e5") }

AskedFor == { <<"A", "B">>, <<"A", ".", "B">>, <<"C">>, <<"b", "a">>, <<".">> }

\* Names that the same directory may hold.
Distinct(d) ==
  \A s, t \in DOMAIN d : (d[s] = d[t] /\ d[s].mark = "name") => s = t

===============================================================================
