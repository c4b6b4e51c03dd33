------------------------------ MODULE MCConsole ------------------------------
(* One task prints, and the timer softirq on top of it. *)
EXTENDS Console

CONSTANT a

OneText == {<<"a", "b">>}

=============================================================================
