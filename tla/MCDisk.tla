------------------------------- MODULE MCDisk -------------------------------
(* One task that uses the disk, and the idle task. *)
EXTENDS Disk

CONSTANTS a, i

OneTask == {a}

=============================================================================
