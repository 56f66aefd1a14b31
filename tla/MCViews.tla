------------------------------ MODULE MCViews ------------------------------
(***************************************************************************)
(* Instances of Views: two days of three seconds, a timer that was just    *)
(* started, and an entry across midnight.                                  *)
(***************************************************************************)
EXTENDS Views, TLC

MCDays == {[from |-> 1, to |-> 3], [from |-> 4, to |-> 6]}
MCSpans == {[start |-> 1, stop |-> 1], [start |-> 2, stop |-> 5]}

Interchangeable == Permutations(TaskId) \cup Permutations(EntryId)
=============================================================================
