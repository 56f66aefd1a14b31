----------------------------- MODULE MCDialogs -----------------------------
(***************************************************************************)
(* Small instances of Dialogs: tasks that ask and have an idle time of     *)
(* their own, which is shorter than the default one.                       *)
(***************************************************************************)
EXTENDS Dialogs, TLC

MCTaskIdle == [t \in TaskId |-> 1]

Entries == Permutations(EntryId)
============================================================================
