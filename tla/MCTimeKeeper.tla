--------------------------- MODULE MCTimeKeeper ---------------------------
(***************************************************************************)
(* Small instances of TimeKeeper: one task that follows the default idle   *)
(* time and stops quietly, and one with an idle time of its own that asks. *)
(***************************************************************************)
EXTENDS TimeKeeper, TLC

CONSTANTS quietTask, askingTask

MCTaskIdle == (quietTask :> 0) @@ (askingTask :> 1)

Entries == Permutations(EntryId)
===========================================================================
