--------------------------- MODULE MCAutoTracker ---------------------------
(***************************************************************************)
(* Small instances of AutoTracker: one task that follows the default idle  *)
(* time and stops quietly, and one with an idle time of its own that asks. *)
(***************************************************************************)
EXTENDS AutoTracker, TLC

CONSTANTS quietTask, askingTask

MCTaskIdle == (quietTask :> 0) @@ (askingTask :> 1)
============================================================================
