--------------------------- MODULE MCSyncManager ---------------------------
(***************************************************************************)
(* Small instances of SyncManager: all entries belong to one task.         *)
(***************************************************************************)
EXTENDS SyncManager, TLC

CONSTANT work

MCOwner == [e \in EntryId |-> work]

Clients == Permutations(Client)
============================================================================
