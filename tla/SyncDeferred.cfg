SPECIFICATION Spec
CONSTANTS
  Client = {c1, c2}
  work = work
  TaskId = {work, part}
  EntryId = {e1}
  NoTask = noTask
  Owner <- MCOwner
  Known = {}
  SyncInterval = 1
  FullInterval = 3
  MaxTime = 2
  Horizon = 1
  Scenarios = {{"create", "remove"}}
SYMMETRY Clients
INVARIANTS
  DeferredFindParents
