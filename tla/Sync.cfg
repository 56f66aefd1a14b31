SPECIFICATION Spec
CONSTANTS
  Client = {c1, c2}
  work = work
  TaskId = {work, part}
  EntryId = {e1}
  NoTask = noTask
  Owner <- MCOwner
  Known = {work}
  SyncInterval = 1
  FullInterval = 2
  MaxTime = 9
  Horizon = 2
  Scenarios = {
    {"times", "remove"}, {"create", "move", "remove"},
    {"times", "crash", "fail"}, {"create", "crash", "fail"}, {"remove", "crash", "fail"}}
SYMMETRY Clients
INVARIANTS
  SyncTypeOK
  NothingForgotten
  ConvergedAfterADay
PROPERTIES
  TimersAreLocal
