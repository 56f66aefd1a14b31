SPECIFICATION Spec
CONSTANTS
  a = a
  b = b
  e1 = e1
  e2 = e2
  e3 = e3
  TaskId = {a, b}
  EntryId = {e1, e2, e3}
  Null = null
  Zero = zero
  Short = {e3}
  OldDatabases <- MCOldDatabases
  Process = {p1, p2}
  NoProcess = noProcess
  Backlog = 2
INVARIANTS
  TreeKept
