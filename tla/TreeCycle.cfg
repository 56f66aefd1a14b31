SPECIFICATION Spec
CONSTANTS
  TaskId = {t1, t2, t3}
  EntryId = {e1, e2}
  Top = top
  Days <- MCDays
  Spans <- MCSpans
  ZeroTime = 1
  Remote = FALSE
  MaxWrites = 2
SYMMETRY Interchangeable
INVARIANTS
  TreeStaysATree
