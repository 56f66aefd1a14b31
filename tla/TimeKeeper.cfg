SPECIFICATION Spec
CONSTANTS
  quietTask = quietTask
  askingTask = askingTask
  TaskId = {quietTask, askingTask}
  EntryId = {e1, e2, e3}
  Quiet = {quietTask}
  TaskIdle <- MCTaskIdle
  IdleTimes = {2}
  ZeroTimes = {1}
  ShortSpan = 1
  ActiveLimit = 1
  ClockSteps = {1, 3}
  MaxSetBacks = 1
  MayCrash = TRUE
  MaxTime = 4
  Horizon = 2
SYMMETRY Entries
INVARIANTS
  TypeOK
  OneRunningPerTask
  NoDoubleCounting
  TimeBackedByInput
  IconTellsTruth
  NoNegativeTime
PROPERTIES
  NoIdleGapCounted
  ImplementsTimesheet
