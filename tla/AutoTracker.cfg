SPECIFICATION TrackerSpec
CONSTANTS
  quietTask = quietTask
  askingTask = askingTask
  TaskId = {quietTask, askingTask}
  EntryId = {e1, e2}
  Quiet = {quietTask}
  TaskIdle <- MCTaskIdle
  IdleTimes = {1}
  ZeroTimes = {0}
  ShortSpan = 1
  ActiveLimit = 1
  PollGap = 1
  ClockSteps = {1, 2}
  MaxSetBacks = 1
  MayCrash = FALSE
  MaxTime = 3
  Horizon = 1
  Columns = 2
  Rows = 1
  Ticks = {{0}}
  Viewports = FALSE
INVARIANTS
  TrackerTypeOK
  NoPausedAtRest
  RemovedTaskStops
  OneRunningPerTask
  StopsWhenExiting
PROPERTIES
  AbandonedTimersStop
