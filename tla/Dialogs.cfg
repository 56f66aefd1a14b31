SPECIFICATION DialogsSpec
CONSTANTS
  TaskId = {t1}
  EntryId = {e1, e2}
  Quiet = {}
  TaskIdle <- MCTaskIdle
  IdleTimes = {2}
  ZeroTimes = {1}
  ShortSpan = 1
  ActiveLimit = 1
  ClockSteps = {1, 2}
  MaxSetBacks = 1
  MayCrash = TRUE
  MaxTime = 3
  Horizon = 2
  Uses = {"idle", "dismiss", "remove", "merge", "split", "add", "edit"}
  EditAhead = 0
  SplitSpan = 1
SYMMETRY Entries
INVARIANTS
  DialogsTypeOK
PROPERTIES
  PausedIsAsked
  IdleCountedOnRequest
  TimeLostOnlyOnRequest
