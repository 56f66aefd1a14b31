SPECIFICATION Spec
CONSTANTS
  Midnight <- MCMidnight
  Civil <- MCCivil
  ClockChange = 7200
  FirstWeekday = 0
  TaskId = {t1}
  LastId = 3
  Spans <- MCSpans
  Picks <- MCPicks
  MaxWrites = 2
INVARIANTS
  DetailsTypeOK
  EveryRecordingShown
  DetailsFollowTimes
  RangeIsTheGroup
