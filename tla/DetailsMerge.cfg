SPECIFICATION Spec
CONSTANTS
  Midnight <- MCMidnight
  Civil <- MCCivil
  ClockChange = 7200
  FirstWeekday = 1
  TaskId = {t1}
  LastId = 3
  Spans <- MCSpans
  Picks <- MCDay
  MaxWrites = 3
PROPERTIES
  MergingAddsTime
