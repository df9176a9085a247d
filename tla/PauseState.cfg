CONSTANTS
  MaxTasks = 2
  MaxExecs = 2
  MaxCallers = 1
  MaxOccurrences = 2
  InGroup = {1, 2}
  InModule = {1}
  Recurring = {1}
  NoTask = NoTask
  Scenarios <- Mixed
SPECIFICATION Spec
INVARIANT PausedGroupHasNoPending HeldIsExplained
CHECK_DEADLOCK FALSE
PROPERTY TimedPauseEnds
