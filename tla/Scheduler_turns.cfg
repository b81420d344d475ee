\* Three templates due at once, pages of one.
CONSTANTS
  MaxTasks = 3
  MaxRuns = 1
  Batches = {}
  NoBatch = NoBatch
  Cwds = {c1}
  Prios = {0}
  RetryLimits = {0}
  MaxConcurrency = 1
  Jobs <- OneJob
  MaxTemplates = 3
  MaxTime = 2
  PageSize = 1
  Plans <- BusyPlans
  Caps = {1}
SPECIFICATION TurnsSpec
PROPERTIES SweepShrinks TakesTurns
