SPECIFICATION Spec
CONSTANTS
  Case = {c1}
  NoCase = NoCase
  Worker = Worker
  QueueMax = 1
  HighPercent = 80
  LowPercent = 50
  MaxAttempts = 1
  AutoOnHigh = TRUE
  AutoAlways = FALSE
  MaxExplains = 1
  MaxFaults = 0
  MaxCrashes = 0
CHECK_DEADLOCK FALSE
INVARIANT OneExplanationRow
