SPECIFICATION FairSpec
CONSTANTS
  Case = {c1, c2}
  NoCase = NoCase
  Worker = Worker
  QueueMax = 1
  HighPercent = 80
  LowPercent = 50
  MaxAttempts = 2
  AutoOnHigh = TRUE
  AutoAlways = FALSE
  MaxExplains = 0
  MaxFaults = 1
  MaxCrashes = 0
CHECK_DEADLOCK FALSE
PROPERTIES EverySubmissionIsDone EveryTakenCaseIsAnnounced
