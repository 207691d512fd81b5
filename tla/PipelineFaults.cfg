SPECIFICATION FairSpec
CONSTANTS
  Case = {c1}
  NoCase = NoCase
  Worker = Worker
  QueueMax = 1
  HighPercent = 80
  LowPercent = 50
  MaxAttempts = 2
  AutoOnHigh = TRUE
  AutoAlways = FALSE
  MaxExplains = 2
  MaxFaults = 2
  MaxCrashes = 1
CHECK_DEADLOCK FALSE
INVARIANTS DoneIsComplete AnnouncedIsPersisted DegradationIsVisible ProcessingHasOwner
PROPERTIES RiskIsFinal Lifecycle StuckIsRecovered ExplainEnds
