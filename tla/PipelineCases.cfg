SPECIFICATION Spec
CONSTANTS
  Case = {c1, c2}
  NoCase = NoCase
  Worker = Worker
  QueueMax = 2
  HighPercent = 100
  LowPercent = 50
  MaxAttempts = 2
  AutoOnHigh = TRUE
  AutoAlways = FALSE
  MaxExplains = 1
  MaxFaults = 0
  MaxCrashes = 0
CHECK_DEADLOCK FALSE
SYMMETRY CaseSymmetry
INVARIANTS TypeOK QueuedOnce Hysteresis GpuLockIsNotLeaked ExplanationFollowsRisk
