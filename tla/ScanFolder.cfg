SPECIFICATION FairScanSpec
CONSTANTS
  File = {f1, f2}
  Scan = {x1}
  Thread = {t1, t2}
  FullSize = 2
  StableChecks = 1
  MaxFaults = 1
  MaxCrashes = 1
  NoFile = NoFile
CHECK_DEADLOCK FALSE
INVARIANTS ScanTypeOK OneCasePerScan SeenHasSubmission SteadyScansAreWhole
PROPERTIES EveryPathIsAnswered EveryClaimEnters
