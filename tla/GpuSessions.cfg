SPECIFICATION FairGpuSpec
CONSTANTS
  User = {u1, u2}
  Main = Main
  MaxAttempts = 2
  MaxDaemons = 4
CHECK_DEADLOCK FALSE
INVARIANTS GpuTypeOK LockIsHeldByOne NoDaemonIsForgotten 
PROPERTIES EveryRequestEnds
