SPECIFICATION GpuSpec
CONSTANTS
  User = {u1, u2}
  Main = Main
  MaxAttempts = 2
  MaxDaemons = 2
CHECK_DEADLOCK FALSE
INVARIANTS OneGpuJob
