SPECIFICATION BusSpec
CONSTANTS
  Sub = {s1, s2}
  Case = {c1, c2}
  Everything = Everything
  BufferMax = 2
  MaxEvents = 3
CHECK_DEADLOCK FALSE
INVARIANTS BusTypeOK EveryEventAccountedFor NewestAreKept
PROPERTIES ReadsOnward
