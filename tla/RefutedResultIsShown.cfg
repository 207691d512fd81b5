SPECIFICATION FairViewSpec
CONSTANTS
  Sub = {v1}
  Case = {c1}
  Everything = Everything
  None = None
  BufferMax = 2
  MaxEvents = 3
  MaxNoise = 0
  MaxBreaks = 0
CHECK_DEADLOCK FALSE
PROPERTIES ResultIsShown
