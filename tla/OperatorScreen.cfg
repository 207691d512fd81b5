SPECIFICATION FairViewSpec
CONSTANTS
  Sub = {v1}
  Case = {c1}
  Everything = Everything
  None = None
  BufferMax = 1
  MaxEvents = 4
  MaxNoise = 1
  MaxBreaks = 2
CHECK_DEADLOCK FALSE
INVARIANTS ScreenIsTruthful DecisionsRestOnScore
PROPERTIES ShownEndIsFinal DueEndIsShown StreamTellsTheEnd
