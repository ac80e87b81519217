SPECIFICATION Spec
CONSTANTS
  Git = {TRUE, FALSE}
  MaxVersion = 2
  MaxSaves = 2
  MaxTimers <- MCMaxTimers
  MaxCrashes = 1
  Cut = Cut
  Missing = Missing
INVARIANTS EditsForgotten
CHECK_DEADLOCK FALSE
