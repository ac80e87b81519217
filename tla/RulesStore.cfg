SPECIFICATION FairSpec
CONSTANTS
  Git = {TRUE, FALSE}
  MaxVersion = 2
  MaxSaves = 2
  MaxTimers <- MCMaxTimers
  MaxCrashes = 1
  Cut = Cut
  Missing = Missing
INVARIANTS OneSaver NothingSavedIsLost ReloadIsDue
PROPERTIES ServerCatchesUp
CHECK_DEADLOCK FALSE
