SPECIFICATION Spec
CONSTANTS
  Ident = {a}
  Tally = {2}
  NoTally = NoTally
  NoCall = NoCall
  Buffering = {FALSE}
  MaxCalls = 2
  DiscardedIds = {}
  DbMayFail = FALSE
  MayTrack = FALSE
  OccurrenceLimit = 1
  MayDisconnect = FALSE
INVARIANTS AckedIsStored
CHECK_DEADLOCK FALSE
