SPECIFICATION Spec
CONSTANTS
  Ident = {a}
  Tally = {2}
  NoTally = NoTally
  NoCall = NoCall
  Buffering = {TRUE}
  MaxCalls = 2
  DiscardedIds = {}
  DbMayFail = FALSE
  MayTrack = FALSE
  OccurrenceLimit = 1
  MayDisconnect = FALSE
INVARIANTS ReceivedIsProcessed
CHECK_DEADLOCK FALSE
