SPECIFICATION FairSpec
CONSTANTS
  Ident = {a, b}
  Tally = {2}
  NoTally = NoTally
  NoCall = NoCall
  Buffering = {TRUE, FALSE}
  MaxCalls = 2
  DiscardedIds = {b}
  DbMayFail = TRUE
  MayTrack = TRUE
  OccurrenceLimit = 1
  MayDisconnect = TRUE
INVARIANTS QueueMatchesData TallyConserved OccurrencesFaithful AnsweredAfterWrites CreatedOnce SentInOrder TrackingIsBestEffort
PROPERTIES PendingIsFlushed AtMostOnce CompleteIsAnswered
CONSTRAINT Bounded
CHECK_DEADLOCK FALSE
