SPECIFICATION FairSpec
CONSTANTS
  Event = {e1}
  Client = {c1}
  Filter = {all, open}
  AllFilter = all
  Kind = {cleared, raised}
  Cleared = cleared
  Matches <- MCMatches
  None = None
  Absent = Absent
  Unread = Unread
  MaxClock = 1
  MaxWrites = 2
  MaxLooks = 2
  MaxFills = 2
  MaxAnswers = 1
INVARIANTS RoomIsPolled MissedOnlyByRace
PROPERTIES GhostsLeave
CHECK_DEADLOCK FALSE
