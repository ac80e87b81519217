SPECIFICATION Spec
CONSTANTS
  Event = {down, up}
  Up = {up}
  Request = {r1, r2}
  Severity = {0, 3}
  MaxTally = 2
  MaxIds = 1
  MaxTime = 1
  Firing = {f1, f2}
  HighTally = 2
  r1 = r1
  r2 = r2
  Asked <- MCAsked
  Enabled = {TRUE, FALSE}
INVARIANTS TypeOK ArchiveHolds SuccessIsDone
PROPERTIES EveryRequestAnswered AutomationsSpareRaised
CONSTRAINT Bounded
CHECK_DEADLOCK FALSE
