SPECIFICATION Spec
CONSTANTS
  Id = {t1, t2, t3}
  Token = {t1}
  Value = {"found", "refused"}
  Timeout = 1
  Limit = 2
  Latency = 1
  Options <- MCOptions
  MaxTime = 4
  Request = {r1, r2}
  Width = 2
  Chunk = 5
  MaxLines = 3
  MaxStreams = 2
  MaxTruncations = 1
  MaxRestarts = 1
INVARIANTS StoreInOrder WithinLimit WithdrawnInTime HandedOnIntact
PROPERTIES ServesLatest WrittenIsHandedOn
CHECK_DEADLOCK FALSE
