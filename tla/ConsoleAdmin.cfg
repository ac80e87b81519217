SPECIFICATION Spec
CONSTANTS
  User = {u1, u2}
  InitialView = {all, unack}
  DefaultView = unack
  Request = {q1, q2, q3}
  apikey_limit = 1
  MaxViews = 6
  Name = {"office", "night"}
  DayMinutes = 6
  Days = 2
  MaxRules = 2
  MaxSaves = 5
INVARIANTS OneDefaultView KeysNearLimit SavedRulesLoad OneOfTwoShifts
SYMMETRY Symmetry
CHECK_DEADLOCK FALSE
