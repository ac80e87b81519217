SPECIFICATION Spec
CONSTANTS
  GroupName = {"p", "q", "x"}
  Uuid = {1, 2, 3}
  RuleId = {"r1", "r2", "r3"}
  NotARule = "undefined"
  Documents <- MCDocuments
  MaxEdits = 4
  MaxRules = 3
INVARIANTS OrderMatchesStore GroupsConserved EditsAreFlagged
PROPERTIES NoSilentLoss
CHECK_DEADLOCK FALSE
