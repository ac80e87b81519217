SPECIFICATION Spec
CONSTANTS
  Uuid <- MCUuid
  GroupName = {"p", "q"}
  AgentRules <- MCAgentRules
  GlobalRules <- MCGlobalRules
  GroupRules <- MCGroupRules
  store_order <- MCStoreOrder
  ActionLists <- MCActionLists
INVARIANTS DiscardedIsDropped AtMostOneAfterStop CutShortByOwnRule MatchesAttributed
CHECK_DEADLOCK FALSE
