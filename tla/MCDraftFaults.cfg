SPECIFICATION ProposedFairSpec
CONSTANTS
  h1 = h1
  h2 = h2
  Handlers <- MCHandlers
  Agents = {"owner", "writer"}
  Owner = "owner"
  States = {"ACTIVE", "LOCKED", "SETTLED"}
  Statuses = {"active", "left"}
  Tools = {"propose_passage", "approve_draft", "reject_draft"}
  ClauseTools = {"propose_passage", "approve_draft"}
  Calls <- FaultCalls
  Refs = {0, 1, 2, 3, 4, 5}
  Tokens = {0, 1}
  MaxCost = 1
  Limits = {}
  RateLimit = 0
  CurrencyMatches = TRUE
  MaxCalls = 3
  MaxHours = 0
  MaxCrashes = 1
  MaxFaults = 1
CHECK_DEADLOCK FALSE
INVARIANTS
  DraftsConserved
PROPERTIES
  ToolCallsReturn
