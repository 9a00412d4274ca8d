SPECIFICATION BudgetedSpec
CONSTANTS
  h1 = h1
  h2 = h2
  Handlers <- OneHandler
  Agents = {"owner", "writer"}
  Owner = "owner"
  States = {"ACTIVE", "LOCKED", "SETTLED"}
  Statuses = {"active", "left"}
  Tools = {"propose_passage", "approve_draft", "reject_draft"}
  ClauseTools = {"propose_passage", "approve_draft"}
  Calls <- SequentialCalls
  Refs = {0, 1, 2, 3, 4}
  Tokens = {0, 1}
  MaxCost = 1
  Limits = {2}
  RateLimit = 2
  CurrencyMatches = TRUE
  MaxCalls = 4
  MaxHours = 1
  MaxCrashes = 0
  MaxFaults = 0
CHECK_DEADLOCK FALSE
INVARIANTS
  WithinLimit
  CounterIsRebuildable
  
