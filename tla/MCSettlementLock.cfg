SPECIFICATION BookedSpec
CONSTANTS
  h1 = h1
  h2 = h2
  m1 = m1
  Handlers <- OneHandler
  Movers <- MCMovers
  MaxMoves = 1
  TwinBound = TRUE
  Agents = {"owner", "writer"}
  Owner = "owner"
  States = {"ACTIVE", "LOCKED", "SETTLED"}
  Statuses = {"active", "left"}
  Tools = {"propose_passage", "approve_draft", "reject_draft", "generate_settlement_output", "confirm_settlement_output"}
  ClauseTools = {"propose_passage", "approve_draft"}
  Calls <- LockCalls
  Refs = {0, 1, 2, 3, 4, 5, 6, 7}
  Tokens = {0, 1, 3}
  MaxCost = 0
  Limits = {}
  RateLimit = 0
  CurrencyMatches = TRUE
  MaxCalls = 5
  MaxHours = 0
  MaxCrashes = 0
  MaxFaults = 0
CHECK_DEADLOCK FALSE
INVARIANTS
  LockFreezesLedger
