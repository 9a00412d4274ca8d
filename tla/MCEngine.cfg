SPECIFICATION Spec
CONSTANTS
  h1 = h1
  h2 = h2
  Handlers <- MCHandlers
  Agents = {"writer"}
  States = {"ACTIVE"}
  Statuses = {"active", "left"}
  Tools = {"clause", "admin"}
  ClauseTools = {"clause"}
  Calls <- MCCalls
  Refs = {0}
  Tokens = {0}
  MaxCost = 1
  Limits = {1}
  RateLimit = 2
  CurrencyMatches = TRUE
  MaxCalls = 3
  MaxHours = 1
  MaxCrashes = 1
  MaxFaults = 1
SYMMETRY Symmetry
CHECK_DEADLOCK FALSE
INVARIANTS
  TypeOK
  SettledIsLogged
  SettledOnce
  OrphansExplained
  QuotaRespected
  OvershootBounded
