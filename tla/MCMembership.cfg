SPECIFICATION MCSpec
CONSTANTS
  h1 = h1
  h2 = h2
  ann = ann
  bob = bob
  cid = cid
  founder = founder
  Handlers <- MCHandlers
  Platforms <- MCPlatforms
  Founder = founder
  Tiers = {"author"}
  Slots = {0, 1}
  Unlimited = Unlimited
  Fees = {1}
  MaxSetups = 3
  MaxEntries = 3
  MaxCalls = 3
  MaxFaults = 1
SYMMETRY Symmetry
CHECK_DEADLOCK FALSE
INVARIANTS
  MembershipTypeOK
  OverbookingBounded
  FeeBookedOnce
  StatusIsDecided
  StaleWritesBounded
PROPERTY
  DecisionsStand
