SPECIFICATION Spec
CONSTANTS
  h1 = h1
  h2 = h2
  a1 = a1
  a2 = a2
  Handlers <- MCHandlers
  Agents <- MCAgents
  GracePeriod = 1
  MaxTokens = 4
  MaxTime = 3
  MaxFaults = 1
SYMMETRY Symmetry
CHECK_DEADLOCK FALSE
INVARIANTS
  SessionsTypeOK
  GraceIsFixed
  RotationSupersedes
