SPECIFICATION MCSpec
CONSTANTS
  Covenants = {"book", "code"}
  Merges = {"pr"}
  Handlers = {"h1", "h2"}
  Bridges = {"b1", "b2"}
  None = "none"
  MaxDeliveries = 2
  MaxAnchors = 2
  MaxFaults = 1
CHECK_DEADLOCK FALSE
INVARIANTS
  GitTwinTypeOK
  AwardedOnce
  WrittenIsPublished
PROPERTIES
  WrittenStands
  AnchorsAreWritten
