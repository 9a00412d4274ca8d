SPECIFICATION Spec
CONSTANTS
  p1 = p1
  p2 = p2
  r1 = r1
  r2 = r2
  Procs <- MCProcs
  Rows <- MCRows
  MaxVersion = 3
  MaxStarts = 6
  MaxFaults = 2
SYMMETRY Symmetry
CHECK_DEADLOCK FALSE
INVARIANTS
  KeyringTypeOK
  RowsReadable
  PassReseals
PROPERTIES
  SealsAdvance
