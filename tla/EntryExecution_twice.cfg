SPECIFICATION Spec
CONSTANTS
  Processes = {p1, p2}
  Certs = {c1}
  OrderIds = {o1, o2}
  Qty = 2
  ReplaceNow = TRUE
  Faults = FALSE
  UniqueClientIds = TRUE
  MaxExecutes = 2
  MaxCrashes = 0
SYMMETRY IdSymmetry
CHECK_DEADLOCK FALSE
INVARIANTS
  TypeOK
  ManagedPositionIsWhole
  NoDoubleEntry
