SPECIFICATION FairSpec
CONSTANTS
  Processes = {p1}
  Certs = {c1, c2}
  OrderIds = {o1, o2}
  Qty = 1
  ReplaceNow = TRUE
  Faults = TRUE
  UniqueClientIds = TRUE
  MaxExecutes = 1
  MaxCrashes = 1
CHECK_DEADLOCK FALSE
INVARIANTS
  ClosedMeansDead
  OneLiveStructure
PROPERTY
  EntryIsSettled
