SPECIFICATION FairSpec
CONSTANTS
  Processes = {p1}
  Certs = {c1}
  OrderIds = {o1, o2}
  Qty = 1
  ReplaceNow = TRUE
  Faults = FALSE
  UniqueClientIds = TRUE
  MaxExecutes = 1
  MaxCrashes = 0
CHECK_DEADLOCK FALSE
PROPERTY DeadlineCancels
