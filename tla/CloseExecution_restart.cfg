SPECIFICATION Spec
CONSTANTS
  Processes = {p1}
  Cases = {"case1", "case2"}
  Legs = {"condor"}
  LegsOf <- MCSameLegs
  Qty = 2
  OrderIds = {o1, o2}
  LateEntries = TRUE
  BrokerEnds = TRUE
  MaxFaults = 1
  MaxCrashes = 1
INVARIANT ClosedCaseIsFlat
PROPERTY SettledStays
