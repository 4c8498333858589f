SPECIFICATION Spec
CONSTANTS
  Processes = {p1, p2}
  Cases = {"case1", "case2"}
  Legs = {"condor"}
  LegsOf <- MCSameLegs
  Qty = 2
  OrderIds = {o1, o2}
  LateEntries = FALSE
  BrokerEnds = TRUE
  MaxFaults = 0
  MaxCrashes = 0
SYMMETRY IdSymmetry
INVARIANT TypeOK
INVARIANT NeverOverclosed
