SPECIFICATION FairSpec
CONSTANTS
  Processes = {p1}
  Cases = {"case1"}
  Legs = {"condor"}
  LegsOf <- MCSameLegs
  Qty = 2
  OrderIds = {o1, o2}
  LateEntries = FALSE
  BrokerEnds = FALSE
  MaxFaults = 1
  MaxCrashes = 0
PROPERTY ForcedFlat
