\* A day of one window without a failure: does every managed case come to its end?
SPECIFICATION FairSpec
CONSTANTS
  Equities = {2}
  Baseline = 2
  MaxDrawdown = 2
  LastWindow = 1
  Underlying <- MCOneUnderlying
  MaxEntries = 1
  MaxFails = 0
PROPERTY ManagedCaseEnds
CHECK_DEADLOCK FALSE
