\* A day of one window with a lively account: the drawdown, and what must come to an end.
SPECIFICATION FairSpec
CONSTANTS
  Equities = {1, 3}
  Baseline = 2
  MaxDrawdown = 2
  LastWindow = 1
  Underlying <- MCOneUnderlying
  MaxEntries = 1
  MaxFails = 1
PROPERTIES NoEntryInDrawdown DueExitCloses 
CHECK_DEADLOCK FALSE
