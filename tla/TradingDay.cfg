\* Two windows of two symbols, one entry a day, a quiet account; the worker fails once.
SPECIFICATION Spec
CONSTANTS
  Equities = {1}
  Baseline = 2
  MaxDrawdown = 2
  LastWindow = 2
  Underlying <- MCUnderlying
  MaxEntries = 1
  MaxFails = 1
INVARIANTS TypeOK CapCountsLiveEntries
PROPERTY PausedMeansNoEntry
CHECK_DEADLOCK FALSE
