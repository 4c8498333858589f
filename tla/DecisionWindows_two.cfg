\* Two scheduler processes over one window of the day.
SPECIFICATION Spec
CONSTANTS
  s1 = s1
  s2 = s2
  w1 = w1
  w2 = w2
  Schedulers = {s1, s2}
  Windows = {w1}
  EvalAt <- MCEvalAt
  ExecAt <- MCExecAt
  TicksPerMinute = 2
  LeaseTtl = 4
  Horizon = 7
  MaxCrashes = 1
  LedgerFails = TRUE
INVARIANTS TypeOK OneAttemptPerWindow EveryEventHasItsArtifact VetoIsFinal
SYMMETRY SchedulerSymmetry
CHECK_DEADLOCK FALSE
