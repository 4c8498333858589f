\* One scheduler process over one window of the day: the ledger promise and the end of a case.
SPECIFICATION FairSpec
CONSTANTS
  s1 = s1
  s2 = s2
  w1 = w1
  w2 = w2
  Schedulers = {s1}
  Windows = {w1}
  EvalAt <- MCEvalAt
  ExecAt <- MCExecAt
  TicksPerMinute = 2
  LeaseTtl = 4
  Horizon = 7
  MaxCrashes = 2
  LedgerFails = TRUE
PROPERTIES LedgerSpec CaseIsDecided
CHECK_DEADLOCK FALSE
