SPECIFICATION FairSpec
CONSTANTS
  a = a
  b = b
  d = d
  p = p
  q = q
  Caller = {a, b, d}
  Process = {p, q}
  In <- MCShared
  Job <- MCJobs
  MayTimeOut = TRUE
  MaxTurns = 2
  MaxFaults = 1
INVARIANTS
  HolderKeepsTurn
PROPERTIES
  SomeoneGetsIn
CHECK_DEADLOCK FALSE
