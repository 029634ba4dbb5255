SPECIFICATION Spec
CONSTANTS
  a = a
  b = b
  d = d
  p = p
  q = q
  Caller = {a, b}
  Process = {p, q}
  In <- MCApart
  Job <- MCJobs
  MayTimeOut = FALSE
  MaxTurns = 4
  MaxFaults = 1
INVARIANTS
  WaitersKnowDeletion
CHECK_DEADLOCK FALSE
