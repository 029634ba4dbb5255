SPECIFICATION Spec
CONSTANTS
  a = a
  b = b
  c = c
  Live = {a, b}
  Gone = 8
  Nonce = {0, 1}
  MaxGuards = 8
  MaxAttempts = 3
  MaxFaults = 8
INVARIANT
  BreakRemovesObserved
CHECK_DEADLOCK FALSE
