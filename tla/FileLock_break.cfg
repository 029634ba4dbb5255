SPECIFICATION FairSpec
CONSTANTS
  a = a
  b = b
  c = c
  Live = {a, b, c}
  Gone = 1
  Nonce = {0, 1}
  MaxGuards = 3
  MaxAttempts = 2
  MaxFaults = 1
INVARIANTS
  TypeOK
  HolderKeepsLock
PROPERTY
  ImplementsMutex
  DeadLockGoes
CHECK_DEADLOCK FALSE
