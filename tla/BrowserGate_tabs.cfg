SPECIFICATION Spec
CONSTANTS
  a = a  b = b  p = p  q = q
  Tab = {a, b}
  Account = {p, q}
  Nobody = Nobody  NoGate = NoGate  NoStamp = NoStamp  Free = Free
  Window = 1
  MaxInc = 2
  MaxEpoch = 1
  MaxTime = 2
  MaxFaults = 2
INVARIANTS TypeOK DeniedDataDoomed SignInIsFresh
PROPERTY NothingAfterSignOut
SYMMETRY Symmetric
CHECK_DEADLOCK FALSE
