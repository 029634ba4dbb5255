SPECIFICATION Spec
CONSTANTS
  i = i
  j = j
  k = k
  m = m
  n = n
  p = p
  q = q
  x = x
  y = y
  Item = {i, j, k}
  Body = {m, n}
  Peer = {p, q}
  To <- MCTo
  Server = {x, y}
  Cap <- MCCap
  Window = 2
  MaxTime = 3
  MaxFaults = 1
SYMMETRY Symmetric
INVARIANTS
  TypeOK
  RateHolds
PROPERTY ImplementsApprovedMail
CHECK_DEADLOCK FALSE
