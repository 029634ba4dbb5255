SPECIFICATION FairSpec
CONSTANTS
  Proc = {p1, p2}
  Replica = {r1, r2}
  Key = {k1, k2}
  Op = {w1, w2}
  NoProc = NoProc
  NoKey = NoKey
  p1 = p1
  p2 = p2
  r1 = r1
  r2 = r2
  k1 = k1
  k2 = k2
  w1 = w1
  w2 = w2
  Setup <- OnlyCalm
PROPERTY FencesCatchUp
PROPERTY CommittedRecordsDrain
