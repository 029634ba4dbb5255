SPECIFICATION FairSpec
CONSTANTS
  c1 = c1
  c2 = c2
  alice = alice
  bob = bob
  None = None
  Command = {c1, c2}
  Account = {alice, bob}
  MaxLogins = 2
  MaxEpoch = 2
  MaxFaults = 1
INVARIANTS
  TypeOK
  MarkerAccepted
  PendingRevocationKept
  FilesAccountedFor
PROPERTIES
  FinishedMeansGone
  OthersLeftAlone
  LogoutFinishes
CHECK_DEADLOCK FALSE
