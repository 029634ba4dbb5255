SPECIFICATION Spec
CONSTANTS
  p1 = p1
  p2 = p2
  alice = alice
  bob = bob
  s1 = s1
  s2 = s2
  Proc = {p1, p2}
  Account = {alice, bob}
  Store = {s1, s2}
  Owner <- MCOwner
  NoAccount = NoAccount
  NoStore = NoStore
  NoProc = NoProc
  Setup <- EverySetup
INVARIANTS
  TypeOK
  RevokedStampNeverAdmitted
  ActiveOnlyByNewerConsent
  DeniedReadNotDelivered
  DeniedDataSealed
PROPERTY
  FloorNeverRetreats
CHECK_DEADLOCK FALSE
