-------------------------------- MODULE Mutex --------------------------------
(***************************************************************************)
(* What courier's lock files promise: at most one living command is inside *)
(* at a time.  A command leaves by releasing the lock or by dying.         *)
(***************************************************************************)
CONSTANT Client

VARIABLE holders

Take(c)  == holders = {} /\ holders' = {c}
Leave(c) == holders = {c} /\ holders' = {}

Init == holders = {}
Next == \E c \in Client : Take(c) \/ Leave(c)
Spec == Init /\ [][Next]_holders
=============================================================================
