---------------------------- MODULE MCGateFile ----------------------------
(***************************************************************************)
(* Model values and a store ownership map for checking GateFile with TLC.  *)
(***************************************************************************)
EXTENDS GateFile, TLC

CONSTANTS p1, p2, alice, bob, s1, s2

\* One store per account.
MCOwner == s1 :> alice @@ s2 :> bob

\* One account, and files that are put back or lost.
Tampered ==
  [accounts |-> {alice}, readers |-> {p1},
   maxEpoch |-> 2, maxTime |-> 2, maxInc |-> 1, mayTamper |-> TRUE]

\* Two accounts, and a gate that can be drawn anew.
Shared ==
  [accounts |-> {alice, bob}, readers |-> {p1},
   maxEpoch |-> 3, maxTime |-> 1, maxInc |-> 2, mayTamper |-> FALSE]

EverySetup == {Tampered, Shared}
=============================================================================
