---------------------------- MODULE ApprovedMail ----------------------------
(***************************************************************************)
(* What courier's approved-send pipe promises its owner: an approval is    *)
(* never changed, an item is delivered at most once and only as approved,  *)
(* and its outcome is recorded once, never "sent" for an item that was not *)
(* delivered.                                                              *)
(***************************************************************************)
EXTENDS Sequences

CONSTANTS Item, Body, Pending, Uncertain, Sent, Failed

VARIABLES
  approved,  \* approved[i]: the body approved for i, or Pending
  mail,      \* mail[i]: the bodies delivered for i
  outcome    \* outcome[i]: what is recorded for i, or Pending

Approve(i) ==
  /\ approved[i] = Pending
  /\ \E b \in Body : approved' = [approved EXCEPT ![i] = b]
  /\ UNCHANGED <<mail, outcome>>

Deliver(i) ==
  /\ approved[i] # Pending
  /\ mail[i] = <<>>
  /\ mail' = [mail EXCEPT ![i] = <<approved[i]>>]
  /\ UNCHANGED <<approved, outcome>>

Report(i) ==
  /\ approved[i] # Pending
  /\ outcome[i] = Pending
  /\ \E o \in {Uncertain, Failed} \cup (IF mail[i] = <<>> THEN {} ELSE {Sent}) :
       outcome' = [outcome EXCEPT ![i] = o]
  /\ UNCHANGED <<approved, mail>>

Init ==
  /\ approved = [i \in Item |-> Pending]
  /\ mail = [i \in Item |-> <<>>]
  /\ outcome = [i \in Item |-> Pending]

Next == \E i \in Item : Approve(i) \/ Deliver(i) \/ Report(i)

Spec == Init /\ [][Next]_<<approved, mail, outcome>>
=============================================================================
