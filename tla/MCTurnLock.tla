----------------------------- MODULE MCTurnLock -----------------------------
(* Small instances of TurnLock. *)
EXTENDS TurnLock

CONSTANTS a, b, d, p, q

\* Each caller in a process of its own, or a and b in one process.
MCApart  == [c \in Caller |-> IF c = a THEN p ELSE q]
MCShared == [c \in Caller |-> IF c \in {a, b} THEN p ELSE q]

\* a deletes the profile, b writes into it, d creates it again.
MCJobs == [c \in Caller |-> {CASE c = a -> "delete" [] c = b -> "write" [] c = d -> "create"}]
=============================================================================
