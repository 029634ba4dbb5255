--------------------------- MODULE MCReadThrough ---------------------------
(***************************************************************************)
(* Small deployments of ReadThrough for TLC.                               *)
(***************************************************************************)
EXTENDS ReadThrough

CONSTANTS p1, p2, r1, r2, k1, k2, w1, w2

Anything == {"crash", "purge", "clear", "reset"}

\* One replica shared by two processes, of which the first writes.
Shared ==
  [runs |-> Proc, uses |-> [p \in Proc |-> r1], covers |-> [r \in Replica |-> {k1}],
   writer |-> [o \in Op |-> p1], keys |-> [o \in Op |-> IF o = w1 THEN {k1} ELSE {}],
   durable |-> TRUE, maxGen |-> 2, maxFaults |-> 1, may |-> Anything]

\* Both write the same key, and nothing fails but answers.
Writers ==
  [Shared EXCEPT !.writer = [o \in Op |-> IF o = w1 THEN p1 ELSE p2],
                 !.keys = [o \in Op |-> {k1}],
                 !.maxGen = 1, !.maxFaults = 0, !.may = {}]

\* Two prefixes, r2 inside r1: w1 is a batch over both keys.
Nested ==
  [Shared EXCEPT !.uses = [p \in Proc |-> IF p = p1 THEN r1 ELSE r2],
                 !.covers = [r \in Replica |-> IF r = r1 THEN {k1, k2} ELSE {k2}],
                 !.keys = [o \in Op |-> IF o = w1 THEN {k1, k2} ELSE {}],
                 !.maxFaults = 0, !.may = {"purge"}]

\* One process with an in-memory pending store.
Volatile ==
  [Shared EXCEPT !.runs = {p1}, !.keys = [o \in Op |-> {k1}],
                 !.durable = FALSE, !.maxFaults = 2]

\* A shared replica that nobody purges or resets.
Calm == [Shared EXCEPT !.maxGen = 1, !.may = {}]

EveryDeployment == {Shared, Writers, Nested, Volatile}
OnlyShared      == {Shared}
OnlyCalm        == {Calm}
=============================================================================
