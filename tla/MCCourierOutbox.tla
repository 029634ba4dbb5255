--------------------------- MODULE MCCourierOutbox ---------------------------
(* Small instances of CourierOutbox. *)
EXTENDS CourierOutbox, TLC

CONSTANTS i, j, k, m, n, p, q, x, y

\* Two peers with different caps; a body is for one of them.
MCTo  == m :> p @@ n :> q
MCCap == p :> 1 @@ q :> 2

Symmetric == Permutations(Item) \cup Permutations(Server)
=============================================================================
