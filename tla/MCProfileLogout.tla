--------------------------- MODULE MCProfileLogout ---------------------------
(* A small instance of ProfileLogout. *)
EXTENDS ProfileLogout

CONSTANTS c1, c2, alice, bob
=============================================================================
