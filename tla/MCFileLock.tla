----------------------------- MODULE MCFileLock -----------------------------
(* Small instances of FileLock. *)
EXTENDS FileLock

CONSTANTS a, b, c
=============================================================================
