---------------------------- MODULE MCInputCache ----------------------------
(* Small instances of InputCache for TLC. *)
EXTENDS InputCache, TLC
=============================================================================
