---------------------------- MODULE MCJobServer ----------------------------
(* Small instances of JobServer for TLC; the configurations name the bounds. *)
EXTENDS JobServer, TLC
=============================================================================
