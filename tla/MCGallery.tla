----------------------------- MODULE MCGallery -----------------------------
(* Small instances of Gallery for TLC. *)
EXTENDS Gallery, TLC
=============================================================================
