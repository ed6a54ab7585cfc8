--------------------------- MODULE MCOutputFiles ---------------------------
(* Small instances of OutputFiles for TLC. *)
EXTENDS OutputFiles, TLC

ThumbPreview == <<"thumb", "preview">>
=============================================================================
