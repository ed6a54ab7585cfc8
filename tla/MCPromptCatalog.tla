-------------------------- MODULE MCPromptCatalog --------------------------
(* Small instances of PromptCatalog for TLC. *)
EXTENDS PromptCatalog, TLC

Symmetry == Permutations(Patches)
=============================================================================
