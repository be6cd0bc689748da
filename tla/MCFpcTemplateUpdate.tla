------------------------ MODULE MCFpcTemplateUpdate ------------------------
(* Addresses are interchangeable. *)
EXTENDS FpcTemplateUpdate, TLC

Symmetry == Permutations(Blocks)
=============================================================================
