-------------------------- MODULE MCServerSettings --------------------------
(* Two servers, of which one or both are registered at first. *)
EXTENDS ServerSettings, TLC

Symmetry == Permutations(Ids)
=============================================================================
