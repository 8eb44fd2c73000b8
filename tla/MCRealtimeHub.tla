---------------------------- MODULE MCRealtimeHub ----------------------------
(* The hub on small instances; servers and clients are interchangeable. *)
EXTENDS RealtimeHub, TLC

Symmetry == Permutations(Clients) \cup Permutations(Servers)
=============================================================================
