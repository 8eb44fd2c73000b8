----------------------------- MODULE MCScheduler -----------------------------
(* The scheduler on small instances; browsers are interchangeable. *)
EXTENDS Scheduler, TLC

Symmetry == Permutations(Clients)
=============================================================================
