---------------------------- MODULE MCLocalRelay ----------------------------
(* Instances of LocalRelay for TLC. *)
EXTENDS LocalRelay, TLC

CONSTANTS f1, f2

(* Version 1 and 2 have the same size, version 3 is shorter. *)
Sizes == [v \in 1 .. MaxTime |-> IF v = 3 THEN 1 ELSE 2]

(* Every await but the one where a job leaves a new sidecar beside an old  *)
(* partial.                                                                *)
MostAwaits == PC \ {"open"}
AllAwaits == PC

FileSymmetry == Permutations(Files)
=============================================================================
