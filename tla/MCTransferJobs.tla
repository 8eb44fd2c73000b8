--------------------------- MODULE MCTransferJobs ---------------------------
(* Instances of TransferJobs for TLC. *)
EXTENDS TransferJobs

CONSTANTS s1, s2, s3, a1, d1, p1, p2

(* "/data" and "/data/" are two spellings of one directory. *)
OneDir == [p \in Paths |-> d1]

Placed(s) == [artifact |-> a1, server |-> s, path |-> p1]

(* One copy to spread. *)
OnePlacement == <<Placed(s1)>>

(* The artifact already lives on both servers, in the same directory. *)
TwoPlacements == <<Placed(s1), Placed(s2)>>
=============================================================================
