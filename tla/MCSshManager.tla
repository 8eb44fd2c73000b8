---------------------------- MODULE MCSshManager ----------------------------
(* Instances of SshManager for TLC. *)
EXTENDS SshManager, TLC

CONSTANTS c1, c2, c3, i1, i2
=============================================================================
