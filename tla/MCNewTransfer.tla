--------------------------- MODULE MCNewTransfer ---------------------------
(* Two artifacts of one project; the first has two copies. The second server *)
(* is disabled, the third holds nothing.                                     *)
EXTENDS NewTransfer

CONSTANTS a1, a2, s1, s2, s3

MCServers == <<s1, s2, s3>>
MCArtifacts == <<a1, a2>>
Copy(a, s) == [artifact |-> a, server |-> s]
MCPlacements == <<Copy(a1, s1), Copy(a1, s2), Copy(a2, s2)>>
=============================================================================
