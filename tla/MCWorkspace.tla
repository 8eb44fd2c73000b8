---------------------------- MODULE MCWorkspace ----------------------------
(* One project with a launch configuration, one artifact with one copy.     *)
EXTENDS Workspace

CONSTANTS p1, a1

MCProjectOf == [c \in ConfigIds |-> p1]
MCArtifactOf == [l \in PlacementIds |-> a1]
=============================================================================
