SPECIFICATION WorkspaceSpec
CONSTANTS
  p1 = p1  a1 = a1
  ProjectIds = {p1}
  ArtifactIds = {a1}
  PlacementIds = {l1}
  ConfigIds = {c1}
  ProjectOf <- MCProjectOf
  ArtifactOf <- MCArtifactOf
  Null = Null
  MaxLists = 4
  MaxLoads = 1
  MaxFaults = 1
  MaxChanges = 2
INVARIANTS
  
  BusyIsInFlight
