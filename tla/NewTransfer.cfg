SPECIFICATION Spec
CONSTANTS
  a1 = a1  a2 = a2  s1 = s1  s2 = s2  s3 = s3
  Servers <- MCServers
  Enabled = {s1, s3}
  Artifacts <- MCArtifacts
  Placements <- MCPlacements
  Projects = {{a1, a2}}
  None = None
INVARIANTS
  PlanIsForForm
  SuggestionIsForForm
PROPERTIES
  NeverAimedAtSource
