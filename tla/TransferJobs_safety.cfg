SPECIFICATION Spec
CONSTANTS
  s1 = s1  s2 = s2  s3 = s3  a1 = a1  d1 = d1  p1 = p1  p2 = p2
  Servers = {s1, s2}
  Paths = {p1, p2}
  Dirs = {d1}
  Dir <- OneDir
  Artifacts = {a1}
  InitialPlacements <- OnePlacement
  MaxJobs = 3
  HistoryLimit = 1
  MaxGlobal = 2
  MaxPerServer = 1
INVARIANTS
  TypeOK
  LocksMatchActive
  PermitsMatchWorkers
  ActiveIsCancellable
  CopiesPerServerBounded
  
  OneWriterPerTarget
  OneActiveJobPerTarget

  
CHECK_DEADLOCK FALSE
