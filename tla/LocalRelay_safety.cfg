SPECIFICATION Spec
CONSTANTS
  f1 = f1  f2 = f2
  Files = {f1, f2}
  MaxTime = 3
  MaxJobs = 3
  Size <- Sizes
  FailAt <- MostAwaits
SYMMETRY FileSymmetry
INVARIANTS
  
  SkipIsSound
  CompletedMeansCopied
  QuietJobAddsUp

  
CHECK_DEADLOCK FALSE
