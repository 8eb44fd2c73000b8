SPECIFICATION Spec
CONSTANTS
  Servers = {s1, s2}
  None = None
  TypedHashes <- MCTypedHashes
  MaxAttempt = 2
  MaxRequests = 4
  MaxWire = 2
SYMMETRY Symmetry
INVARIANTS SelectionReachesServer NeverStranded NeverStuck
