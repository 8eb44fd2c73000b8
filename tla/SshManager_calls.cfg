SPECIFICATION Spec
CONSTANTS
  c1 = c1  c2 = c2  c3 = c3  i1 = i1  i2 = i2
  Callers = {c1, c2, c3}
  Identities = {i1, i2}
  MaxCalls = 3
  MaxEntries = 2
  MaxGlobal = 2
  MaxPerServer = 2
INVARIANTS
  CommandOnManaged
  PermitsAddUp
  RetiredIsClosed
PROPERTIES
  EveryCallReturns
CHECK_DEADLOCK FALSE
