SPECIFICATION Spec
CONSTANTS
  Ids = {s1, s2}
  Keys = {k1, k2}
  None = None
  MaxRequests = 2
  MaxSent = 2
  MaxFaults = 1
SYMMETRY Symmetry
INVARIANTS
  TrustWasConfirmed
  PasswordsStayHome
  BusyIsInFlight
  QuietRegistryAgrees
