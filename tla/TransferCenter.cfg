SPECIFICATION FairSpec
CONSTANTS
  MaxJobs = 2
  MaxListings = 2
  MaxFailures = 1
INVARIANTS
  BusyIsInFlight
  PollingFollowsList
PROPERTIES
  ShownActiveSettles
