SPECIFICATION Spec
CONSTANTS
  Servers = {s1}
  NoServer = none
  Clients = {c1, c2}
  Hosts = {"h1", "h2"}
  Intervals = {1, 2}
  MaxTasks = 2
  MaxEdits = 2
SYMMETRY Symmetry
INVARIANTS WorkersMatchRegistry DataOfCurrentHost NoLostWakeup DemandMatchesSessions
CHECK_DEADLOCK FALSE
