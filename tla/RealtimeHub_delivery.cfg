SPECIFICATION HubSpec
CONSTANTS
  Servers = {s1, s2}
  NoServer = none
  Clients = {c1}
  QueueSize = 4
SYMMETRY Symmetry
INVARIANTS  QuietShowsSelected
CHECK_DEADLOCK FALSE
