------------------------------- MODULE Fleet -------------------------------
(* What the scheduler and the realtime hub are both about: the registered    *)
(* servers and the browsers that watch them.                                 *)
CONSTANTS
  Servers,     \* server ids
  NoServer,    \* nothing is selected
  Clients      \* realtime connections, one per browser

ASSUME FleetAssumption == NoServer \notin Servers
=============================================================================
