\* Any interleaving of syncs, events, timers and stop on one port.
SPECIFICATION Spec
CONSTANTS
  p1 = p1
  p2 = p2
  Ports = {p1}
  HostPorts = {1}
  MaxServers = 3
  MaxSyncs = 4
  MaxForeign = 2
INVARIANTS
  TypeOK
  NoPhantom
  NothingForgotten
\* After stop, or once the syncs are used up, nothing more need happen.
CHECK_DEADLOCK FALSE
