\* A timer or a sync between a bind and its event.
SPECIFICATION FairSpec
CONSTANTS
  p1 = p1
  p2 = p2
  Ports = {p1}
  HostPorts = {1}
  MaxServers = 3
  MaxSyncs = 3
  MaxForeign = 0
PROPERTY SelfHeals
\* After stop, or once the syncs are used up, nothing more need happen.
CHECK_DEADLOCK FALSE
