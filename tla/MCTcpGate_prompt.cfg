\* Two ports, every bind confirmed or refused before anything else runs.
SPECIFICATION PromptSpec
CONSTANTS
  p1 = p1
  p2 = p2
  Ports = {p1, p2}
  HostPorts = {1, 2}
  MaxServers = 2
  MaxSyncs = 4
  MaxForeign = 2
INVARIANT Converged
PROPERTY SelfHeals
\* After stop, or once the syncs are used up, nothing more need happen.
CHECK_DEADLOCK FALSE
