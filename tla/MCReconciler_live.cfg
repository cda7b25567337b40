\* Nothing fails but the daemon, which ends once: what is asked for comes about.
SPECIFICATION FairSpec
CONSTANTS
  a1 = a1
  c1 = c1
  q1 = q1
  q2 = q2
  q3 = q3
  App = {a1}
  Change = {c1}
  AppOf <- ToFirst
  Port = {q1, q2}
  NoPort = NoPort
  NoRow = NoRow
  NoDockerfile = {1}
  TcpVersions = {2}
  MaxHead = 3
  MaxQueue = 1
  MaxEdits = 1
  MaxFaults = 0
  MaxCrashes = 1
PROPERTY EventuallyServed
CHECK_DEADLOCK FALSE
