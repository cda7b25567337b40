\* One app and one preview; one call fails and the daemon ends once.
SPECIFICATION Spec
CONSTANTS
  a1 = a1
  c1 = c1
  q1 = q1
  q2 = q2
  q3 = q3
  App = {a1}
  Change = {c1}
  AppOf <- ToFirst
  Port = {q1, q2, q3}
  NoPort = NoPort
  NoRow = NoRow
  NoDockerfile = {1}
  TcpVersions = {2}
  MaxHead = 3
  MaxQueue = 1
  MaxEdits = 2
  MaxFaults = 1
  MaxCrashes = 1
SYMMETRY PortSym
INVARIANTS
  TypeOK
  PassServes
  PassSweeps
  OneWriter
  RoutesAreOwn
  KeepsServing
  TeardownIsClean
PROPERTIES
  ImplementsRollout
\* Once the bounds are used up and the queue is empty nothing need happen.
CHECK_DEADLOCK FALSE
