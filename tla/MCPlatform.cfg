\* The components around the reconciler and the crew, each in full, one per behaviour.
SPECIFICATION PlatformSpec
CONSTANTS
  Roots = {r1, r2}
  GKeys = {k1, k2, k3}
  NoKey = NoKey
  MaxKills = 1
  AppNames = {n1, n2}
  MaxRequests = 2
  MaxIntakeKills = 1
  Flows = {f1, f2}
  Impatient = {f1}
  MaxCodes = 2
  Relying = {d1, d2}
  Clients = {e1, e2}
  MainApp = d1
  MainClient = e1
  MaxSecrets = 2
  Snappers = {s1, s2}
  MaxClock = 2
  MaxWrites = 1
  MaxDataKills = 1
  OwnerNames = {o1, o2}
  Admin = admin
  Signups = {u1, u2}
  NoRef = NoRef
  MaxMerges = 3
  MaxDeaths = 1
  MaxGitFailures = 1
  Reloads = {l1, l2}
  MaxConfigs = 3
  MaxConfigFailures = 1
  MaxConfigRestarts = 1
  Sites = {a1, a2}
  Hosts = {h1, h2}
  MainHost = h1
  MaxLoopback = 2
  NoSite = NoSite
  Games = {g1, g2}
  Exposed = {p1, p2}
  Boxes = {x1, x2}
  MainGame = g1
  MainPort = p1
  MaxPublic = 2
  NoGame = NoGame
  Players = {y1, y2}
  Links = {w1}
  Contents = {c1, c2}
  Nothing = Nothing
  Builders = {b1}
  ConfigBuilders = {b1}
  Reviewers = {v1, v2}
  MaxAgentKills = 1
INVARIANTS
  PlatformTypeOK GenesisSafe SignInSafe AccountsSafe UpgradeSafe GatewaySafe AgentRunSafe
PROPERTIES
  AppsComeWhole DataIsWhole ConfigFollowsTip PortsHold AssetsHold
  RootsResume UpgradesComeThrough RunsReturn
\* Every component has states where nothing more is asked of it within the bounds.
CHECK_DEADLOCK FALSE
