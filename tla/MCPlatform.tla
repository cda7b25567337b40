------------------------------ MODULE MCPlatform ------------------------------
(***************************************************************************)
(* Small instances of the components around the reconciler and the crew,   *)
(* in one run: a behaviour is a behaviour of one component, the scene,     *)
(* while the others stay as they start.  The state spaces add up instead   *)
(* of multiplying, and every component is explored in full.                *)
(***************************************************************************)
EXTENDS Genesis, Intake, SignIn, DataPlane, Accounts, SelfUpgrade, PlatformConfig,
        Gateway, PublicPorts, Assets, AgentRun

CONSTANTS
  MainApp, MainClient,  \* one of Relying, and the client of its own
  MainHost,             \* one of Hosts
  MainGame, MainPort    \* one of Games and of Exposed

VARIABLE scene  \* the component whose behaviour this is

platformVars ==
  <<genesisVars, intakeVars, signInVars, dataVars, accountsVars,
    upgradeVars, configVars, gatewayVars, portsVars, assetsVars,
    runVars, scene>>

\* Two components have two scenes each, with other bounds.
Scenes == {"genesis", "intake", "signin", "repeats", "data", "accounts",
           "upgrade", "config", "gateway", "ports", "claims", "assets",
           "agent"}

\* The names of two apps make two clients, or one; two hosts, or one.
OwnClients == [a \in Relying |-> IF a = MainApp THEN MainClient ELSE CHOOSE k \in Clients : k # MainClient]
OneClient  == [a \in Relying |-> MainClient]
OwnHosts   == {f \in [Sites -> Hosts] : \A a, b \in Sites : f[a] = f[b] => a = b}
OneHost    == [a \in Sites |-> MainHost]

\* Off the scene a component that has several starts takes one of them.
PlatformInit ==
  /\ scene \in Scenes
  /\ clientOf \in {OwnClients} \cup (IF scene = "signin" THEN {OneClient} ELSE {})
  /\ hostOf \in {CHOOSE f \in OwnHosts : TRUE} \cup (IF scene = "gateway" THEN {OneHost} ELSE {})
  /\ admissible \in IF scene = "config" THEN SUBSET Versions ELSE {{1}}
  /\ GenesisInit
  /\ IntakeInit
  /\ SignInInit
  /\ DataInit
  /\ scene # "data" => appUp /\ copyOnWrite
  /\ AccountsInit
  /\ UpgradeInit
  /\ scene # "upgrade" => brokenRefs = {}
  /\ ConfigInit
  /\ GatewayInit
  /\ PortsInit
  /\ AssetsInit
  /\ AgentInit
  /\ IF scene = "agent"
       THEN (\E b \in Builders : runPc[b] # "unasked")
              => \A r \in Reviewers : runPc[r] = "unasked"
       ELSE sandbox = {} /\ \A r \in Runs : runPc[r] = "unasked"

OnGenesis ==
  /\ scene = "genesis" /\ GenesisNext
  /\ UNCHANGED <<intakeVars, signInVars, dataVars, accountsVars, upgradeVars,
                 configVars, gatewayVars, portsVars, assetsVars,
                 runVars, scene>>

OnIntake ==
  /\ scene = "intake" /\ IntakeNext
  /\ UNCHANGED <<genesisVars, signInVars, dataVars, accountsVars, upgradeVars,
                 configVars, gatewayVars, portsVars, assetsVars,
                 runVars, scene>>

\* Two deploys, and no request is repeated; or one, and a browser's may be.
OnSignIn ==
  /\ SignInNext
  /\ \/ scene = "signin" /\ \A f \in Flows : tokenCall'[f][2] = NoCall
     \/ scene = "repeats" /\ minted' <= 1
  /\ UNCHANGED <<genesisVars, intakeVars, dataVars, accountsVars, upgradeVars,
                 configVars, gatewayVars, portsVars, assetsVars,
                 runVars, scene>>

OnData ==
  /\ scene = "data" /\ DataNext
  /\ UNCHANGED <<genesisVars, intakeVars, signInVars, accountsVars, upgradeVars,
                 configVars, gatewayVars, portsVars, assetsVars,
                 runVars, scene>>

OnAccounts ==
  /\ scene = "accounts" /\ AccountsNext
  /\ UNCHANGED <<genesisVars, intakeVars, signInVars, dataVars, upgradeVars,
                 configVars, gatewayVars, portsVars, assetsVars,
                 runVars, scene>>

OnUpgrade ==
  /\ scene = "upgrade" /\ UpgradeNext
  /\ UNCHANGED <<genesisVars, intakeVars, signInVars, dataVars, accountsVars,
                 configVars, gatewayVars, portsVars, assetsVars,
                 runVars, scene>>

OnConfig ==
  /\ scene = "config" /\ ConfigNext
  /\ UNCHANGED <<genesisVars, intakeVars, signInVars, dataVars, accountsVars,
                 upgradeVars, gatewayVars, portsVars, assetsVars,
                 runVars, scene>>

OnGateway ==
  /\ scene = "gateway" /\ GatewayNext
  /\ UNCHANGED <<genesisVars, intakeVars, signInVars, dataVars, accountsVars,
                 upgradeVars, configVars, portsVars, assetsVars,
                 runVars, scene>>

\* One app, of which a commit declares one port or both; or two apps that declare one, and
\* a range that loses a port and gets it back between two passes.
OnPorts ==
  /\ PortsNext
  /\ \/ /\ scene = "ports"
        /\ claim'.app \in {MainGame, NoGame} /\ rangeTop' = rangeTop
        /\ claim'.pc = "claim" => MainPort \in claim'.need
     \/ /\ scene = "claims"
        /\ claim'.pc = "claim" => claim'.need = {MainPort}
        /\ rangeTop' # rangeTop => claim.pc = "idle" /\ rangeTop' > 0
  /\ UNCHANGED <<genesisVars, intakeVars, signInVars, dataVars, accountsVars,
                 upgradeVars, configVars, gatewayVars, assetsVars, runVars,
                 scene>>

OnAssets ==
  /\ scene = "assets" /\ AssetsNext
  /\ UNCHANGED <<genesisVars, intakeVars, signInVars, dataVars, accountsVars,
                 upgradeVars, configVars, gatewayVars, portsVars, runVars,
                 scene>>

OnAgent ==
  /\ scene = "agent" /\ AgentNext
  /\ UNCHANGED <<genesisVars, intakeVars, signInVars, dataVars, accountsVars,
                 upgradeVars, configVars, gatewayVars, portsVars, assetsVars, scene>>

PlatformNext ==
  \/ OnGenesis
  \/ OnIntake
  \/ OnSignIn
  \/ OnData
  \/ OnAccounts
  \/ OnUpgrade
  \/ OnConfig
  \/ OnGateway
  \/ OnPorts
  \/ OnAssets
  \/ OnAgent

\* The fairness of each component, when it is the scene.
PlatformFairness ==
  /\ \A r \in Roots :
       /\ WF_genesisVars(scene = "genesis" /\ BootStep(r))
       /\ SF_genesisVars(scene = "genesis" /\ Up(r))
  /\ WF_upgradeVars(scene = "upgrade" /\ UpgradeProgress)
  /\ WF_configVars(scene = "config" /\ ConfigProgress)
  /\ \A r \in Runs :
       /\ WF_runVars(scene = "agent" /\ DriverStep(r))
       /\ WF_runVars(scene = "agent" /\ AgentExits(r))

PlatformSpec == PlatformInit /\ [][PlatformNext]_platformVars /\ PlatformFairness

\* Every variable of every component keeps its type.
PlatformTypeOK ==
  /\ GenesisTypeOK /\ IntakeTypeOK /\ SignInTypeOK /\ DataTypeOK /\ AccountsTypeOK
  /\ UpgradeTypeOK /\ ConfigTypeOK /\ GatewayTypeOK /\ PortsTypeOK /\ AssetsTypeOK
  /\ AgentTypeOK

\* A root whose genesis was not cut short serves in the end, after any other kill.
RootsResume == scene = "genesis" => Resumes

\* A daemon is up again and again, whatever is merged, and runs in the end what was merged.
UpgradesComeThrough == (scene = "upgrade" => NeverDead) /\ MergesTakeEffect
===============================================================================
