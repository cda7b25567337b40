---------------------------- MODULE Platform_proofs ----------------------------
(***************************************************************************)
(* What is proved of the components one by one, carried to the instance    *)
(* that puts them in one run: a behaviour of the platform is, for each     *)
(* component, a behaviour of that component or of its steps without the    *)
(* fairness that no proof here needs.                                      *)
(***************************************************************************)
EXTENDS MCPlatform, Deploy_proofs, Requests_proofs, Daemon_proofs

\* On whatever scene, every component takes a step of its own or none.
LEMMA PlatformStep ==
  ASSUME [PlatformNext]_platformVars
  PROVE  /\ [GenesisNext]_genesisVars /\ [IntakeNext]_intakeVars /\ [SignInNext]_signInVars
         /\ [DataNext]_dataVars /\ [AccountsNext]_accountsVars /\ [UpgradeNext]_upgradeVars
         /\ [ConfigNext]_configVars /\ [GatewayNext]_gatewayVars /\ [PortsNext]_portsVars
         /\ [AssetsNext]_assetsVars /\ [AgentNext]_runVars
<1> QED BY DEF PlatformNext, platformVars, OnGenesis, OnIntake, OnSignIn, OnData, OnAccounts,
     OnUpgrade, OnConfig, OnGateway, OnPorts, OnAssets, OnAgent

\* The platform runs each of its components: what it does to one component's state is what
\* that component's specification allows, whatever the others do.
THEOREM PlatformRunsItsParts ==
  PlatformSpec => /\ GenesisSpec /\ IntakeSpec /\ SignInSpec /\ DataSpec
                  /\ AccountsSpec /\ GatewaySpec /\ PortsSpec /\ AssetsSpec
                  /\ UpgradeInit /\ [][UpgradeNext]_upgradeVars
                  /\ ConfigInit /\ [][ConfigNext]_configVars
                  /\ AgentInit /\ [][AgentNext]_runVars
<1>1. PlatformInit => /\ GenesisInit /\ IntakeInit /\ SignInInit /\ DataInit /\ AccountsInit
                      /\ UpgradeInit /\ ConfigInit /\ GatewayInit /\ PortsInit /\ AssetsInit
                      /\ AgentInit
  BY DEF PlatformInit
<1>2. [PlatformNext]_platformVars =>
        /\ [GenesisNext]_genesisVars /\ [IntakeNext]_intakeVars /\ [SignInNext]_signInVars
        /\ [DataNext]_dataVars /\ [AccountsNext]_accountsVars /\ [UpgradeNext]_upgradeVars
        /\ [ConfigNext]_configVars /\ [GatewayNext]_gatewayVars /\ [PortsNext]_portsVars
        /\ [AssetsNext]_assetsVars /\ [AgentNext]_runVars
  BY PlatformStep
<1> QED BY <1>1, <1>2, PTL DEF PlatformSpec, GenesisSpec, IntakeSpec, SignInSpec, DataSpec,
     AccountsSpec, GatewaySpec, PortsSpec, AssetsSpec

\* The inductive invariants of the three components whose own specifications add fairness.
LEMMA PlatformKeepsFair == PlatformSpec => []UpgradeInv /\ []ConfigInv /\ []AgentInv
<1>1. UpgradeInv /\ [UpgradeNext]_upgradeVars => UpgradeInv' BY UpgradeStep
<1> QED BY <1>1, PlatformRunsItsParts, UpgradeStart, ConfigStart, ConfigStep, AgentStart,
           AgentStep, PTL

\* Every variable of every component keeps its type in the whole.
THEOREM PlatformTypes == PlatformSpec => []PlatformTypeOK
<1>1. UpgradeInv /\ ConfigInv /\ AgentInv => UpgradeTypeOK /\ ConfigTypeOK /\ AgentTypeOK
  BY DEF UpgradeInv, ConfigInv, AgentInv
<1> QED BY <1>1, PlatformRunsItsParts, PlatformKeepsFair, GenesisTypes, IntakeTypes, SignInTypes,
           DataTypes, AccountsTypes, GatewayTypes, PortsTypes, AssetsTypes, PTL DEF PlatformTypeOK

\* What each component promises at every moment holds of the whole, on every scene: the
\* genesis of a root, sign-in, accounts, upgrades, the gateway's answers and agent runs.
THEOREM PlatformIsSafe ==
  PlatformSpec => [](/\ GenesisSafe /\ SignInSafe /\ AccountsSafe
                     /\ UpgradeSafe /\ GatewaySafe /\ AgentRunSafe)
BY UpgradePromises, AgentPromises, PlatformRunsItsParts, PlatformKeepsFair, GenesisIsSafe,
   SignInIsSafe, AccountsAreSafe, GatewayIsSafe, PTL

\* What each component promises of its steps holds of the whole as well: apps come whole and
\* stay, imports and snapshots are whole, the configuration only goes forward, addresses and
\* assets are kept.
THEOREM PlatformKeepsItsWord ==
  PlatformSpec => AppsComeWhole /\ DataIsWhole /\ ConfigIsSafe /\ PortsHold /\ AssetsHold
<1>1. ConfigInv => ConfigCatchesUp /\ AgentIsCurrent BY CaughtUp DEF ConfigInv
<1>2. ConfigInv /\ [ConfigNext]_configVars =>
        [cache' >= cache \/ cache' >= since \/ configRestarts' # configRestarts]_configVars
  BY ForwardStep
<1>3. PlatformSpec => ConfigIsSafe
  BY <1>1, <1>2, PlatformRunsItsParts, PlatformKeepsFair, PTL DEF ConfigIsSafe, NeverBackwards
<1> QED BY <1>3, PlatformRunsItsParts, AppsAreWhole, DataStaysWhole, PortsAreHeld, AssetsAreHeld,
           PTL
===============================================================================
