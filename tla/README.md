# open-platform in TLA+

A verification project for `open-platform`: a self-hosting platform, one Bun
process (`opd`) over SQLite, bare git repositories and a container engine.
People file work items on repositories; a crew of agents builds, reviews and
ships them; a reconciler converges the running containers to what git says.

## The system and its parts

| part | code | state it keeps | operations | what is hard, and what makes it correct |
|---|---|---|---|---|
| store | `packages/store` | SQLite tables: users, orgs, repos, issues, work_deps, work_attempts, hosts, app_ports, events, oauth clients and codes | compare-and-swap transitions of phases, append-only ledgers, sticky port allocation | writes that belong together are often separate statements; a transition must follow the table of edges |
| forge | `packages/forge` | none of its own | users, orgs, repos, work verbs (create, queue, attach, merge, close, add and remove blockers) | each verb reads a row, awaits git, writes; the row may have moved |
| git host | `packages/git` | bare repositories | mergeBranch, isAncestor, headSha, commitFiles, bundles, smart HTTP, push events | a merge is durable before anyone wrote it down |
| crew | `packages/opd/src/crew`, `packages/crew` | in memory: the set of items in flight, the timer | tick, process, reviewLoop, park, the boot sweep; builder and reviewer agents in containers | half an hour of awaits per job, during which a human closes, merges or queues; crashes at any point |
| reconciler | `packages/opd/src/reconcile.ts`, `gitops.ts`, `policy.ts`, `manifest.ts` | a promise chain (one pass at a time) | converge apps, previews, prune | a deploy is a dozen steps over the engine, the store and the disk, each of which may fail |
| engine | `packages/engine` | containers and images in Docker | build, run, stopAndRemove, list, prune | external |
| data plane | `packages/data` | directories: live data, snapshots, branches | provision, branch, snapshot, restore, import | sequences of file operations, cut short by a crash |
| TCP gate | `packages/gate/src/tcp.ts` | maps of targets, listeners, binds under way, retry timers | sync, listen and its events, stop | events arrive after the world has changed |
| HTTP gate, CA | `packages/gate/src/gate.ts`, `ca.ts` | certificate files | proxy by the hosts table | the row is read before the user is resolved and followed after; four files that must be of one generation |
| identity, OIDC | `packages/identity`, `packages/opd/src/oidc*.ts` | codes, clients, signing key | authorize, token, userinfo | a code is used once; a deploy replaces a client's secret |
| supervisor | `packages/opd/src/supervisor.ts`, `cli.ts` | the reference to roll back to | run the daemon, upgrade, roll back, restart | which version runs after failures in a row |
| platform | `packages/opd/src/platform.ts`, `packages/mitosis` | the composition of all this | init, boot, seed, germinate, app export and import, stop | a crash between the steps of a birth or of an import |
| platform config | `packages/opd/src/platform-config.ts` | a cache of `platform.json` | reload on a push, load an agent's files | reloads overlap, and what they change is read by passes under way |
| assets | `packages/opd/src/assets.ts` | a content-addressed cache, a URL index | resolve before the build, place after the stop | everything may change in between |
| secrets, core | `packages/secrets`, `packages/core` | the sovereign key | seal, open, save and load the key | the only key that opens the store must not be replaced |
| API, console | `packages/opd/src/api.ts`, `console` | none | route to the verbs, render | requests that make apps interleave at every await |
| composer, guide | `packages/opd/src/crew/composer.ts`, `guide.ts` | none | converse | I/O only |

How they interact: the API and the console call the forge; the forge writes the
store and git; git tells its subscribers of a push, which kicks the reconciler
and, for the platform's own repositories, the config reload or a restart; the
dispatcher polls the store for queued items, calls the forge to attach and to
merge, and waits for previews that the reconciler builds; the reconciler writes
hosts and ports, which the two gates read; the supervisor starts the daemon
again when it dies.

## The modules

| module | what it is |
|---|---|
| `WorkPhases` | the phases of a work item and the table of legal edges (`WORK_EDGES` of the store) |
| `WorkItem` | abstract specification: what the platform promises about a work item, whoever moves it |
| `Crew` | the dispatcher, the forge verbs a human uses, the store rows and the git refs they share; crashes and restarts |
| `MCCrew` | instances of `Crew` for TLC |
| `WorkItem_proofs`, `Crew_proofs` | the theorems and their proofs |
| `AgentRun` | one run of an agent: sandbox, caged container, log, verdict, push |
| `TcpGate`, `MCTcpGate`, `TcpGate_proofs` | the TCP gate and its theorems |
| `Rollout` | abstract specification: what the platform promises of the containers it runs, whatever a pass is made of |
| `Reconciler`, `MCReconciler` | the reconciler: passes over git, the open changes and the engine's containers, the rows they leave for the gates |
| `Reconciler_proofs` | the theorems about the reconciler |
| `Gateway` | the HTTP gate: a visit from the row it reads to the container that answers, among deploys and prunes that fail, and deaths |
| `PublicPorts` | the `app_ports` table through deploys, prunes, failed stops, deaths and moves of the range |
| `Assets` | the asset cache, the URL index and the copies in the apps' data |
| `SignIn` | the OIDC provider, the apps made from the template, the browsers and the deploys |
| `DataPlane` | an app's data on disk: live directory, snapshots, a preview's branch, an import |
| `Intake` | the requests that make an app: repository, row, spec, first work item |
| `Accounts` | users, orgs and members in one space of names |
| `Genesis` | a root directory from nothing to a serving daemon, seeds and germination, across kills |
| `SelfUpgrade` | the supervisor and the daemon it upgrades |
| `PlatformConfig` | the configuration's cache, its reloads, and the agents' files |
| `MCPlatform` | the last ten and `AgentRun` in one instance for TLC, a scene each |
| `Daemon_proofs` | the theorems about the daemon's own life: `Genesis`, `SelfUpgrade`, `PlatformConfig`, `AgentRun` |
| `Deploy_proofs` | those about what a deploy touches: `PublicPorts`, `Gateway`, `Assets`, `DataPlane` |
| `Requests_proofs` | those about what requests make and are given: `Accounts`, `SignIn`, `Intake` |
| `Platform_proofs` | the same theorems for the composition `MCPlatform` |

How they fit together. `Reconciler` has the passes and their failures with what
the properties of a pass need; `Gateway`, `PublicPorts`, `SignIn` and `Assets` each take one
thing a deploy does and have it in full, with the deploy reduced to the
steps that touch it. `AgentRun` is the inside of `BuildPushes` and of the reviews of
`Crew`. `Intake` makes the specs that `Reconciler` takes from `listed`;
`DataPlane` has the data that `Reconciler` provisions; `Genesis` ends where the daemon
serves, and `SelfUpgrade` starts there. They share no variables, so they are
checked side by side and not as a product.

### Crew

State. `phase`, `change`, `head`, `deps`, `attempts` are columns and tables of
the store; `branch` and `landed` are what git holds: the commit
`agent/issue-N` points at (named by the attempt that pushed it; 0 is the branch a
human pushed) and the commits of the item that main has. `pc` says at which
`await` of `process`, `reviewLoop` or `resumeReview` the item's job waits,
`resumed` that the job was started by the boot sweep, `humanMerge` and `repair`
are the two other asynchronous calls that may be in flight. `reworks` is a history
variable: how many ledger rows a failed review opened.

Granularity. The daemon is one JavaScript process. An action is what runs from
the end of one await to the beginning of the next: `Tick` is the claim, the
ledger row and the start of the builder; `CrewMergeReturns` is both writes of
`mergeWork` after git answered. All interleavings of jobs and human calls are at
the awaits, as in the code. `mergeBranch` clones the repository at once, so the
commit a merge will land is fixed when it starts. `Crash` drops `pc`, `resumed`,
`humanMerge` and `repair` between any two actions; `Restart` is `sweepStranded`.

How a job ends matters: a job started by `tick` has a `.catch`, one started by
the sweep has none. `JobThrows` ends the first and the process of the second.

Choices: a verdict, a build that fails, declines or pushes, a preview that comes up or
not, a git command that fails (an attach that cannot read the head of its branch, `AttachFails`, ends the job as an error of the build
does). Inputs: a human may file, queue, close, merge, add
and remove blockers whenever the verb's guard lets it.

### TcpGate

The record of a port holds its entries in the gate's maps, the server objects the
code has created for it with what they are to the operating system, and the queue
of their events. `Listen` asks for the port at once and queues the event;
`Listening` and `Refused` deliver it later; `RetryFires` is the timer, `Sync` takes
any routing table, `Stop` may be followed by a late sync of a reconcile pass that
drains. Another process may take a free port.

### Reconciler

State. `listed`, `head` and `change` are what is asked for: the specs in
`sys/gitops`, the commit each branch points at (a number that grows with every push, 0
when the branch is gone), the change of each work item. `box` is what the engine
lists under the platform's label: a container is its variant (an app or a
preview), the commit in its image's tag, the commit it was really built from and its
loopback port. `host`, `tcp` and `status` are the rows `hosts`, `app_ports` and
`app_status`, `data` the preview branches on disk. `queue` is the promise chain of
`enqueue`, `at` the await the running pass stands at, `pass` and `job` the local
variables of the pass and of `deployVariant`. History: `fresh`, the apps that a
pass has read and nobody has asked anything of since; `swept`, the same of a full pass;
`kept`, the apps that came up; `harm`, which sorts of failure have happened.

Actions. One per stretch between awaits: `Begin` (`readAppSpecs`), `ReadHead`,
`ListContainers`, `Clone`, `Build` (with the manifest and the claim of the public
port before it), `StopOld`, `ProvisionData`, the three engine calls of `runApp` as
`CreateContainer`, `StartContainer` and the inspect in `Publish`, `Previews`, then `BeginPrune`,
`PruneStop` and `PruneForget`. Each may fail as the code lets it: a failed
read ends the pass, a failed step of a deploy ends the deploy with `setError`, a failed
stop is only warned of and may leave the container running or stopped. Between any
two of them a branch may be pushed to or deleted, a change opened, closed or merged, an app listed or
removed; the daemon may be told to stop, which ends the pass and tears the
containers down, or die.

What the clone gets is what the branch has by then: the tag of an image and the commit it
was built from differ when a push comes between `ReadHead` and `Clone`.

### AgentRun

`runPc` is the next call of `runBuilder` or `runReviewer`, with the calls of the
container runner and of `runToCompletion` inside it; `cage` the container as the
engine has it, `said` and `heard` the result line in its log and as far as it was
read; `unsaved`, `committed`, `staged` and `pushed` what a builder's checkout
and branch hold, told apart only as on or off the allowlist of `plat/platform`. The agent
edits, commits, speaks and exits whenever its container runs, also after its log broke
off. Each call may fail; once the container exists every way out goes through its removal,
which the engine may refuse (`refused`). An error that the engine answers `/wait` with is
taken for the end, because its status is not looked at (`engine/src/index.ts:566`). A
call that fails is taken to have had no effect.

### Gateway, PublicPorts, Assets

`Gateway`: `hostOf` is `hostFor`, any function from apps to hosts, because app
and owner are joined by a hyphen that both may contain; `hostRow` is the hosts table. A container goes by
the loopback port it holds (`heldBy`). History: `loose`, the hosts whose row's container lost its port since the
row was written, and `routed`, the port an app's row was last written for. `deployed` is the deploy or prune under way, from one
await to the next: `BeginDeploy` lists the app's containers, `StopSite` stops one, `RunSite` and
`PublishSite` follow; `BeginPrune`, `PruneSite` and `ForgetSite` are the prune, which does not look at whether the
container stopped (`reconcile.ts:602`) before it deletes the app's rows. Any stop may fail and leave the container running, a run may fail with a
container left behind, and `DaemonDies` falls between any two steps. A visit is `GateReads` (row), then `GateProxies` after the
user was resolved, and ports freed in between are given out again, also by an engine that restarts a container.

`PublicPorts`: `publicOf` and `boundTo` are the two columns of `app_ports`, `box` the containers with the ports that their commit
declared, `claim` the deploy, refresh or prune under way: `ClaimPort` is one call of `allocateAppPort` and fails when
the range is exhausted; then `BuildGame`, `StopGame` for each old container, `RunGame`, and the rows one by one
(`WriteRow`, `WrittenAll`). `RefreshGame` is the pass over a converged app, and goes through the rows there are.
`PruneGame` and `ForgetGame` are the prune, with the same unchecked stop. A stop that fails leaves the container running
or stopped but there, and `PassEnds` is the failure of a step or the death of the daemon, between any two steps. History: `writtenFor`, the
containers for which all rows of their app were last written, and `unrowed`, those that were there when a prune took the rows.
Neither module lets the engine restart a container between its own answer to the inspect and the row that is written from it.

`Assets`: `cacheFile`, `urlIndex` and `dataFile` are files, `fetching` the deploy:
`Resolve`, `Download`, `KeepFile`, `RememberUrl`, `BuildAndStop`, `PlaceFile`,
`StartPlayer`. What a URL serves changes, files are cleared, apps rewrite their copy, and the
daemon dies, at any step.

### SignIn, Accounts, Intake

`SignIn`: `clientOf` is the client id of an app or preview, any function, because its parts are joined by hyphens that each may
contain (`oidc-clients.ts:39-41`); `clientRow` the clients' rows: the secret and the app whose redirect is registered. Secrets are numbered as they are
minted, a container goes by the one in its environment (`container`), and `pending` is its map of verifiers. A
deploy is `DeployStops` (each old container may survive), `ProvisionAppClient`, `RunApp`, and may end anywhere with
the new container up or not. `codeRows` is the table of codes, `tokenCall` the requests at
`POST /oauth/token` from one await to the next (`CheckClient`, `ConsumeCode`, `VerifyPkce`).
A flow is one browser's attempt and stands for its state, verifier and user. The template takes state and code from the URL and binds
neither to the browser (`server.ts:184-190`), so `Callback(f, g, a, s)` is any browser that presents the state of any flow `g` with any code, also one that
never began a flow of its own: it is signed in as `g`'s user when the code is `g`'s. Any container of the app may answer
it, because the route to them is not modelled here; and an HTTP client may repeat a request.

`Accounts`: `SignupBegins` is `createUser` up to the hash of the password,
`SignupInserts` the rest; `CreateOrg` and `AddOrgMember` run without a pause.

`Intake`: a request is what it asks for and the await it is at; the three
kinds differ in the order of row and content, which is what the properties are about.
`SpecClone` and `SpecPush` are `commitFiles`: the push is refused when
main has moved. A daemon that dies takes its requests with it.

### Genesis, SelfUpgrade, PlatformConfig, DataPlane

`Genesis`: each durable write of `up`, `germinate` and `hostSource` is an
action, and `Kill` falls between any two. `keyFile`, `sealedStore`, `cipherHistory`,
`sysRepo`, `sysRows`, `adminPassword` and `certFiles` are the disk; `bootPc`, `bootKey`,
`freshPassword` the process. `WriteSeed` of one root and `Germinate` of another
move a genome between them.

`SelfUpgrade`: a commit is a number, `src` the managed clone's checkout, `super` the
step of the supervisor's loop, `rollbackRef` as in the code, `young` that the grace period is
not over. `amiss` is history: which of the things happened that no upgrade is promised to
survive.

`PlatformConfig`: `tip` is the head of `plat/platform`, `cache` the commit that the daemon runs by,
`reload` the reloads between their read and their write. History: `since`, the head when the first of the reloads that overlap began, and
`unread`, that one of them, or the start after them, could not read. A start whose read fails runs by the defaults
(`platform-config.ts:157-160`). `LoadInstructions` and `LoadSkills` are the two reads of `loadAgent`.

`DataPlane`: a database file has two pages and a log, so that a copy made while the
app checkpoints can be torn; a copy of a directory is two steps. The steps are those of
`snapshot`, `branchData`, `deleteBranch`, `appImport` and of the deploy, beside the app's own
`Commit` and `AppCheckpoint`. An import without data goes on to its spec whether or not its directory could be made
(`ImportNoData`: the error of `provisionDataDir` is dropped at `platform.ts:777`).

## What the runs check

| run | configuration | what it shows |
|---|---|---|
| `crew_item` | 1 item, 2 reworks, 2 crashes, 2 queueings | type; `JobOwnsItem`: no job finds its item taken over by another; `NoOrphan`: while the daemon is up no item in flight is without a job; `ChangeFollowsPhase`; `ReworkBudget`; and that Crew implements WorkItem, where what is shipped is in main |
| `crew_pair` | 2 items that may block each other, one a proposal for a human, 1 rework, 1 crash, with fairness | the inductive invariant of the proofs `IInv`; `BlockersFirst`; `Acyclic`; under fairness `CrewLetsGo` and `QueueDrains` |
| `tcp_gate` | 1 port, 4 syncs, 3 servers alive, 2 squatters | `NoPhantom` and `NothingForgotten` under every interleaving |
| `tcp_prompt` | 2 ports, 2 loopback targets, every bind reported before anything else runs | `Converged` and `SelfHeals` |
| `reconcile` | 1 app, 1 preview, 3 commits per branch, 3 loopback ports, 1 waiting pass, 2 edits of the specs, 1 failing call, 1 end of the daemon | `PassServes`: an undisturbed pass leaves what is asked for served, whatever came before it; `PassSweeps`: and nothing else; `OneWriter`; `RoutesAreOwn`; `KeepsServing`; `TeardownIsClean`; and that Reconciler implements Rollout |
| `reconcile_live` | the same with 2 ports, 1 edit, no failing call, under fairness | `EventuallyServed` |
| `platform` | thirteen scenes, below | `Genesis` to `AgentRun`, each explored in full, with 15 properties, the conjunctions below |
| `late_attach`, `resumed_review`, `hand_pushed`, `tcp_overlap`, `crash_costs` | the smallest instance that shows it | disagreements between the code and what it says of itself, below |

In `platform` a behaviour is one of a single component, its scene, while the
others stay as they start, so the state spaces add up. What each scene shows:

| scene | instance | checked as | its parts |
|---|---|---|---|
| `genesis` | 2 roots, 3 keys, 1 boot cut short | `GenesisSafe`, `RootsResume` | `SovereignKeyOpensStore`, `NoForeignCiphertext`, `AdminRecoverable`, `CertsMatch`, `WholeUnlessCutShort`, `SourcePublished`; under fairness `RootsResume` |
| `intake` | 2 names, 2 requests, 1 death | `AppsComeWhole` | `VisibleIsClonable`, `SpecIsDeployable`, `NoPhantomRepo`, `OneMaker`, `SpecsNeverLost` |
| `signin` | 2 flows, 2 codes, 2 apps with a client each or one between them, 2 secrets, no request repeated | `SignInSafe` | `CodeOnce`, `SignedInAsPresented`, `SecretInLockstep` |
| `repeats` | the same with a client each and 1 secret, one flow's HTTP client repeats itself | `SignInSafe` | the same |
| `data` | 2 snapshots, 2 milliseconds, 1 transaction, 1 death, with and without copy-on-write | `DataIsWhole` | `ListedSnapshotsWhole`, `AnsweredSnapshotsStay`, `BranchesWhole`, `ImportedIsWhole`, `NoClobber` |
| `accounts` | 2 names and the admin, 2 signups | `AccountsSafe` | `NamesAreFlat`, `OrgsKeepAnOwner`, `OneSignupPerName` |
| `upgrade` | 3 commits, any of them broken, 1 death, 1 failing git call | `UpgradeSafe`, `UpgradesComeThrough` | `RollsBackToProven`, `ServesHead`; under fairness: the daemon is up again and again, and the last merge is served |
| `config` | 3 commits, 2 reloads, 1 failing read (of a reload or a start), 1 restart | `ConfigFollowsTip` | `ConfigIsSafe`: `ConfigCatchesUp`, `NeverBackwards`, `AgentIsCurrent`; under fairness `RaisedCapTakesEffect` |
| `gateway` | 2 apps with a host each or one between them, 2 loopback ports | `GatewaySafe` | `AnswersAreOwn`, `HostHasRow`, `RowsFollowContainers` |
| `ports` | 1 app whose commits declare one port or both, 2 containers, a range of 2 | `PortsHold` | `PublicPortsUnshared`, `DeclaredIsPublic`, `GoneIsExplained`, `AddressIsSticky` |
| `claims` | 2 apps with one port each, 2 containers, a range of 1 or 2 that moves between passes | `PortsHold` | the same |
| `assets` | 2 apps, 1 URL, 2 contents | `AssetsHold` | `CacheIsAddressed`, `WakesWithItsAsset`, `FirstUseSticks` |
| `agent` | 1 builder in `plat/platform`, or 2 reviewers, 1 death | `AgentRunSafe`, `RunsReturn` | `DriverAlone`, `PushedIsAllowed`, `DeclineShipsNothing`, `NothingLeftBehind`, `OnlyFinishedWork`, `CageEmptied`; under fairness `RunsReturn` |

A property of a scene is the conjunction of its parts, each with a mutant of its own, and
`PlatformTypeOK` that of the type invariants. What a scene is confined to is said in the actions `OnSignIn` and `OnPorts` and the initial
states of `MCPlatform`; the components themselves, and the proofs about them, are not confined. Deadlock is not checked there: each scene comes to an end when its bounds are
used up.

Bounds. Every property of one item is about its job, a human and a crash: two
crashes allow a crash during the recovery from a crash, two queueings a second life
after a park, two reworks a budget that can be exhausted and one that is not. Two
items are enough for blockers to be claimed, closed and shipped around each other,
and the proofs cover any number. Three servers alive per port are one
open, one pending and one that is refused.

For the reconciler the first commit has no Dockerfile and the second declares a TCP
port, so that three commits show an app that waits, one with a public port and one
that has lost it. One failure and one crash are enough for each to hit a pass that
recovers from the other; two edits list an app again that was removed. A pass waits
behind the one that runs, so a request can come at any of its points. Commits only
grow: a force push back to an earlier commit is not modelled.

For the scenes: two of everything that competes (requests, reloads, snapshots,
flows, signups, apps on one port or host, runs on one sandbox) and one failure that may fall at any step.
Three keys let two roots be born and one of them be germinated from the
other; three commits let an upgrade follow one that is on trial, and a reload overtake
another. Two apps that claim a port each exhaust a range of one, and find the second free when it is moved back; two
containers let one that could not be stopped run beside its successor, and the engine hand their ports out again. Two clients and two hosts are as good
as any number, since the properties of an app speak of its own and of whether it is shared. One kill in `Genesis` is enough
because what it leaves is what the next boot starts from, whatever came before.
Within the scene `agent` the reviewers and the builder are asked for in turn:
they share nothing but the sandbox, which the two reviewers compete for.

`JobOwnsItem` also answers a question the code leaves open. The comment in
`attachChange` (`forge.ts:531`) reports that a building item was once seen back at
`queued` when its build ended, and heals it. In the model, where the claim is a
compare-and-swap and the sweep runs only at boot, no sequence of calls and crashes
leads there: the self-heal is dead code for a single daemon.

Fairness. `Tick` is a timer and every await of a job or a merge has a timeout
(agent 30 minutes, previews 4 and 5 minutes), so both are weakly fair; so is
`Restart`, which assumes the supervisor (`op up` without it stays down). Nothing
makes a human act. The steps of a pass are weakly fair for the same reason (git
and engine calls end or time out), and so is the start of a daemon that died; one that
was stopped stays stopped. In `TcpGate` events are delivered, timers fire and another
process that holds a port gives it back in the end.

In `Genesis` each step of a boot is weakly fair, and a boot that is down comes up again
under strong fairness, because roots boot one at a time (they share the machine's ports) and
one that is down is not enabled while another boots; kills and engines that are
down are bounded. In `SelfUpgrade` the supervisor's own steps, the daemon's start and
the end of its grace period are fair; merges, deaths and the operator are not. In
`PlatformConfig` reloads and passes end. In `AgentRun` every call of the driver returns and the agent
exits: nothing else ends it, because the deadline only breaks off the reading of its log.

## Disagreements found

| run | the code | what says otherwise |
|---|---|---|
| `late_attach` | `attachChange` (`forge.ts:527`) writes the open change before it tries the transition, so a build that outlives a Close leaves a closed item with an open change and a live preview | `test/sim/invariants.ts:478`, `docs/design/04-work-items.md:290` |
| `resumed_review` | a resumed review (`dispatcher.ts:136`) that ends after a human moved the item throws into an unhandled rejection | the comment at `dispatcher.ts:179` |
| `hand_pushed` | an item filed with a branch is reviewed only after a restart of the daemon | `genesis/platform/docs/work-items.md:34` |
| `tcp_overlap` | a timer or a sync that binds a port while an earlier bind is unreported: the second server's error removes the first one's entry, and all retries are refused by the gate's own listener | the comment at `tcp.ts:20` |
| `crash_costs` | a daemon that dies after the container started and before its rows: the next pass finds the container converged and returns without writing the status (`reconcile.ts:226`), so a serving app is shown as building until its next deploy | `reconcile.ts:36`, `genesis/platform/docs/gitops.md:55` |

The exceptions in the properties of `Reconciler` are what the code does reach, and
each is a state a reader of the code should know of:

- `OneWriter` excepts a stop that failed. The old container then runs beside
  the new one, and stays: every later pass returns at the converged container
  before it looks at the others (against "exactly one container writes", `deploy-an-app.md`).
- `RoutesAreOwn` excepts a deploy cut short after it removed the old container. Its
  host row stays, and when the engine gives that loopback port to another variant the
  host leads there until a later pass puts it right.
- `PassServes` excepts the public port of an app whose prune was cut short, or whose stop failed in it, and
  which is listed again: its row is gone and no converged pass claims another.
- `PassSweeps` is about containers. The prune walks the containers the engine
  lists, so the host row and the data of a preview that has none any more (torn down, or
  lost in a failed deploy) are never removed (`reconcile.ts:583`).
- A deploy of a commit that has dropped its TCP port leaves the row at the
  port of the container it replaced until the next pass.
- A preview whose branch was deleted keeps its container while the change is
  open (the comment at `reconcile.ts:157` expects the prune to remove it).

The exceptions in the other modules are of the same kind:

- `WholeUnlessCutShort` and `RootsResume` (`Genesis`): whether a root is being born is read off
  the HEAD of `sys/gitops`. A kill between its `initBareRepo` and its seed makes every later boot
  fail; one after it, before the template has its content or between the `initBareRepo` of `plat/platform` and its seed, makes a platform that
  serves without them. Only a `plat/platform` that has no HEAD yet is seeded by the next boot (`platform.ts:258-273`), so a kill before its
  `initBareRepo` is no exception. A germination cut after the key was saved cannot be repeated in that root
  (against "boot (or resume)", `cli.ts`, and `docs/TESTING.md:245`).
- `RollsBackToProven`, `UpgradesComeThrough` (`SelfUpgrade`): a second upgrade within the grace period
  makes the first the reference to roll back to, though it has proved nothing; a rollback that is pending when the
  supervisor dies is forgotten; a reset that fails leaves the bad commit; `headRef` is outside the `try`
  (`supervisor.ts:74`); a bad commit that exits with 0 stops the supervisor (against `supervisor.ts:8-10`).
- `ConfigCatchesUp`, `NeverBackwards`, `RaisedCapTakesEffect` (`PlatformConfig`): overlapping reloads may finish in the
  wrong order, and the daemon then runs by an older of the commits that were pushed meanwhile until the next push, never
  by one from before; a read that fails leaves what was there. A
  daemon that starts on a bad commit, or cannot read it, has the defaults and not the last good one
  (`platform-config.ts:12-14`).
- `NamesAreFlat` (`Accounts`): an org made while the password of a user of that name is
  hashed has the same name.
- `VisibleIsClonable` (`Intake`): the failed clone of an import removes the directory of its name, also one
  that another request is filling; the loser of a push to `sys/gitops` answers 500, and its retry 409.
- `SecretInLockstep` (`SignIn`): an old container that could not be stopped goes on with a
  secret that is no longer accepted; and the app `a-b` of `c` has one client with the app `b` of `c-a`
  (`oidc-clients.ts:39-41`), so that a deploy of either takes the other's secret and redirect. Both are against
  "a running app never holds a secret the store has rotated out from under it" (`oidc-clients.ts:27-31`).
- `SignedInAsPresented` (`SignIn`) does not say that a browser is signed in as its own user. The template binds a flow's
  state to no browser (`server.ts:184-190`): one that opens the whole callback URL of another flow, state and code, is
  signed in as the user of that flow. What holds is that the user is that of the state which came back, whatever
  code came with it, and that the state works once.
- `ListedSnapshotsWhole` (`DataPlane`): a daemon killed in a copy leaves a partial snapshot that is
  listed; two calls in one millisecond share a directory; one made during an import may copy a part.
  `BranchesWhole`: a half-copied branch is reused by the next deploy, and with file clones a branch may be torn.
- `HostHasRow` (`Gateway`): `a-b` of `c` and `a` of `b-c` have one host, and a prune of one takes the route of
  the other (against `policy.ts:78-79`). A prune whose stop fails deletes the host of a container that runs on
  (`reconcile.ts:602-603`), and a deploy cut short between the run and the row leaves a container without one: a row is
  promised from when it was written, until the container loses its port or a prune takes the row. `AnswersAreOwn` needs no such exception, which the proof showed:
  whoever answers has the host that was asked for, if not alone.
- `DeclaredIsPublic` and `GoneIsExplained` (`PublicPorts`): a prune whose stop fails deletes the public ports of a
  container that runs on (`reconcile.ts:604`); listed again, the app is found converged, `refreshTcpBindings` goes through the rows
  there are, which are none, and its ports come back only with its next deploy. A daemon that dies between the run
  (`reconcile.ts:418`) and the rows (`:481`) leaves them at the loopback port of the container before, as
  `EngineRestartsBox` does, until a pass comes back to the app; after a failed stop, which of two containers
  a pass takes for the converged one is open. So rows are promised from when all were written for a container, until they are
  written again, it loses its ports, or a prune takes them.
- `FirstUseSticks` (`Assets`): a deploy that pins another content of a URL re-points the index for the apps that do
  not pin it (against `assets.ts:24-26`), and a remembered hash is not enforced on a
  download after the file was cleared (`assets.ts:154`). `WakesWithItsAsset` is about what a deploy places; a
  container that lingers may rewrite it.
- `DriverAlone`, `CageEmptied`, `NothingLeftBehind`, `PushedIsAllowed` (`AgentRun`): an engine that refuses to delete the
  container leaves an agent that still writes. A daemon's death leaves the container too, and no boot sweeps
  the label of agents.

Read off the same models, and not kept as runs: a merge that landed while its item
was in `reviewing` is reviewed again after a crash, because the sweep looks only at
parked items (`dispatcher.ts:83`); queueing a hand-pushed item again replaces its
branch (`store/src/index.ts:1033`, against "at most one change, ever"); a rework
still running when a human merges pushes a commit that never reaches main
(`builder.ts:334`); a Re-queue opens attempts beyond `maxRework + 1`
(`dispatcher.ts:232`); a TCP port dropped while its bind is under way is opened by
the late event and stays (`tcp.ts:120`); two first runs of agents race for the sandbox's
network and the loser fails; a result line after the log broke off is lost and the run fails with "no
result"; an agent that reports an error has its work pushed all the same (`ok` is never
read); the deadline is looked at only when a line of the log arrives
(`engine/src/index.ts:606`) and does not end the agent; `idleTimeoutMs` is ignored by the container
runner (against `runner.ts:25-28`); a rework's forced push overwrites what a human pushed meanwhile.

## What is proved

`Crew_proofs` and `WorkItem_proofs` hold for every set of items, every
`MaxRework` and all values of the bounds, from `CrewAssumption` alone.

The invariant is built in parts, each inductive given the ones before it:

1. `TypeOK`.
2. `JobOwnsItem` and `NoOrphan` together: a job's point and its item's phase
   determine each other up to what a human may do.
3. `ChangeFollowsPhase`, and `MergesLanded` (a merge that is yet to be written down
   has reached main), which gives `ShippedIsLanded`. The CAS is what makes this
   work: the tail of a merge that lost a race changes nothing.
4. `DepsFiled`, `BlockersFirst` and `Acyclic`. An edge is added only before the
   claim, and an edge from i to j makes a cycle only if j already depends on i.
   "Depends on" is the smallest set closed under the edges, stated without
   recursion, so the argument is about sets: a set closed under the new graph is
   closed under the old.
5. `LedgerOK`, which says why at least one row of the ledger is not a rework
   wherever a rework can start: the agent branch was first pushed by a build. It gives
   `ReworkBudget`.
6. `MergesCarryChange`, needed only for the refinement.

`InductiveInvariant` is their conjunction, `PhaseMachine` the action property
that no step leaves the table of edges, and `CrewImplementsWorkItem` the
refinement, with `inMain` mapped to the items some commit of which has landed. Then
`ShipsFromMain` and `FinalPhases`, proved of `WorkItem`, hold of the crew.

`Reconciler_proofs` holds for any apps, changes, ports and bounds, from
`ReconcilerAssumption`. On top of `TypeOK` (`ReconcilerTypes`) each property has a
strengthening of its own, inductive by itself:

- `WriterInv` for `OneWriter`: while a deploy builds, every container of its
  variant that runs is on its list of old ones; once the list is empty none runs.
- `RouteInv` for `RoutesAreOwn`: ports are given out once, and a host row has a living container of
  its variant behind it, except of the variant that is being replaced. That is why
  the new container's port can be nobody's.
- `KeepInv` for `KeepsServing`: a full pass has read every app that came up, so
  its prune has none of them on its list.
- `SweepInv` for `PassSweeps`: an unovertaken pass deploys only what is wanted, and from
  `BeginPrune` on the rest is on its list.
- `PassInv` and `ServeInv` for `PassServes`: a variant of a fresh app is served,
  or the pass has it yet to come to, or is at work on it with the commit of its branch. They rest on
  `VersionsGrow` (a container is built from a commit at least as new as its tag says, so
  that one whose tag is the branch's commit was built from it: a race of a push with a
  build cannot last) and `RowsStay` (the public port of an app keeps its row while a
  container of it runs).
- `TeardownInv` for `TeardownIsClean`: a teardown has on its list all that runs, because no
  pass runs beside it.

`RolloutIsKept` is the refinement of `Rollout`. A branch is `settled` there while its app is in `fresh`,
`running` is the containers that run, and of the passes, their lists, the rows and the queue
nothing is left: `ReadHead`, the lists and the prune's reading of the changes are stutters, `StartContainer` is
`Start`, and the three places that stop a container (a deploy, a prune, a teardown) are `Stop`. What has
to be shown of each start and stop is in `SettledInv`, with the parts above: a pass works for a settled branch
only while it is wanted, although the wants were read when the pass began, and the containers it has
listed to replace are of another commit, although they were listed several awaits ago. A teardown
unsettles every branch first, and so does the end of the daemon: `Rollout` promises a settled branch nothing beyond them.
`ServedIsLeftAlone` is what follows for a user: `OneEach`, and `LeftAlone`, that a container
that is what its branch asks for is not stopped by any pass.

`TcpGate_proofs`, from `TcpGateAssumption`: the invariant ties each entry of the gate's
maps to a server and each server to its place in the queue of events; a wanted port has a
server, a bind under way or a timer. `GateConverges` is of `PromptSpec`, where no event is late.

`Platform_proofs` and the three modules it extends cover the eleven components of the run `platform`, for
all values of their constants. For each there is an inductive invariant (`GenesisInv`, `GatewayInv` and so on,
checked with TLC before it was proved), which says of every await what has been established by then:

- `AgentRun`: where the container is at each call of the driver (`Cages`), and what the checkout may hold there
  (`Vetted`). Between the removal and the end the tree changes only by the driver's hand,
  which is what the decline, the allowlist and the backstop rest on.
- `Genesis`: the key a process knows is the key on disk (`KeyHeld`); no seed has ciphertext (`GenomeClean`); the
  admin comes after the platform's identity and its sealed secrets, and what replaces those two
  happens only before (`AdminLast`), so that no later write can lose the password; the certificate files are
  written in an order in which the last completes a set (`CertsOrdered`); a boot that was not cut short has the
  repositories its stage says (`Stages`).
- `SelfUpgrade`: who asks for an upgrade without haste has proved itself (`LeavesProven`), and the managed
  clone is at the head or the head was broken, but on the way there (`Follows`).
- `PlatformConfig`: what a reload has read was the head when the reloads began to overlap, or later (`ReadsLate`), and
  unless a commit of theirs is in force one of them has yet to read or has read a good one (`OneWillApply`).
- `PublicPorts`: what the step of a deploy has claimed (`Claimed`), that the container whose rows are being
  written runs and those already written lead to it (`Publishing`), and that the containers whose rows were all written
  run (`BoxesKnown`). That a set of ports has a lowest is proved from the well-foundedness
  of the natural numbers.
- `Gateway`: a deploy that is about to write a row has a container of its app in hand (`RouteDeploys`), an app holds the port its
  row was last written for (`RoutedHold`), and a visit that is not stale follows a
  row to a container that still holds the port (`VisitFollows`), through its wait for the user.
- `Assets`: what was fetched without a pin was fetched because the cache had nothing for the URL, and what
  was placed is what was resolved, until the app itself rewrites it (`Fetched`).
- `DataPlane`: the directory of a snapshot is as far as its call has got, unless two calls share it
  (`SnapsHeld`); a branch that no copy fills is whole (`BranchKept`); and the order of an import says when the live
  directory can be half there (`ImportOrdered`), for which a branch needs the spec, which comes last.
- `Accounts`: a signup that is past its check holds its name against other signups by the unique key, and against
  orgs not at all, which is why `crossed` is what it is.
- `SignIn`: while a code has its row nobody has got past `consumeCode` with it, and at most one request at a time
  is between there and the answer (`CodesInv`), for any number of requests at the endpoint; a verifier is in the map of
  one container or was presented by one browser (`VerifierOnce`), and a grant is for the state its browser
  came with (`GrantedToPresented`), which rests on the PKCE check alone; a deploy that stopped what ran has left no container of
  its app, and the secret it minted is the stored one until its container runs (`DeployInv`).
- `Intake`: a row belongs to the request that inserted it, and nobody else removes it (`RowsOwned`); content
  comes before row and spec (`Filled`); a clone of `sys/gitops` that nobody pushed past has seen every spec
  (`SpecsLast`), which is why none is lost though `commitFiles` writes back what it cloned.

The theorems are, per component, that it keeps its types and its promise as the run checks it (`GenesisIsSafe`,
`UpgradesAreSafe`, `ConfigKeepsUp`, `GatewayIsSafe`, `AssetsAreHeld`, `DataStaysWhole`, `AppsAreWhole`,
`AgentRunsAreSafe`, `AccountsAreSafe`, `PortsAreHeld`, `SignInIsSafe`), action properties included.

For the composition, `PlatformRunsItsParts` says that each step of the whole is for each component a step of
its own specification or none: a behaviour of the platform is a behaviour of every part, but for the fairness of the three
that have some, which no safety proof needs. `PlatformTypes`, `PlatformIsSafe` and
`PlatformKeepsItsWord` follow from it.

The assumptions about constants are those that the modules declare: bounds are naturals, values that mean "none" are
nobody's, and `Intake`, `Assets` and `DataPlane` have at least one name, app, URL, content and
millisecond, since their initial records name one.

Only model-checked: liveness (`CrewLetsGo`, `QueueDrains`, `SelfHeals`, `EventuallyServed`, `RootsResume`,
`UpgradesComeThrough`, `RunsReturn`, and `RaisedCapTakesEffect` in `ConfigFollowsTip`), since fairness and
ENABLED are outside what the prover does. Every other property that a passing run checks is a theorem.

## What is not modelled, and why

- A process killed between two synchronous statements of SQLite: `shipped` and
  `merged`, or `parked` and `queued` in the sweep, are two UPDATEs outside a
  transaction. Crashes are between actions.
- Pushes by humans to an agent branch or to main while the crew works, and a
  human's branch that has nothing over main (the sweep would call it merged).
- In the reconciler: the values of secrets, the images that `pruneImages` removes, what the engine
  does by itself (a restarted container may get another loopback port; `Gateway` and `PublicPorts` have that). A merge
  is one action there; its steps are in `Crew`.
- The freshness of a preview: `waitForPreview` and `waitForPreviewRebuild` may take
  the container of an older commit for the new one. In `Crew` the preview is up
  or not; the two together, with the reconciler's passes, are beyond what TLC explores in
  the time of a run.
- The pull-request verbs of the forge (`createPr`, `mergePr`, `closePr`, `closeIssue`, `setIssueDep`), which the
  work-item verbs replace and only tests call; `removeOrgMember` and the data plane's `restore`, which nothing calls; the runner
  of agents on the host, which only tests use.
- Sessions, access tokens, the signing key and its claims: rows that are written once and looked up. A logout
  only clears the cookie.
- In `Gateway`: the hosts of previews, whose rows a prune takes by their own name (`reconcile.ts:594`) and not by owner and app.
- In `Gateway` and `PublicPorts`: an engine that restarts a container after it was inspected and before the row is written.
- In `DataPlane`: that SQLite's own check finds a torn file, and that `VACUUM INTO` gives a consistent one, is assumed.
- In `Assets`: that hosts and sizes of downloads are looked at only when a file is fetched.
- In `AgentRun`: a call of the engine that took effect though its answer was lost (a created container would leak).
- In `PlatformConfig`: that one deploy reads the policy several times, so that parts of it may be of two commits.
- Composer and guide: one question to a model and one answer, with nothing kept between them.
- Rendering, agents' text, encryption, logs and metrics: no state a property is about.

## Plan

1. Done: `WorkPhases`, `WorkItem`, `Crew`, the refinement and the proofs.
2. Done: `TcpGate` and its proofs.
3. Done: `Reconciler`, its runs and the proofs of all its invariants.
4. Done: `Gateway`, `PublicPorts`, `Assets`, `SignIn`, `DataPlane`, `Intake`, `Accounts`, `Genesis`,
   `SelfUpgrade`, `PlatformConfig`, `AgentRun`; the proofs of all their safety properties, and of the composition.
5. Done: `Rollout`, which `Reconciler` implements, with the refinement proved.
