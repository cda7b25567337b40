------------------------------- MODULE Genesis --------------------------------
(***************************************************************************)
(* A platform's root directory from nothing to a serving daemon, across    *)
(* kills: Platform.up (genesis or resume), seed, germinate and hostSource. *)
(*                                                                         *)
(* Every durable write is a step of its own, because a kill can fall       *)
(* between any two of them and the next boot decides what to do from what  *)
(* it finds on disk.  Keys are model values; a password or a certificate   *)
(* is named by the number of boots cut short before the one that made it,  *)
(* so two generations of it differ.  An error that makes a boot give up    *)
(* in the middle leaves what a kill leaves and is the same step.           *)
(***************************************************************************)
EXTENDS Naturals, Sequences, Functions

CONSTANTS
  Roots,    \* state directories, each of one platform
  GKeys,    \* sovereign keys that can be minted
  NoKey,    \* no key
  MaxKills  \* bound: boots cut short, by a kill or for want of an engine

ASSUME GenesisAssumption == NoKey \notin GKeys /\ MaxKills \in Nat

VARIABLES
  keyFile,        \* keyFile[r]: the key saved at sd.keyFile
  platformId,     \* platformId[r]: the platform-id file exists
  sysRepo,        \* sysRepo[r][repo]: "absent", "bare" (no commit) or "full"
  sealedStore,    \* sealedStore[r]: recipient and password at main of sys/gitops
  cipherHistory,  \* cipherHistory[r]: recipients of any ciphertext in its history
  sysRows,        \* sysRows[r]: repos with a row in the store
  adminPassword,  \* adminPassword[r]: password of the user plat, 0 when there is none
  certFiles,      \* certFiles[r][f]: generation of the file, 0 when there is none
  genome,         \* the last seed written: its recipients, or NoGenome
  bootPc,         \* bootPc[r]: where the process that owns the root is
  bootKey,        \* bootKey[r]: the sovereign key that process holds
  freshPassword,  \* freshPassword[r]: the password that process generated, or 0
  sourceHost,     \* sourceHost[r]: where its publishing of plat/opd is
  kills,          \* kills[r]: boots cut short so far
  cutShort        \* cutShort[r]: a kill fell inside genesis or germination

genesisVars == <<keyFile, platformId, sysRepo, sealedStore, cipherHistory, sysRows,
                 adminPassword, certFiles, genome, bootPc, bootKey, freshPassword,
                 sourceHost, kills, cutShort>>

disk == <<keyFile, platformId, sysRepo, sealedStore, cipherHistory, sysRows,
          adminPassword, certFiles>>

Genome    == {"gitops", "template", "platform"}   \* the repos a seed carries
SysRepos  == Genome \cup {"opd"}
CertOrder == <<"ca.crt", "wildcard.crt", "ca.key", "wildcard.key">>
CertNames == {CertOrder[i] : i \in 1..4}
CertPcs   == <<"cert1", "cert2", "cert3", "cert4">>
NoSecrets == [recipient |-> NoKey, password |-> 0]
NoGenome  == [recipients |-> {NoKey}]

InitPc == [gitops |-> "initGitops", template |-> "initTemplate", platform |-> "initPlatform"]
SeedPc == [gitops |-> "seedGitops", template |-> "seedTemplate", platform |-> "seedPlatform"]
AfterSeed == [gitops |-> "initTemplate", template |-> "initPlatform", platform |-> "rows"]
RestorePc == [gitops |-> "restoreGitops", template |-> "restoreTemplate",
              platform |-> "restorePlatform"]
AfterRestore == [gitops |-> "restoreTemplate", template |-> "restorePlatform",
                 platform |-> "regenerate"]

\* Where a kill leaves a root that no later boot completes: plat/platform alone is seeded by
\* the next boot, while it has no HEAD.
GenesisWindow ==
  {SeedPc[g] : g \in Genome} \cup {InitPc["template"]}
  \cup {RestorePc[g] : g \in Genome \ {"gitops"}} \cup {"regenerate"}

UpPcs == {"key", "id", "rows", "verify", "admin", "certs", "ping"}
         \cup {InitPc[g] : g \in Genome} \cup {SeedPc[g] : g \in Genome}
         \cup {CertPcs[i] : i \in 1..4}
GerminatePcs == {"mint", "regenerate", "lineage"} \cup {RestorePc[g] : g \in Genome}

GenesisTypeOK ==
  /\ keyFile \in [Roots -> GKeys \cup {NoKey}]
  /\ platformId \in [Roots -> BOOLEAN]
  /\ sysRepo \in [Roots -> [SysRepos -> {"absent", "bare", "full"}]]
  /\ sealedStore \in [Roots -> [recipient : GKeys \cup {NoKey}, password : Nat]]
  /\ cipherHistory \in [Roots -> SUBSET GKeys]
  /\ sysRows \in [Roots -> SUBSET SysRepos]
  /\ adminPassword \in [Roots -> Nat]
  /\ certFiles \in [Roots -> [CertNames -> Nat]]
  /\ genome \in [recipients : SUBSET GKeys] \cup {NoGenome}
  /\ bootPc \in [Roots -> UpPcs \cup GerminatePcs \cup {"down", "serving"}]
  /\ bootKey \in [Roots -> GKeys \cup {NoKey}]
  /\ freshPassword \in [Roots -> Nat]
  /\ sourceHost \in [Roots -> {"off", "check", "init", "seed", "done"}]
  /\ kills \in [Roots -> Nat]
  /\ cutShort \in [Roots -> BOOLEAN]

GenesisInit ==
  /\ keyFile = [r \in Roots |-> NoKey]
  /\ platformId = [r \in Roots |-> FALSE]
  /\ sysRepo = [r \in Roots |-> [g \in SysRepos |-> "absent"]]
  /\ sealedStore = [r \in Roots |-> NoSecrets]
  /\ cipherHistory = [r \in Roots |-> {}]
  /\ sysRows = [r \in Roots |-> {}]
  /\ adminPassword = [r \in Roots |-> 0]
  /\ certFiles = [r \in Roots |-> [f \in CertNames |-> 0]]
  /\ genome = NoGenome
  /\ bootPc = [r \in Roots |-> "down"]
  /\ bootKey = [r \in Roots |-> NoKey]
  /\ freshPassword = [r \in Roots |-> 0]
  /\ sourceHost = [r \in Roots |-> "off"]
  /\ kills = [r \in Roots |-> 0]
  /\ cutShort = [r \in Roots |-> FALSE]

\* Variant: one off.
GenerationBefore(r) == kills[r] - 1

\* The generation of whatever a boot makes now.
Generation(r) == kills[r] + 1

\* A minted key is one no root has.
UnusedKeys == GKeys \ {keyFile[r] : r \in Roots}
MintedKey == CHOOSE k \in UnusedKeys : TRUE

Goto(r, pc) == bootPc' = [bootPc EXCEPT ![r] = pc]

\* The process goes away; what it held in memory goes with it.
Gone(r) ==
  /\ Goto(r, "down")
  /\ bootKey' = [bootKey EXCEPT ![r] = NoKey]
  /\ freshPassword' = [freshPassword EXCEPT ![r] = 0]
  /\ sourceHost' = [sourceHost EXCEPT ![r] = "off"]

-------------------------------------------------------------------------------
(***************************************************************************)
(* Platform.up.                                                            *)
(***************************************************************************)

\* Roots share nothing but the seed file, so the boots of two roots are taken one
\* after the other (a bound: no order between them is lost).
OthersRest(r) == \A q \in Roots \ {r} : bootPc[q] \in {"down", "serving"}

\* `op up` on a root no process owns.
Up(r) ==
  /\ bootPc[r] = "down"
  /\ OthersRest(r)
  /\ Goto(r, "key")
  /\ UNCHANGED <<disk, genome, bootKey, freshPassword, sourceHost, kills, cutShort>>

\* The sovereign key is loaded, or minted once the operator accepts custody.
LoadKey(r) ==
  /\ bootPc[r] = "key"
  /\ \/ /\ keyFile[r] # NoKey
        /\ bootKey' = [bootKey EXCEPT ![r] = keyFile[r]]
        /\ UNCHANGED keyFile
     \/ /\ keyFile[r] = NoKey
        /\ UnusedKeys # {}
        /\ keyFile' = [keyFile EXCEPT ![r] = MintedKey]
        /\ bootKey' = [bootKey EXCEPT ![r] = MintedKey]
  /\ Goto(r, "id")
  /\ UNCHANGED <<platformId, sysRepo, sealedStore, cipherHistory, sysRows, adminPassword,
                 certFiles, genome, freshPassword, sourceHost, kills, cutShort>>

\* Variant: genesis is told by the identity of the platform.
IsGenesisById(r) == ~platformId[r]

\* Genesis is told by the HEAD of sys/gitops, which `git init` writes.
IsGenesis(r) == sysRepo[r]["gitops"] = "absent"

\* The platform-id file, then the choice between genesis, the plat/platform
\* backstop and a plain resume.
WriteId(r) ==
  /\ bootPc[r] = "id"
  /\ platformId' = [platformId EXCEPT ![r] = TRUE]
  /\ \/ /\ IsGenesis(r)
        /\ Goto(r, "initGitops")
        /\ freshPassword' = [freshPassword EXCEPT ![r] = Generation(r)]
     \/ /\ ~IsGenesis(r)
        /\ Goto(r, IF sysRepo[r]["platform"] = "absent" THEN "initPlatform" ELSE "rows")
        /\ UNCHANGED freshPassword
  /\ UNCHANGED <<keyFile, sysRepo, sealedStore, cipherHistory, sysRows, adminPassword,
                 certFiles, genome, bootKey, sourceHost, kills, cutShort>>

\* Variant: a repository that exists is taken to be seeded.
InitBareRepoOnce(r, g) ==
  /\ bootPc[r] = InitPc[g]
  /\ sysRepo' = [sysRepo EXCEPT ![r][g] = IF @ = "absent" THEN "bare" ELSE @]
  /\ Goto(r, IF g = "platform" THEN "rows" ELSE SeedPc[g])
  /\ UNCHANGED <<keyFile, platformId, sealedStore, cipherHistory, sysRows, adminPassword,
                 certFiles, genome, bootKey, freshPassword, sourceHost, kills, cutShort>>

InitBareRepo(r, g) ==
  /\ bootPc[r] = InitPc[g]
  /\ sysRepo' = [sysRepo EXCEPT ![r][g] = IF @ = "absent" THEN "bare" ELSE @]
  /\ Goto(r, SeedPc[g])
  /\ UNCHANGED <<keyFile, platformId, sealedStore, cipherHistory, sysRows, adminPassword,
                 certFiles, genome, bootKey, freshPassword, sourceHost, kills, cutShort>>

\* The first commit is pushed; that of sys/gitops carries the sealed secrets.
SeedRepo(r, g) ==
  /\ bootPc[r] = SeedPc[g]
  /\ sysRepo' = [sysRepo EXCEPT ![r][g] = "full"]
  /\ IF g = "gitops"
       THEN /\ sealedStore' = [sealedStore EXCEPT ![r] =
                 [recipient |-> bootKey[r], password |-> freshPassword[r]]]
            /\ cipherHistory' = [cipherHistory EXCEPT ![r] = @ \cup {bootKey[r]}]
       ELSE UNCHANGED <<sealedStore, cipherHistory>>
  /\ Goto(r, AfterSeed[g])
  /\ UNCHANGED <<keyFile, platformId, sysRows, adminPassword, certFiles, genome, bootKey,
                 freshPassword, sourceHost, kills, cutShort>>

\* The system repos get rows whether or not their repositories exist.
WriteRows(r) ==
  /\ bootPc[r] = "rows"
  /\ sysRows' = [sysRows EXCEPT ![r] = @ \cup Genome]
  /\ Goto(r, "verify")
  /\ UNCHANGED <<keyFile, platformId, sysRepo, sealedStore, cipherHistory, adminPassword,
                 certFiles, genome, bootKey, freshPassword, sourceHost, kills, cutShort>>

\* The sovereignty gate: the sealed values decrypt with our key, or no boot.
AllSealedToUs(r) ==
  sysRepo[r]["gitops"] = "full" /\ sealedStore[r].recipient = bootKey[r]

VerifySealed(r) ==
  /\ bootPc[r] = "verify"
  /\ \/ AllSealedToUs(r) /\ Goto(r, "admin") /\ UNCHANGED <<bootKey, freshPassword, sourceHost>>
     \/ ~AllSealedToUs(r) /\ Gone(r)
  /\ UNCHANGED <<disk, genome, kills, cutShort>>

\* Variant: the admin gets the password that this boot generated, or would have.
GeneratedPassword(r) == Generation(r)

\* The password the admin user is created with.
SealedPassword(r) == sealedStore[r].password

CreateAdmin(r) ==
  /\ bootPc[r] = "admin"
  /\ adminPassword' = [adminPassword EXCEPT ![r] = IF @ = 0 THEN SealedPassword(r) ELSE @]
  /\ Goto(r, "certs")
  /\ UNCHANGED <<keyFile, platformId, sysRepo, sealedStore, cipherHistory, sysRows, certFiles,
                 genome, bootKey, freshPassword, sourceHost, kills, cutShort>>

\* Variant: only the authority's own files are looked for.
AuthorityPresent(r) == \A f \in {"ca.crt", "ca.key"} : certFiles[r][f] # 0

\* ensureCa keeps what it finds only if all four files are there.
CertsPresent(r) == \A f \in CertNames : certFiles[r][f] # 0

EnsureCa(r) ==
  /\ bootPc[r] = "certs"
  /\ Goto(r, IF CertsPresent(r) THEN "ping" ELSE "cert1")
  /\ UNCHANGED <<disk, genome, bootKey, freshPassword, sourceHost, kills, cutShort>>

WriteCert(r) ==
  \E i \in 1..4 :
    /\ bootPc[r] = CertPcs[i]
    /\ certFiles' = [certFiles EXCEPT ![r][CertOrder[i]] = Generation(r)]
    /\ Goto(r, IF i = 4 THEN "ping" ELSE CertPcs[i + 1])
    /\ UNCHANGED <<keyFile, platformId, sysRepo, sealedStore, cipherHistory, sysRows,
                   adminPassword, genome, bootKey, freshPassword, sourceHost, kills, cutShort>>

\* The container engine answers, and the platform serves ...
EnginePings(r) ==
  /\ bootPc[r] = "ping"
  /\ Goto(r, "serving")
  /\ sourceHost' = [sourceHost EXCEPT ![r] = "check"]
  /\ UNCHANGED <<disk, genome, bootKey, freshPassword, kills, cutShort>>

\* ... or it does not, and the boot fails.
EngineDown(r) ==
  /\ bootPc[r] = "ping"
  /\ FoldFunction(+, 0, kills) < MaxKills
  /\ kills' = [kills EXCEPT ![r] = @ + 1]
  /\ Gone(r)
  /\ UNCHANGED <<disk, genome, cutShort>>

-------------------------------------------------------------------------------
(***************************************************************************)
(* hostSource, in the background of a serving platform.                    *)
(***************************************************************************)

\* Variant: a row is taken for content.
SourceHasRow(r) == "opd" \in sysRows[r]

\* Publishing is skipped only when plat/opd has content, not merely a row.
SourceHosted(r) == sysRepo[r]["opd"] = "full"

HostCheck(r) ==
  /\ bootPc[r] = "serving"
  /\ sourceHost[r] = "check"
  /\ \/ /\ SourceHosted(r)
        /\ sourceHost' = [sourceHost EXCEPT ![r] = "done"]
        /\ UNCHANGED sysRows
     \/ /\ ~SourceHosted(r)
        /\ sourceHost' = [sourceHost EXCEPT ![r] = IF "opd" \in sysRows[r] THEN "seed" ELSE "init"]
        /\ sysRows' = [sysRows EXCEPT ![r] = @ \cup {"opd"}]
  /\ UNCHANGED <<keyFile, platformId, sysRepo, sealedStore, cipherHistory, adminPassword,
                 certFiles, genome, bootPc, bootKey, freshPassword, kills, cutShort>>

\* No source to publish: nothing is left behind.
HostNothing(r) ==
  /\ bootPc[r] = "serving"
  /\ sourceHost[r] = "check" /\ ~SourceHosted(r)
  /\ sourceHost' = [sourceHost EXCEPT ![r] = "off"]
  /\ UNCHANGED <<disk, genome, bootPc, bootKey, freshPassword, kills, cutShort>>

HostInit(r) ==
  /\ bootPc[r] = "serving"
  /\ sourceHost[r] = "init"
  /\ sysRepo' = [sysRepo EXCEPT ![r]["opd"] = "bare"]
  /\ sourceHost' = [sourceHost EXCEPT ![r] = "seed"]
  /\ UNCHANGED <<keyFile, platformId, sealedStore, cipherHistory, sysRows, adminPassword,
                 certFiles, genome, bootPc, bootKey, freshPassword, kills, cutShort>>

HostSeed(r) ==
  /\ bootPc[r] = "serving"
  /\ sourceHost[r] = "seed"
  /\ sysRepo' = [sysRepo EXCEPT ![r]["opd"] = "full"]
  /\ sourceHost' = [sourceHost EXCEPT ![r] = "done"]
  /\ UNCHANGED <<keyFile, platformId, sealedStore, cipherHistory, sysRows, adminPassword,
                 certFiles, genome, bootPc, bootKey, freshPassword, kills, cutShort>>

-------------------------------------------------------------------------------
(***************************************************************************)
(* seed and germinate.                                                     *)
(***************************************************************************)

\* Variant: the seed bundles sys/gitops with its history.
HistoryRecipients(history) == history

\* The seed's sys/gitops is one orphan commit without the secrets file, so none
\* of the history's ciphertext travels.
SeedRecipients(history) == {}

\* Bundling fails on a repository without a commit.
WriteSeed(r) ==
  /\ bootPc[r] = "serving"
  /\ \A g \in Genome : sysRepo[r][g] = "full"
  /\ genome' = [recipients |-> SeedRecipients(cipherHistory[r])]
  /\ UNCHANGED <<disk, bootPc, bootKey, freshPassword, sourceHost, kills, cutShort>>

\* A root that already hosts a platform is refused before anything is written.
Germinate(r) ==
  /\ bootPc[r] = "down"
  /\ OthersRest(r)
  /\ genome # NoGenome
  /\ ~platformId[r]
  /\ Goto(r, "mint")
  /\ UNCHANGED <<disk, genome, bootKey, freshPassword, sourceHost, kills, cutShort>>

\* Variant: the key is written over whatever is there.
MayOverwriteKey(r) == TRUE

\* saveKeyFile refuses to clobber a sovereign key.
MaySaveKey(r) == keyFile[r] = NoKey

GerminateKey(r) ==
  /\ bootPc[r] = "mint"
  /\ \/ /\ MaySaveKey(r)
        /\ UnusedKeys # {}
        /\ keyFile' = [keyFile EXCEPT ![r] = MintedKey]
        /\ bootKey' = [bootKey EXCEPT ![r] = MintedKey]
        /\ Goto(r, "restoreGitops")
        /\ UNCHANGED <<freshPassword, sourceHost>>
     \/ ~MaySaveKey(r) /\ Gone(r) /\ UNCHANGED keyFile
  /\ UNCHANGED <<platformId, sysRepo, sealedStore, cipherHistory, sysRows, adminPassword,
                 certFiles, genome, kills, cutShort>>

\* restoreFromBundle refuses an existing repository; a root without a key has none.
RestoreRepo(r, g) ==
  /\ bootPc[r] = RestorePc[g]
  /\ sysRepo[r][g] = "absent"
  /\ sysRepo' = [sysRepo EXCEPT ![r][g] = "full"]
  /\ cipherHistory' = [cipherHistory EXCEPT ![r] =
       IF g = "gitops" THEN genome.recipients ELSE @]
  /\ Goto(r, AfterRestore[g])
  /\ UNCHANGED <<keyFile, platformId, sealedStore, sysRows, adminPassword, certFiles, genome,
                 bootKey, freshPassword, sourceHost, kills, cutShort>>

\* Every secret is minted afresh, sealed to the daughter's key and committed.
RegenerateSecrets(r) ==
  /\ bootPc[r] = "regenerate"
  /\ sealedStore' = [sealedStore EXCEPT ![r] =
       [recipient |-> bootKey[r], password |-> Generation(r)]]
  /\ cipherHistory' = [cipherHistory EXCEPT ![r] = @ \cup {bootKey[r]}]
  /\ Goto(r, "lineage")
  /\ UNCHANGED <<keyFile, platformId, sysRepo, sysRows, adminPassword, certFiles, genome,
                 bootKey, freshPassword, sourceHost, kills, cutShort>>

\* The lineage is recorded, and the daughter boots.
RecordLineage(r) ==
  /\ bootPc[r] = "lineage"
  /\ Goto(r, "key")
  /\ UNCHANGED <<disk, genome, bootKey, freshPassword, sourceHost, kills, cutShort>>

-------------------------------------------------------------------------------
\* The process is killed, stopped, or gives up half-way.
Kill(r) ==
  /\ bootPc[r] # "down"
  /\ FoldFunction(+, 0, kills) < MaxKills
  /\ kills' = [kills EXCEPT ![r] = @ + 1]
  /\ Gone(r)
  /\ cutShort' = [cutShort EXCEPT ![r] = @ \/ bootPc[r] \in GenesisWindow]
  /\ UNCHANGED <<disk, genome>>

BootStep(r) ==
  \/ Up(r) \/ LoadKey(r) \/ WriteId(r) \/ WriteRows(r) \/ VerifySealed(r) \/ CreateAdmin(r)
  \/ EnsureCa(r) \/ WriteCert(r) \/ GerminateKey(r) \/ RegenerateSecrets(r) \/ RecordLineage(r)
  \/ \E g \in Genome : InitBareRepo(r, g) \/ SeedRepo(r, g) \/ RestoreRepo(r, g)
  \/ EnginePings(r)

HostStep(r) == HostCheck(r) \/ HostInit(r) \/ HostSeed(r)

GenesisNext ==
  \E r \in Roots :
    \/ BootStep(r) \/ EngineDown(r)
    \/ HostStep(r) \/ HostNothing(r)
    \/ WriteSeed(r) \/ Germinate(r) \/ Kill(r)

GenesisSpec == GenesisInit /\ [][GenesisNext]_genesisVars

-------------------------------------------------------------------------------
(***************************************************************************)
(* Properties.                                                             *)
(***************************************************************************)

\* The key on disk opens the sealed store: no boot, germination or retry of
\* either replaces the only key that decrypts what is committed.
SovereignKeyOpensStore ==
  \A r \in Roots :
    sealedStore[r].recipient # NoKey => sealedStore[r].recipient = keyFile[r]

\* No commit reachable in a platform's sys/gitops carries a value another
\* platform could decrypt, through any chain of seeds and germinations.
NoForeignCiphertext ==
  \A r \in Roots : cipherHistory[r] \subseteq {keyFile[r]}

\* The admin's password can always be read back from the sealed store, also
\* when the boot that generated it was killed before the user existed.
AdminRecoverable ==
  \A r \in Roots : adminPassword[r] # 0 => adminPassword[r] = sealedStore[r].password

\* A gate never serves a leaf certificate with another generation's key or CA.
CertsMatch ==
  \A r \in Roots :
    bootPc[r] \in {"ping", "serving"} =>
      \A f, h \in CertNames : certFiles[r][f] = certFiles[r][h]

\* A platform that serves has its template and its configuration, also when its genesis was
\* cut short before the last of the three; unless a kill fell earlier in it, or while that one
\* was seeded (both are seeded after the repository whose HEAD says that genesis is over).
WholeUnlessCutShort ==
  \A r \in Roots :
    bootPc[r] = "serving" /\ ~cutShort[r] => \A g \in Genome : sysRepo[r][g] = "full"

\* Publishing that says it is done left a plat/opd one can clone.
SourcePublished ==
  \A r \in Roots : sourceHost[r] = "done" => sysRepo[r]["opd"] = "full"

GenesisFairness ==
  \A r \in Roots : WF_genesisVars(BootStep(r)) /\ SF_genesisVars(Up(r))

\* A root whose genesis was not cut short comes back: after any other kill, the
\* supervisor's next boot serves in the end.
Resumes ==
  \A r \in Roots : bootPc[r] = "down" ~> cutShort[r] \/ bootPc[r] = "serving"

\* However boots, seeds and germinations are cut short and repeated: a root's secrets stay
\* its own and readable, its certificates fit, and what says that it is complete is.
GenesisSafe ==
  /\ SovereignKeyOpensStore /\ NoForeignCiphertext /\ AdminRecoverable
  /\ CertsMatch /\ WholeUnlessCutShort /\ SourcePublished
===============================================================================
