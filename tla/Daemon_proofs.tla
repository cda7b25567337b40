---------------------------- MODULE Daemon_proofs -----------------------------
(***************************************************************************)
(* What the daemon's own life promises, proved for any number of roots,    *)
(* keys, commits, deaths and runs: its root from genesis on, its           *)
(* upgrades, its configuration and the runs of its agents.                 *)
(***************************************************************************)
EXTENDS Genesis, SelfUpgrade, PlatformConfig, AgentRun, TLAPS

-------------------------------------------------------------------------------
(***************************************************************************)
(* Genesis. What a process knows follows what is on disk; secrets are      *)
(* sealed to the key that is there, the admin comes last, and a boot that  *)
(* was not cut short has come to where its stage says.                     *)
(***************************************************************************)

\* From when a process knows its key, that is the key on disk.
KeyHeld ==
  \A r \in Roots :
    /\ bootKey[r] \in {NoKey, keyFile[r]}
    /\ bootPc[r] \notin {"down", "key", "mint"} => bootKey[r] # NoKey

Restoring == {"restoreGitops", "restoreTemplate", "restorePlatform"}

\* No seed carries ciphertext, and a germination has one.
GenomeClean ==
  /\ genome # NoGenome => genome.recipients = {}
  /\ \A r \in Roots : bootPc[r] \in {"mint"} \cup Restoring => genome # NoGenome

\* The admin user comes after the platform's identity and its sealed secrets, neither
\* of which goes away; genesis and germination only happen before.
AdminLast ==
  \A r \in Roots :
    /\ bootPc[r] = "initGitops" => sysRepo[r]["gitops"] = "absent"
    /\ bootPc[r] = "seedGitops" => sysRepo[r]["gitops"] = "bare"
    /\ bootPc[r] \in {"mint", "regenerate"} \cup Restoring => ~platformId[r]
    /\ bootPc[r] \in {"initGitops", "seedGitops", "initTemplate", "seedTemplate", "initPlatform",
                       "seedPlatform", "rows", "verify", "admin"} => platformId[r]
    /\ bootPc[r] = "admin" => sysRepo[r]["gitops"] = "full"
    /\ adminPassword[r] # 0 => platformId[r] /\ sysRepo[r]["gitops"] = "full"

\* The files are written in order, so that the last one completes a set.
CertsOrdered ==
  \A r \in Roots :
    /\ bootPc[r] \in {"cert1", "cert2", "cert3", "cert4"} => certFiles[r]["wildcard.key"] = 0
    /\ bootPc[r] \in {"cert2", "cert3", "cert4"} => certFiles[r]["ca.crt"] = Generation(r)
    /\ bootPc[r] \in {"cert3", "cert4"} => certFiles[r]["wildcard.crt"] = Generation(r)
    /\ bootPc[r] = "cert4" => certFiles[r]["ca.key"] = Generation(r)
    /\ bootPc[r] \in {"ping", "serving"} => certFiles[r]["wildcard.key"] # 0
    /\ certFiles[r]["wildcard.key"] # 0 =>
         \A f \in {"ca.crt", "wildcard.crt", "ca.key"} :
           certFiles[r][f] = certFiles[r]["wildcard.key"]

NothingYet(r) == \A g \in Genome : sysRepo[r][g] = "absent"
Whole(r)      == \A g \in Genome : sysRepo[r][g] = "full"

\* The boot seeds the third on its own.
LacksPlatform(r) ==
  /\ sysRepo[r]["gitops"] = "full" /\ sysRepo[r]["template"] = "full"
  /\ sysRepo[r]["platform"] = "absent"

\* Where a genesis or germination that was not cut short has got to.
Stages ==
  \A r \in Roots : ~cutShort[r] =>
    /\ bootPc[r] \in {"down", "key", "id", "mint", "initGitops", "restoreGitops"} =>
         NothingYet(r) \/ LacksPlatform(r) \/ Whole(r)
    /\ bootPc[r] \in {"initTemplate", "seedTemplate", "restoreTemplate", "initPlatform",
                      "seedPlatform", "restorePlatform"} => sysRepo[r]["gitops"] = "full"
    /\ bootPc[r] \in {"initPlatform", "seedPlatform", "restorePlatform"} =>
         sysRepo[r]["template"] = "full"
    /\ bootPc[r] \in {"seedGitops", "initTemplate", "seedTemplate", "initPlatform"} =>
         sysRepo[r]["platform"] = "absent"
    /\ bootPc[r] \in {"regenerate", "lineage", "rows", "verify", "admin", "certs", "ping",
                      "serving", "cert1", "cert2", "cert3", "cert4"} => Whole(r)

SecretsOwn == SovereignKeyOpensStore /\ NoForeignCiphertext /\ AdminRecoverable

GenesisInv ==
  /\ GenesisTypeOK /\ KeyHeld /\ GenomeClean /\ AdminLast /\ CertsOrdered /\ Stages
  /\ SecretsOwn /\ SourcePublished

AllPcs ==
  {"key", "id", "rows", "verify", "admin", "certs", "ping", "initGitops", "initTemplate",
   "initPlatform", "seedGitops", "seedTemplate", "seedPlatform", "cert1", "cert2", "cert3",
   "cert4", "mint", "regenerate", "lineage", "down", "serving"} \cup Restoring

\* The names of the stages, spelled out.
LEMMA StageNames ==
  /\ UpPcs \cup GerminatePcs \cup {"down", "serving"} = AllPcs
  /\ CertNames = {"ca.crt", "wildcard.crt", "ca.key", "wildcard.key"}
  /\ GenesisWindow = {"seedGitops", "seedTemplate", "seedPlatform", "initTemplate",
                      "restoreTemplate", "restorePlatform", "regenerate"}
<1>1. /\ {InitPc[g] : g \in Genome} = {"initGitops", "initTemplate", "initPlatform"}
      /\ InitPc["template"] = "initTemplate"
  BY DEF InitPc, Genome
<1>2. {SeedPc[g] : g \in Genome} = {"seedGitops", "seedTemplate", "seedPlatform"}
  BY DEF SeedPc, Genome
<1>3. /\ {RestorePc[g] : g \in Genome} = {"restoreGitops", "restoreTemplate", "restorePlatform"}
      /\ {RestorePc[g] : g \in Genome \ {"gitops"}} = {"restoreTemplate", "restorePlatform"}
  BY DEF RestorePc, Genome
<1>4. {CertPcs[i] : i \in 1..4} = {"cert1", "cert2", "cert3", "cert4"} BY DEF CertPcs
<1>5. CertNames = {"ca.crt", "wildcard.crt", "ca.key", "wildcard.key"}
  BY DEF CertNames, CertOrder
<1> QED BY <1>1, <1>2, <1>3, <1>4, <1>5 DEF UpPcs, GerminatePcs, AllPcs, Restoring, GenesisWindow

\* A minted key is a key that no root has.
LEMMA MintedIsFresh ==
  ASSUME UnusedKeys # {}
  PROVE  MintedKey \in GKeys /\ MintedKey # NoKey /\ \A r \in Roots : keyFile[r] # MintedKey
<1>1. MintedKey \in UnusedKeys BY DEF MintedKey
<1> QED BY <1>1, GenesisAssumption DEF UnusedKeys

LEMMA GenesisStart == GenesisInit => GenesisInv
<1> SUFFICES ASSUME GenesisInit PROVE GenesisInv OBVIOUS
<1> USE GenesisAssumption DEF GenesisInit
<1>1. GenesisTypeOK
  <2>1. /\ sealedStore \in [Roots -> [recipient : GKeys \cup {NoKey}, password : Nat]]
        /\ genome \in [recipients : SUBSET GKeys] \cup {NoGenome}
    BY DEF NoSecrets, NoGenome
  <2>2. bootPc \in [Roots -> UpPcs \cup GerminatePcs \cup {"down", "serving"}] OBVIOUS
  <2> QED BY <2>1, <2>2 DEF GenesisTypeOK
<1>2. KeyHeld /\ GenomeClean BY DEF KeyHeld, GenomeClean, Restoring
<1>3. AdminLast BY DEF AdminLast, Restoring
<1>4. CertsOrdered BY StageNames DEF CertsOrdered
<1>5. Stages BY DEF Stages, NothingYet, LacksPlatform, Whole, SysRepos, Genome
<1>6. SecretsOwn BY DEF SecretsOwn, SovereignKeyOpensStore, NoForeignCiphertext,
                        AdminRecoverable, NoSecrets
<1>7. SourcePublished BY DEF SourcePublished
<1> QED BY <1>1, <1>2, <1>3, <1>4, <1>5, <1>6, <1>7 DEF GenesisInv

\* Where a process goes keeps the stages well-typed.
LEMMA GotoTypes ==
  ASSUME GenesisTypeOK, NEW r \in Roots, NEW pc \in AllPcs, Goto(r, pc)
  PROVE  bootPc' \in [Roots -> UpPcs \cup GerminatePcs \cup {"down", "serving"}]
BY StageNames DEF GenesisTypeOK, Goto

LEMMA GoneTypes ==
  ASSUME GenesisTypeOK, NEW r \in Roots, Gone(r)
  PROVE  /\ bootPc' \in [Roots -> UpPcs \cup GerminatePcs \cup {"down", "serving"}]
         /\ bootKey' \in [Roots -> GKeys \cup {NoKey}]
         /\ freshPassword' \in [Roots -> Nat]
         /\ sourceHost' \in [Roots -> {"off", "check", "init", "seed", "done"}]
<1>1. "down" \in AllPcs BY DEF AllPcs
<1>2. bootPc' \in [Roots -> UpPcs \cup GerminatePcs \cup {"down", "serving"}]
  BY <1>1, GotoTypes DEF Gone
<1> QED BY <1>2 DEF GenesisTypeOK, Gone

\* The end of a process, on its own or by a kill, leaves a state the next boot can start from.
LEMMA GoneKeepsGenesis ==
  ASSUME GenesisInv, NEW r \in Roots, Gone(r), UNCHANGED <<disk, genome>>,
         kills' \in [Roots -> Nat], \A q \in Roots \ {r} : kills'[q] = kills[q],
         cutShort' \in [Roots -> BOOLEAN], \A q \in Roots \ {r} : cutShort'[q] = cutShort[q],
         cutShort[r] => cutShort'[r],
         bootPc[r] \in GenesisWindow => cutShort'[r]
  PROVE  GenesisInv'
<1> USE DEF GenesisInv, GenesisTypeOK, disk
<1>1. GenesisTypeOK' BY GoneTypes
<1> USE DEF Gone, Goto
<1>2. KeyHeld' /\ GenomeClean' BY DEF KeyHeld, GenomeClean, Restoring
<1>3. AdminLast' BY DEF AdminLast, Restoring
<1>4. CertsOrdered'
  <2> SUFFICES ASSUME NEW q \in Roots PROVE CertsOrdered!(q)' BY DEF CertsOrdered
  <2> QED BY DEF CertsOrdered, Generation
<1>5. Stages'
  <2>1. bootPc[r] \notin GenesisWindow /\ ~cutShort[r] => NothingYet(r) \/ LacksPlatform(r) \/ Whole(r)
    BY StageNames DEF Stages, AllPcs, Restoring, NothingYet, LacksPlatform, Whole
  <2> QED BY <2>1 DEF Stages, NothingYet, LacksPlatform, Whole
<1>6. SecretsOwn' /\ SourcePublished'
  BY DEF SecretsOwn, SovereignKeyOpensStore, NoForeignCiphertext, AdminRecoverable, SourcePublished
<1> QED BY <1>1, <1>2, <1>3, <1>4, <1>5, <1>6

LEMMA UpKeepsGenesis == ASSUME GenesisInv, NEW r \in Roots, Up(r) PROVE GenesisInv'
<1> USE GenesisAssumption, StageNames, MintedIsFresh DEF GenesisInv, GenesisTypeOK, AllPcs, Up, Goto, disk
<1>1. GenesisTypeOK' OBVIOUS
<1>2. KeyHeld' BY DEF KeyHeld
<1>3. GenomeClean' BY DEF GenomeClean, Restoring
<1>4. AdminLast' BY DEF AdminLast, Restoring
<1>5. CertsOrdered' BY DEF CertsOrdered, Generation
<1>6. Stages' BY DEF Stages, NothingYet, LacksPlatform, Whole, Genome
<1>7. SecretsOwn' BY DEF SecretsOwn, SovereignKeyOpensStore, NoForeignCiphertext, AdminRecoverable
<1>8. SourcePublished' BY DEF SourcePublished
<1> QED BY <1>1, <1>2, <1>3, <1>4, <1>5, <1>6, <1>7, <1>8

LEMMA LoadKeyKeepsGenesis == ASSUME GenesisInv, NEW r \in Roots, LoadKey(r) PROVE GenesisInv'
<1>1. PICK k \in GKeys :
        /\ bootPc[r] = "key" /\ k # NoKey
        /\ keyFile' = [keyFile EXCEPT ![r] = k] /\ bootKey' = [bootKey EXCEPT ![r] = k]
        /\ keyFile[r] \in {NoKey, k}
  <2>1. CASE keyFile[r] # NoKey
    <3>1. keyFile[r] \in GKeys /\ [keyFile EXCEPT ![r] = keyFile[r]] = keyFile
      BY <2>1 DEF GenesisInv, GenesisTypeOK
    <3> QED BY <2>1, <3>1 DEF LoadKey
  <2>2. CASE keyFile[r] = NoKey BY <2>2, MintedIsFresh DEF LoadKey
  <2> QED BY <2>1, <2>2
<1>2. Goto(r, "id") /\ UNCHANGED <<platformId, sysRepo, sealedStore, cipherHistory, sysRows,
        adminPassword, certFiles, genome, freshPassword, sourceHost, kills, cutShort>>
  BY DEF LoadKey
<1> USE DEF GenesisInv, GenesisTypeOK
<1>3. GenesisTypeOK'
  <2>1. bootPc' \in [Roots -> UpPcs \cup GerminatePcs \cup {"down", "serving"}]
    BY <1>2, GotoTypes DEF AllPcs
  <2> QED BY <1>1, <1>2, <2>1
<1> USE DEF Goto
<1>4. KeyHeld' BY <1>1, <1>2, GenesisAssumption DEF KeyHeld
<1>5. GenomeClean' /\ AdminLast' BY <1>1, <1>2 DEF GenomeClean, AdminLast, Restoring
<1>6. CertsOrdered' BY <1>1, <1>2 DEF CertsOrdered, Generation
<1>7. Stages' BY <1>1, <1>2 DEF Stages, NothingYet, LacksPlatform, Whole
<1>8. SecretsOwn'
  <2>1. SovereignKeyOpensStore' /\ AdminRecoverable'
    BY <1>1, <1>2 DEF SecretsOwn, SovereignKeyOpensStore, AdminRecoverable
  <2>2. NoForeignCiphertext'
    <3>1. keyFile[r] = NoKey => cipherHistory[r] = {}
      BY GenesisAssumption DEF SecretsOwn, NoForeignCiphertext
    <3> QED BY <1>1, <1>2, <3>1 DEF SecretsOwn, NoForeignCiphertext
  <2> QED BY <2>1, <2>2 DEF SecretsOwn
<1>9. SourcePublished' BY <1>1, <1>2 DEF SourcePublished
<1> QED BY <1>3, <1>4, <1>5, <1>6, <1>7, <1>8, <1>9

LEMMA WriteIdKeepsGenesis == ASSUME GenesisInv, NEW r \in Roots, WriteId(r) PROVE GenesisInv'
<1> USE DEF GenesisInv, GenesisTypeOK
<1>1. PICK pc \in {"initGitops", "initPlatform", "rows"} :
        /\ Goto(r, pc) /\ bootPc[r] = "id"
        /\ pc = "initGitops" => sysRepo[r]["gitops"] = "absent"
        /\ pc # "initGitops" => sysRepo[r]["gitops"] # "absent"
        /\ pc = "rows" => sysRepo[r]["platform"] # "absent"
        /\ pc = "initPlatform" => sysRepo[r]["platform"] = "absent"
  BY DEF WriteId, IsGenesis
<1>2. /\ platformId' = [platformId EXCEPT ![r] = TRUE]
      /\ UNCHANGED <<keyFile, sysRepo, sealedStore, cipherHistory, sysRows, adminPassword,
                     certFiles, genome, bootKey, sourceHost, kills, cutShort>>
  BY DEF WriteId
<1>3. GenesisTypeOK'
  <2>1. bootPc' \in [Roots -> UpPcs \cup GerminatePcs \cup {"down", "serving"}]
    BY <1>1, GotoTypes DEF AllPcs
  <2>2. CASE freshPassword' = [freshPassword EXCEPT ![r] = kills[r] + 1]
    BY <1>2, <2>1, <2>2
  <2>3. CASE UNCHANGED freshPassword BY <1>2, <2>1, <2>3
  <2> QED BY <2>2, <2>3 DEF WriteId, Generation
<1> USE <1>1, <1>2 DEF Goto
<1>4. KeyHeld' /\ GenomeClean' BY DEF KeyHeld, GenomeClean, Restoring
<1>5. AdminLast' BY DEF AdminLast, Restoring
<1>6. CertsOrdered' BY DEF CertsOrdered, Generation
<1>7. Stages' BY DEF Stages, NothingYet, LacksPlatform, Whole, Genome
<1>8. SecretsOwn' /\ SourcePublished'
  BY DEF SecretsOwn, SovereignKeyOpensStore, NoForeignCiphertext, AdminRecoverable, SourcePublished
<1> QED BY <1>3, <1>4, <1>5, <1>6, <1>7, <1>8

LEMMA WriteRowsKeepsGenesis == ASSUME GenesisInv, NEW r \in Roots, WriteRows(r) PROVE GenesisInv'
<1> USE GenesisAssumption, StageNames, MintedIsFresh DEF GenesisInv, GenesisTypeOK, AllPcs, WriteRows, Goto, disk, Genome, SysRepos
<1>1. GenesisTypeOK' OBVIOUS
<1>2. KeyHeld' BY DEF KeyHeld
<1>3. GenomeClean' BY DEF GenomeClean, Restoring
<1>4. AdminLast' BY DEF AdminLast, Restoring
<1>5. CertsOrdered' BY DEF CertsOrdered, Generation
<1>6. Stages' BY DEF Stages, NothingYet, LacksPlatform, Whole, Genome
<1>7. SecretsOwn' BY DEF SecretsOwn, SovereignKeyOpensStore, NoForeignCiphertext, AdminRecoverable
<1>8. SourcePublished' BY DEF SourcePublished
<1> QED BY <1>1, <1>2, <1>3, <1>4, <1>5, <1>6, <1>7, <1>8

LEMMA VerifySealedKeepsGenesis == ASSUME GenesisInv, NEW r \in Roots, VerifySealed(r) PROVE GenesisInv'
<1> USE DEF GenesisInv
<1>1. UNCHANGED <<disk, genome, kills, cutShort>> BY DEF VerifySealed
<1>2. CASE Gone(r)
  <2>1. bootPc[r] \notin GenesisWindow BY StageNames DEF VerifySealed
  <2> QED BY <1>1, <1>2, <2>1, GoneKeepsGenesis DEF GenesisTypeOK
<1>3. CASE ~Gone(r)
  <2>1. /\ bootPc[r] = "verify" /\ Goto(r, "admin") /\ sysRepo[r]["gitops"] = "full"
        /\ UNCHANGED <<bootKey, freshPassword, sourceHost>>
    BY <1>3 DEF VerifySealed, AllSealedToUs
  <2>2. GenesisTypeOK'
    <3>1. bootPc' \in [Roots -> UpPcs \cup GerminatePcs \cup {"down", "serving"}]
      BY <2>1, GotoTypes DEF AllPcs
    <3> QED BY <1>1, <2>1, <3>1 DEF GenesisTypeOK, disk
  <2> USE <1>1, <2>1 DEF Goto, disk, GenesisTypeOK
  <2>3. KeyHeld' /\ GenomeClean' BY DEF KeyHeld, GenomeClean, Restoring
  <2>4. AdminLast' BY DEF AdminLast, Restoring
  <2>5. CertsOrdered' BY DEF CertsOrdered, Generation
  <2>6. Stages' BY DEF Stages, NothingYet, LacksPlatform, Whole
  <2>7. SecretsOwn' /\ SourcePublished'
    BY DEF SecretsOwn, SovereignKeyOpensStore, NoForeignCiphertext, AdminRecoverable, SourcePublished
  <2> QED BY <2>2, <2>3, <2>4, <2>5, <2>6, <2>7
<1> QED BY <1>2, <1>3

LEMMA CreateAdminKeepsGenesis == ASSUME GenesisInv, NEW r \in Roots, CreateAdmin(r) PROVE GenesisInv'
<1> USE GenesisAssumption, StageNames, MintedIsFresh DEF GenesisInv, GenesisTypeOK, AllPcs, CreateAdmin, Goto, disk, SealedPassword
<1>1. GenesisTypeOK' OBVIOUS
<1>2. KeyHeld' BY DEF KeyHeld
<1>3. GenomeClean' BY DEF GenomeClean, Restoring
<1>4. AdminLast' BY DEF AdminLast, Restoring
<1>5. CertsOrdered' BY DEF CertsOrdered, Generation
<1>6. Stages' BY DEF Stages, NothingYet, LacksPlatform, Whole, Genome
<1>7. SecretsOwn' BY DEF SecretsOwn, SovereignKeyOpensStore, NoForeignCiphertext, AdminRecoverable
<1>8. SourcePublished' BY DEF SourcePublished
<1> QED BY <1>1, <1>2, <1>3, <1>4, <1>5, <1>6, <1>7, <1>8

LEMMA EnsureCaKeepsGenesis == ASSUME GenesisInv, NEW r \in Roots, EnsureCa(r) PROVE GenesisInv'
<1> USE GenesisAssumption, StageNames, MintedIsFresh DEF GenesisInv, GenesisTypeOK, AllPcs, EnsureCa, Goto, disk, CertsPresent
<1>1. GenesisTypeOK' OBVIOUS
<1>2. KeyHeld' BY DEF KeyHeld
<1>3. GenomeClean' BY DEF GenomeClean, Restoring
<1>4. AdminLast' BY DEF AdminLast, Restoring
<1>5. CertsOrdered' BY DEF CertsOrdered, Generation
<1>6. Stages' BY DEF Stages, NothingYet, LacksPlatform, Whole, Genome
<1>7. SecretsOwn' BY DEF SecretsOwn, SovereignKeyOpensStore, NoForeignCiphertext, AdminRecoverable
<1>8. SourcePublished' BY DEF SourcePublished
<1> QED BY <1>1, <1>2, <1>3, <1>4, <1>5, <1>6, <1>7, <1>8

LEMMA WriteCertKeepsGenesis == ASSUME GenesisInv, NEW r \in Roots, WriteCert(r) PROVE GenesisInv'
<1> USE DEF GenesisInv, GenesisTypeOK
<1>1. PICK i \in 1..4 :
        /\ bootPc[r] = CertPcs[i]
        /\ certFiles' = [certFiles EXCEPT ![r][CertOrder[i]] = Generation(r)]
        /\ Goto(r, IF i = 4 THEN "ping" ELSE CertPcs[i + 1])
        /\ UNCHANGED <<keyFile, platformId, sysRepo, sealedStore, cipherHistory, sysRows,
                       adminPassword, genome, bootKey, freshPassword, sourceHost, kills, cutShort>>
  BY DEF WriteCert
<1>2. PICK f \in CertNames, pc \in AllPcs :
        /\ certFiles' = [certFiles EXCEPT ![r] = [certFiles[r] EXCEPT ![f] = kills[r] + 1]]
        /\ Goto(r, pc)
        /\ \/ bootPc[r] = "cert1" /\ f = "ca.crt" /\ pc = "cert2"
           \/ bootPc[r] = "cert2" /\ f = "wildcard.crt" /\ pc = "cert3"
           \/ bootPc[r] = "cert3" /\ f = "ca.key" /\ pc = "cert4"
           \/ bootPc[r] = "cert4" /\ f = "wildcard.key" /\ pc = "ping"
  <2>5. i = 1 \/ i = 2 \/ i = 3 \/ i = 4 OBVIOUS
  <2> USE <1>1, StageNames DEF CertPcs, CertOrder, AllPcs, Generation
  <2>1. CASE i = 1 BY <2>1
  <2>2. CASE i = 2 BY <2>2
  <2>3. CASE i = 3 BY <2>3
  <2>4. CASE i = 4 BY <2>4
  <2> QED BY <2>1, <2>2, <2>3, <2>4, <2>5
<1>3. GenesisTypeOK'
  <2>1. certFiles' \in [Roots -> [CertNames -> Nat]] BY <1>2
  <2>2. bootPc' \in [Roots -> UpPcs \cup GerminatePcs \cup {"down", "serving"}]
    BY <1>2, GotoTypes
  <2> QED BY <1>1, <2>1, <2>2
<1>4. UNCHANGED <<keyFile, platformId, sysRepo, sealedStore, cipherHistory, sysRows, adminPassword,
                  genome, bootKey, freshPassword, sourceHost, kills, cutShort>>
  BY <1>1
<1> USE <1>2, <1>4 DEF Goto
<1>5. KeyHeld' /\ GenomeClean' BY DEF KeyHeld, GenomeClean, Restoring
<1>6. AdminLast' BY DEF AdminLast, Restoring
<1>7. CertsOrdered' BY StageNames DEF CertsOrdered, Generation
<1>8. Stages' BY DEF Stages, NothingYet, LacksPlatform, Whole
<1>9. SecretsOwn' /\ SourcePublished'
  BY DEF SecretsOwn, SovereignKeyOpensStore, NoForeignCiphertext, AdminRecoverable, SourcePublished
<1> QED BY <1>3, <1>5, <1>6, <1>7, <1>8, <1>9

LEMMA EnginePingsKeepsGenesis == ASSUME GenesisInv, NEW r \in Roots, EnginePings(r) PROVE GenesisInv'
<1> USE GenesisAssumption, StageNames, MintedIsFresh DEF GenesisInv, GenesisTypeOK, AllPcs, EnginePings, Goto, disk
<1>1. GenesisTypeOK' OBVIOUS
<1>2. KeyHeld' BY DEF KeyHeld
<1>3. GenomeClean' BY DEF GenomeClean, Restoring
<1>4. AdminLast' BY DEF AdminLast, Restoring
<1>5. CertsOrdered' BY DEF CertsOrdered, Generation
<1>6. Stages' BY DEF Stages, NothingYet, LacksPlatform, Whole, Genome
<1>7. SecretsOwn' BY DEF SecretsOwn, SovereignKeyOpensStore, NoForeignCiphertext, AdminRecoverable
<1>8. SourcePublished' BY DEF SourcePublished
<1> QED BY <1>1, <1>2, <1>3, <1>4, <1>5, <1>6, <1>7, <1>8

LEMMA EngineDownKeepsGenesis == ASSUME GenesisInv, NEW r \in Roots, EngineDown(r) PROVE GenesisInv'
<1>1. bootPc[r] = "ping" /\ Gone(r) /\ UNCHANGED <<disk, genome, cutShort>> BY DEF EngineDown
<1>2. kills' = [kills EXCEPT ![r] = kills[r] + 1] BY DEF EngineDown
<1>3. kills' \in [Roots -> Nat] BY <1>2 DEF GenesisInv, GenesisTypeOK
<1>4. bootPc[r] \notin GenesisWindow BY <1>1, StageNames
<1> QED BY <1>1, <1>2, <1>3, <1>4, GoneKeepsGenesis DEF GenesisInv, GenesisTypeOK

LEMMA HostCheckKeepsGenesis == ASSUME GenesisInv, NEW r \in Roots, HostCheck(r) PROVE GenesisInv'
<1> USE DEF GenesisInv, GenesisTypeOK
<1>1. PICK rows \in SUBSET SysRepos, step \in {"done", "seed", "init"} :
        /\ sysRows' = [sysRows EXCEPT ![r] = rows] /\ sourceHost' = [sourceHost EXCEPT ![r] = step]
        /\ step = "done" => sysRepo[r]["opd"] = "full"
  <2>1. CASE SourceHosted(r)
    <3>1. sysRows = [sysRows EXCEPT ![r] = sysRows[r]] OBVIOUS
    <3> QED BY <2>1, <3>1 DEF HostCheck, SourceHosted
  <2>2. CASE ~SourceHosted(r) BY <2>2 DEF HostCheck, SysRepos
  <2> QED BY <2>1, <2>2
<1>2. UNCHANGED <<keyFile, platformId, sysRepo, sealedStore, cipherHistory, adminPassword,
                  certFiles, genome, bootPc, bootKey, freshPassword, kills, cutShort>>
  BY DEF HostCheck
<1>3. GenesisTypeOK' BY <1>1, <1>2
<1>4. SourcePublished' BY <1>1, <1>2 DEF SourcePublished
<1>5. KeyHeld' /\ GenomeClean' /\ AdminLast' BY <1>2 DEF KeyHeld, GenomeClean, AdminLast, Restoring
<1>6. CertsOrdered' /\ Stages' BY <1>2 DEF CertsOrdered, Generation, Stages, NothingYet, LacksPlatform, Whole
<1>7. SecretsOwn'
  BY <1>2 DEF SecretsOwn, SovereignKeyOpensStore, NoForeignCiphertext, AdminRecoverable
<1> QED BY <1>3, <1>4, <1>5, <1>6, <1>7

LEMMA HostNothingKeepsGenesis == ASSUME GenesisInv, NEW r \in Roots, HostNothing(r) PROVE GenesisInv'
<1> USE GenesisAssumption, StageNames, MintedIsFresh DEF GenesisInv, GenesisTypeOK, AllPcs, HostNothing, Goto, disk
<1>1. GenesisTypeOK' OBVIOUS
<1>2. KeyHeld' BY DEF KeyHeld
<1>3. GenomeClean' BY DEF GenomeClean, Restoring
<1>4. AdminLast' BY DEF AdminLast, Restoring
<1>5. CertsOrdered' BY DEF CertsOrdered, Generation
<1>6. Stages' BY DEF Stages, NothingYet, LacksPlatform, Whole, Genome
<1>7. SecretsOwn' BY DEF SecretsOwn, SovereignKeyOpensStore, NoForeignCiphertext, AdminRecoverable
<1>8. SourcePublished' BY DEF SourcePublished
<1> QED BY <1>1, <1>2, <1>3, <1>4, <1>5, <1>6, <1>7, <1>8

LEMMA HostInitKeepsGenesis == ASSUME GenesisInv, NEW r \in Roots, HostInit(r) PROVE GenesisInv'
<1> USE GenesisAssumption, StageNames, MintedIsFresh DEF GenesisInv, GenesisTypeOK, AllPcs, HostInit, Goto, disk
<1>1. GenesisTypeOK' OBVIOUS
<1>2. KeyHeld' BY DEF KeyHeld
<1>3. GenomeClean' BY DEF GenomeClean, Restoring
<1>4. AdminLast' BY DEF AdminLast, Restoring
<1>5. CertsOrdered' BY DEF CertsOrdered, Generation
<1>6. Stages' BY DEF Stages, NothingYet, LacksPlatform, Whole, Genome
<1>7. SecretsOwn' BY DEF SecretsOwn, SovereignKeyOpensStore, NoForeignCiphertext, AdminRecoverable
<1>8. SourcePublished' BY DEF SourcePublished
<1> QED BY <1>1, <1>2, <1>3, <1>4, <1>5, <1>6, <1>7, <1>8

LEMMA HostSeedKeepsGenesis == ASSUME GenesisInv, NEW r \in Roots, HostSeed(r) PROVE GenesisInv'
<1> USE GenesisAssumption, StageNames, MintedIsFresh DEF GenesisInv, GenesisTypeOK, AllPcs, HostSeed, Goto, disk
<1>1. GenesisTypeOK' OBVIOUS
<1>2. KeyHeld' BY DEF KeyHeld
<1>3. GenomeClean' BY DEF GenomeClean, Restoring
<1>4. AdminLast' BY DEF AdminLast, Restoring
<1>5. CertsOrdered' BY DEF CertsOrdered, Generation
<1>6. Stages' BY DEF Stages, NothingYet, LacksPlatform, Whole, Genome
<1>7. SecretsOwn' BY DEF SecretsOwn, SovereignKeyOpensStore, NoForeignCiphertext, AdminRecoverable
<1>8. SourcePublished' BY DEF SourcePublished, SysRepos
<1> QED BY <1>1, <1>2, <1>3, <1>4, <1>5, <1>6, <1>7, <1>8

LEMMA WriteSeedKeepsGenesis == ASSUME GenesisInv, NEW r \in Roots, WriteSeed(r) PROVE GenesisInv'
<1> USE GenesisAssumption, StageNames, MintedIsFresh DEF GenesisInv, GenesisTypeOK, AllPcs, WriteSeed, Goto, disk, SeedRecipients
<1>1. GenesisTypeOK' OBVIOUS
<1>2. KeyHeld' BY DEF KeyHeld
<1>3. GenomeClean' BY DEF GenomeClean, Restoring
<1>4. AdminLast' BY DEF AdminLast, Restoring
<1>5. CertsOrdered' BY DEF CertsOrdered, Generation
<1>6. Stages' BY DEF Stages, NothingYet, LacksPlatform, Whole, Genome
<1>7. SecretsOwn' BY DEF SecretsOwn, SovereignKeyOpensStore, NoForeignCiphertext, AdminRecoverable
<1>8. SourcePublished' BY DEF SourcePublished
<1> QED BY <1>1, <1>2, <1>3, <1>4, <1>5, <1>6, <1>7, <1>8

LEMMA GerminateKeepsGenesis == ASSUME GenesisInv, NEW r \in Roots, Germinate(r) PROVE GenesisInv'
<1> USE GenesisAssumption, StageNames, MintedIsFresh DEF GenesisInv, GenesisTypeOK, AllPcs, Germinate, Goto, disk
<1>1. GenesisTypeOK' OBVIOUS
<1>2. KeyHeld' BY DEF KeyHeld
<1>3. GenomeClean' BY DEF GenomeClean, Restoring
<1>4. AdminLast' BY DEF AdminLast, Restoring
<1>5. CertsOrdered' BY DEF CertsOrdered, Generation
<1>6. Stages' BY DEF Stages, NothingYet, LacksPlatform, Whole, Genome
<1>7. SecretsOwn' BY DEF SecretsOwn, SovereignKeyOpensStore, NoForeignCiphertext, AdminRecoverable
<1>8. SourcePublished' BY DEF SourcePublished
<1> QED BY <1>1, <1>2, <1>3, <1>4, <1>5, <1>6, <1>7, <1>8

LEMMA GerminateKeyKeepsGenesis == ASSUME GenesisInv, NEW r \in Roots, GerminateKey(r) PROVE GenesisInv'
<1> USE DEF GenesisInv
<1>1. /\ bootPc[r] = "mint" /\ UNCHANGED <<platformId, sysRepo, sealedStore, cipherHistory,
          sysRows, adminPassword, certFiles, genome, kills, cutShort>>
  BY DEF GerminateKey
<1>2. CASE Gone(r) /\ UNCHANGED keyFile
  BY <1>1, <1>2, StageNames, GoneKeepsGenesis DEF GenesisTypeOK, disk
<1>3. CASE ~(Gone(r) /\ UNCHANGED keyFile)
  <2>1. PICK k \in GKeys :
          /\ keyFile[r] = NoKey /\ k # NoKey
          /\ keyFile' = [keyFile EXCEPT ![r] = k] /\ bootKey' = [bootKey EXCEPT ![r] = k]
          /\ Goto(r, "restoreGitops") /\ UNCHANGED <<freshPassword, sourceHost>>
    BY <1>3, MintedIsFresh DEF GerminateKey, MaySaveKey
  <2> USE DEF GenesisTypeOK
  <2>2. GenesisTypeOK'
    <3>1. bootPc' \in [Roots -> UpPcs \cup GerminatePcs \cup {"down", "serving"}]
      BY <2>1, GotoTypes DEF AllPcs, Restoring
    <3> QED BY <1>1, <2>1, <3>1
  <2>3. KeyHeld' BY <1>1, <2>1, GenesisAssumption DEF KeyHeld, Goto
  <2>4. GenomeClean' /\ AdminLast' BY <1>1, <2>1 DEF GenomeClean, AdminLast, Restoring, Goto
  <2>5. CertsOrdered' BY <1>1, <2>1 DEF CertsOrdered, Generation, Goto
  <2>6. Stages' BY <1>1, <2>1 DEF Stages, NothingYet, LacksPlatform, Whole, Goto
  <2>7. SecretsOwn'
    <3>1. cipherHistory[r] = {} BY <2>1, GenesisAssumption DEF SecretsOwn, NoForeignCiphertext
    <3>2. NoForeignCiphertext' BY <1>1, <2>1, <3>1 DEF SecretsOwn, NoForeignCiphertext
    <3> QED BY <1>1, <2>1, <3>2 DEF SecretsOwn, SovereignKeyOpensStore, AdminRecoverable
  <2>8. SourcePublished' BY <1>1, <2>1 DEF SourcePublished
  <2> QED BY <2>2, <2>3, <2>4, <2>5, <2>6, <2>7, <2>8
<1> QED BY <1>2, <1>3

LEMMA RegenerateSecretsKeepsGenesis ==
  ASSUME GenesisInv, NEW r \in Roots, RegenerateSecrets(r) PROVE GenesisInv'
<1> USE DEF GenesisInv, GenesisTypeOK
<1>1. bootPc[r] = "regenerate" /\ bootKey[r] = keyFile[r] /\ bootKey[r] \in GKeys
  BY DEF RegenerateSecrets, KeyHeld
<1>2. adminPassword[r] = 0 BY <1>1 DEF AdminLast, Restoring
<1>3. /\ sealedStore' = [sealedStore EXCEPT ![r] = [recipient |-> keyFile[r], password |-> kills[r] + 1]]
      /\ cipherHistory' = [cipherHistory EXCEPT ![r] = cipherHistory[r] \cup {keyFile[r]}]
      /\ Goto(r, "lineage")
      /\ UNCHANGED <<keyFile, platformId, sysRepo, sysRows, adminPassword, certFiles, genome,
                     bootKey, freshPassword, sourceHost, kills, cutShort>>
  BY <1>1 DEF RegenerateSecrets, Generation
<1>4. GenesisTypeOK'
  <2>1. sealedStore' \in [Roots -> [recipient : GKeys \cup {NoKey}, password : Nat]] BY <1>1, <1>3
  <2>2. cipherHistory' \in [Roots -> SUBSET GKeys] BY <1>1, <1>3
  <2>3. bootPc' \in [Roots -> UpPcs \cup GerminatePcs \cup {"down", "serving"}]
    BY <1>3, GotoTypes DEF AllPcs
  <2> QED BY <1>3, <2>1, <2>2, <2>3
<1> USE <1>3 DEF Goto
<1>5. KeyHeld' /\ GenomeClean' BY <1>1 DEF KeyHeld, GenomeClean, Restoring
<1>6. AdminLast' /\ CertsOrdered' BY <1>1 DEF AdminLast, Restoring, CertsOrdered, Generation
<1>7. Stages' BY <1>1 DEF Stages, NothingYet, LacksPlatform, Whole
<1>8. SecretsOwn'
  <2>1. SovereignKeyOpensStore' BY <1>1 DEF SecretsOwn, SovereignKeyOpensStore
  <2>2. NoForeignCiphertext' BY <1>1 DEF SecretsOwn, NoForeignCiphertext
  <2>3. AdminRecoverable' BY <1>2 DEF SecretsOwn, AdminRecoverable
  <2> QED BY <2>1, <2>2, <2>3 DEF SecretsOwn
<1>9. SourcePublished' BY DEF SourcePublished
<1> QED BY <1>4, <1>5, <1>6, <1>7, <1>8, <1>9

LEMMA RecordLineageKeepsGenesis == ASSUME GenesisInv, NEW r \in Roots, RecordLineage(r) PROVE GenesisInv'
<1> USE GenesisAssumption, StageNames, MintedIsFresh DEF GenesisInv, GenesisTypeOK, AllPcs, RecordLineage, Goto, disk
<1>1. GenesisTypeOK' OBVIOUS
<1>2. KeyHeld' BY DEF KeyHeld
<1>3. GenomeClean' BY DEF GenomeClean, Restoring
<1>4. AdminLast' BY DEF AdminLast, Restoring
<1>5. CertsOrdered' BY DEF CertsOrdered, Generation
<1>6. Stages' BY DEF Stages, NothingYet, LacksPlatform, Whole, Genome
<1>7. SecretsOwn' BY DEF SecretsOwn, SovereignKeyOpensStore, NoForeignCiphertext, AdminRecoverable
<1>8. SourcePublished' BY DEF SourcePublished
<1> QED BY <1>1, <1>2, <1>3, <1>4, <1>5, <1>6, <1>7, <1>8

LEMMA KillKeepsGenesis == ASSUME GenesisInv, NEW r \in Roots, Kill(r) PROVE GenesisInv'
<1>1. /\ Gone(r) /\ UNCHANGED <<disk, genome>>
      /\ kills' = [kills EXCEPT ![r] = kills[r] + 1]
      /\ cutShort' = [cutShort EXCEPT ![r] = cutShort[r] \/ bootPc[r] \in GenesisWindow]
  BY DEF Kill
<1>2. kills' \in [Roots -> Nat] BY <1>1 DEF GenesisInv, GenesisTypeOK
<1>3. cutShort' \in [Roots -> BOOLEAN] BY <1>1 DEF GenesisInv, GenesisTypeOK
<1> QED BY <1>1, <1>2, <1>3, GoneKeepsGenesis DEF GenesisInv, GenesisTypeOK

LEMMA InitBareRepoKeepsGenesis ==
  ASSUME GenesisInv, NEW r \in Roots, NEW g \in Genome, InitBareRepo(r, g) PROVE GenesisInv'
<1> USE GenesisAssumption, StageNames DEF GenesisInv, GenesisTypeOK, AllPcs, InitBareRepo, Goto, InitPc, SeedPc, SysRepos, Genome
<1>1. GenesisTypeOK' OBVIOUS
<1>2. KeyHeld' BY DEF KeyHeld
<1>3. GenomeClean' BY DEF GenomeClean, Restoring
<1>4. AdminLast' BY DEF AdminLast, Restoring
<1>5. CertsOrdered' BY DEF CertsOrdered, Generation
<1>6. Stages'
  <2>1. CASE g = "gitops"
    <3>1. ~cutShort[r] => NothingYet(r) BY <2>1 DEF Stages, AdminLast, NothingYet, LacksPlatform, Whole
    <3> QED BY <2>1, <3>1 DEF Stages, NothingYet, LacksPlatform, Whole
  <2>2. CASE g = "template" BY <2>2 DEF Stages, NothingYet, LacksPlatform, Whole
  <2>3. CASE g = "platform" BY <2>3 DEF Stages, NothingYet, LacksPlatform, Whole
  <2> QED BY <2>1, <2>2, <2>3
<1>7. SecretsOwn' BY DEF SecretsOwn, SovereignKeyOpensStore, NoForeignCiphertext, AdminRecoverable
<1>8. SourcePublished' BY DEF SourcePublished
<1> QED BY <1>1, <1>2, <1>3, <1>4, <1>5, <1>6, <1>7, <1>8

LEMMA SeedRepoKeepsGenesis ==
  ASSUME GenesisInv, NEW r \in Roots, NEW g \in Genome, SeedRepo(r, g) PROVE GenesisInv'
<1> USE DEF GenesisInv, GenesisTypeOK
<1>1. PICK pc \in AllPcs :
        /\ Goto(r, pc)
        /\ \/ g = "gitops" /\ bootPc[r] = "seedGitops" /\ pc = "initTemplate"
           \/ g = "template" /\ bootPc[r] = "seedTemplate" /\ pc = "initPlatform"
           \/ g = "platform" /\ bootPc[r] = "seedPlatform" /\ pc = "rows"
  BY DEF SeedRepo, Genome, SeedPc, AfterSeed, AllPcs
<1>2. /\ sysRepo' = [sysRepo EXCEPT ![r] = [sysRepo[r] EXCEPT ![g] = "full"]]
      /\ UNCHANGED <<keyFile, platformId, sysRows, adminPassword, certFiles, genome, bootKey,
                     freshPassword, sourceHost, kills, cutShort>>
      /\ g # "gitops" => UNCHANGED <<sealedStore, cipherHistory>>
  BY DEF SeedRepo
<1>3. bootKey[r] = keyFile[r] /\ bootKey[r] \in GKeys BY <1>1 DEF KeyHeld
<1>4. g = "gitops" =>
        /\ sealedStore' = [sealedStore EXCEPT ![r] = [recipient |-> keyFile[r], password |-> freshPassword[r]]]
        /\ cipherHistory' = [cipherHistory EXCEPT ![r] = cipherHistory[r] \cup {keyFile[r]}]
        /\ adminPassword[r] = 0
  <2>1. g = "gitops" => adminPassword[r] = 0 BY <1>1 DEF AdminLast
  <2> QED BY <1>3, <2>1 DEF SeedRepo
<1>5. GenesisTypeOK'
  <2>1. sysRepo' \in [Roots -> [SysRepos -> {"absent", "bare", "full"}]]
    BY <1>2 DEF SysRepos
  <2>2. bootPc' \in [Roots -> UpPcs \cup GerminatePcs \cup {"down", "serving"}]
    BY <1>1, GotoTypes
  <2>3. sealedStore' \in [Roots -> [recipient : GKeys \cup {NoKey}, password : Nat]]
    <3>1. [recipient |-> keyFile[r], password |-> freshPassword[r]]
            \in [recipient : GKeys \cup {NoKey}, password : Nat]
      OBVIOUS
    <3>2. CASE g = "gitops" BY <1>4, <3>1, <3>2
    <3>3. CASE g # "gitops" BY <1>2, <3>3
    <3> QED BY <3>2, <3>3
  <2>4. cipherHistory' \in [Roots -> SUBSET GKeys]
    <3>1. cipherHistory[r] \cup {keyFile[r]} \in SUBSET GKeys BY <1>3
    <3>2. CASE g = "gitops" BY <1>4, <3>1, <3>2
    <3>3. CASE g # "gitops" BY <1>2, <3>3
    <3> QED BY <3>2, <3>3
  <2> QED BY <1>2, <2>1, <2>2, <2>3, <2>4
<1>6. \A q \in Roots, h \in SysRepos :
        sysRepo'[q][h] = IF q = r /\ h = g THEN "full" ELSE sysRepo[q][h]
  BY <1>2 DEF SysRepos
<1> USE <1>1, <1>2 DEF Goto
<1>7. KeyHeld' /\ GenomeClean' BY DEF KeyHeld, GenomeClean, Restoring
<1>8. AdminLast'
  <2>1. \A q \in Roots :
          sysRepo'[q]["gitops"] = IF q = r /\ g = "gitops" THEN "full" ELSE sysRepo[q]["gitops"]
    BY <1>6 DEF SysRepos, Genome
  <2>2. CASE g = "gitops" BY <1>4, <2>1, <2>2 DEF AdminLast, Restoring
  <2>3. CASE g # "gitops" BY <2>1, <2>3 DEF AdminLast, Restoring, Genome
  <2> QED BY <2>2, <2>3
<1>9. CertsOrdered' BY DEF CertsOrdered, Generation
<1>10. Stages' BY <1>6 DEF Stages, NothingYet, LacksPlatform, Whole, SysRepos, Genome
<1>11. SecretsOwn'
  <2>1. SovereignKeyOpensStore' BY <1>3, <1>4 DEF SecretsOwn, SovereignKeyOpensStore
  <2>2. NoForeignCiphertext'
    <3>1. CASE g = "gitops" BY <1>4, <3>1 DEF SecretsOwn, NoForeignCiphertext
    <3> QED BY <3>1 DEF SecretsOwn, NoForeignCiphertext
  <2>3. AdminRecoverable' BY <1>4 DEF SecretsOwn, AdminRecoverable
  <2> QED BY <2>1, <2>2, <2>3 DEF SecretsOwn
<1>12. SourcePublished' BY <1>6 DEF SourcePublished, SysRepos
<1> QED BY <1>5, <1>7, <1>8, <1>9, <1>10, <1>11, <1>12

LEMMA RestoreRepoKeepsGenesis ==
  ASSUME GenesisInv, NEW r \in Roots, NEW g \in Genome, RestoreRepo(r, g) PROVE GenesisInv'
<1> USE DEF GenesisInv, GenesisTypeOK
<1>1. PICK pc \in AllPcs :
        /\ Goto(r, pc)
        /\ \/ g = "gitops" /\ bootPc[r] = "restoreGitops" /\ pc = "restoreTemplate"
           \/ g = "template" /\ bootPc[r] = "restoreTemplate" /\ pc = "restorePlatform"
           \/ g = "platform" /\ bootPc[r] = "restorePlatform" /\ pc = "regenerate"
  BY DEF RestoreRepo, Genome, RestorePc, AfterRestore, AllPcs, Restoring
<1>2. genome.recipients = {} BY <1>1 DEF GenomeClean, Restoring
<1>3. cipherHistory' \in [Roots -> SUBSET GKeys] /\
      \A q \in Roots : cipherHistory'[q] \subseteq cipherHistory[q]
  BY <1>2 DEF RestoreRepo
<1>4. /\ sysRepo' = [sysRepo EXCEPT ![r] = [sysRepo[r] EXCEPT ![g] = "full"]]
      /\ UNCHANGED <<keyFile, platformId, sealedStore, sysRows, adminPassword, certFiles, genome,
                     bootKey, freshPassword, sourceHost, kills, cutShort>>
  BY DEF RestoreRepo
<1>5. GenesisTypeOK'
  <2>1. sysRepo' \in [Roots -> [SysRepos -> {"absent", "bare", "full"}]]
    BY <1>4 DEF SysRepos
  <2>2. bootPc' \in [Roots -> UpPcs \cup GerminatePcs \cup {"down", "serving"}]
    BY <1>1, GotoTypes
  <2> QED BY <1>3, <1>4, <2>1, <2>2
<1>6. \A q \in Roots, h \in SysRepos :
        sysRepo'[q][h] = IF q = r /\ h = g THEN "full" ELSE sysRepo[q][h]
  BY <1>4 DEF SysRepos
<1> USE <1>1, <1>4 DEF Goto
<1>7. KeyHeld' /\ GenomeClean' BY DEF KeyHeld, GenomeClean, Restoring
<1>8. AdminLast' BY <1>6 DEF AdminLast, Restoring, SysRepos, Genome
<1>9. CertsOrdered' BY DEF CertsOrdered, Generation
<1>10. Stages' BY <1>6 DEF Stages, NothingYet, LacksPlatform, Whole, SysRepos, Genome
<1>11. SecretsOwn'
  BY <1>3 DEF SecretsOwn, SovereignKeyOpensStore, NoForeignCiphertext, AdminRecoverable
<1>12. SourcePublished' BY <1>6 DEF SourcePublished, SysRepos
<1> QED BY <1>5, <1>7, <1>8, <1>9, <1>10, <1>11, <1>12


LEMMA GenesisStep == GenesisInv /\ [GenesisNext]_genesisVars => GenesisInv'
<1> SUFFICES ASSUME GenesisInv, [GenesisNext]_genesisVars PROVE GenesisInv' OBVIOUS
<1>1. CASE UNCHANGED genesisVars
  <2> USE <1>1 DEF genesisVars, GenesisInv
  <2>1. GenesisTypeOK' BY DEF GenesisTypeOK
  <2>2. KeyHeld' /\ GenomeClean' /\ AdminLast' BY DEF KeyHeld, GenomeClean, AdminLast
  <2>3. CertsOrdered' /\ Stages' BY DEF CertsOrdered, Generation, Stages, NothingYet, LacksPlatform, Whole
  <2>4. SecretsOwn' /\ SourcePublished'
    BY DEF SecretsOwn, SovereignKeyOpensStore, NoForeignCiphertext, AdminRecoverable, SourcePublished
  <2> QED BY <2>1, <2>2, <2>3, <2>4
<1>2. ASSUME NEW r \in Roots, BootStep(r) PROVE GenesisInv'
  BY <1>2, UpKeepsGenesis, LoadKeyKeepsGenesis, WriteIdKeepsGenesis, WriteRowsKeepsGenesis,
     VerifySealedKeepsGenesis, CreateAdminKeepsGenesis, EnsureCaKeepsGenesis,
     WriteCertKeepsGenesis, GerminateKeyKeepsGenesis, RegenerateSecretsKeepsGenesis,
     RecordLineageKeepsGenesis, InitBareRepoKeepsGenesis, SeedRepoKeepsGenesis,
     RestoreRepoKeepsGenesis, EnginePingsKeepsGenesis DEF BootStep
<1>3. ASSUME NEW r \in Roots, HostStep(r) \/ HostNothing(r) PROVE GenesisInv'
  BY <1>3, HostCheckKeepsGenesis, HostInitKeepsGenesis, HostSeedKeepsGenesis,
     HostNothingKeepsGenesis DEF HostStep
<1>4. ASSUME NEW r \in Roots, EngineDown(r) \/ WriteSeed(r) \/ Germinate(r) \/ Kill(r)
      PROVE  GenesisInv'
  BY <1>4, EngineDownKeepsGenesis, WriteSeedKeepsGenesis, GerminateKeepsGenesis, KillKeepsGenesis
<1> QED BY <1>1, <1>2, <1>3, <1>4 DEF GenesisNext

LEMMA GenesisAlways == GenesisSpec => []GenesisInv
BY GenesisStart, GenesisStep, PTL DEF GenesisSpec

\* However boots, seeds and germinations are cut short and repeated, every part of a root's
\* state keeps its type.
THEOREM GenesisTypes == GenesisSpec => []GenesisTypeOK
<1>1. GenesisInv => GenesisTypeOK BY DEF GenesisInv
<1> QED BY <1>1, GenesisAlways, PTL

\* For any number of roots, keys and kills at any step: the key on disk opens the sealed store,
\* no commit of a daughter carries its parent's ciphertext, the admin's password can be read
\* back, a gate never serves a mixed set of certificates, a root whose genesis or germination
\* was not cut short serves with all its repositories, and publishing that says it is done is.
THEOREM GenesisIsSafe == GenesisSpec => []GenesisSafe
<1>1. GenesisInv => GenesisSafe
  <2> SUFFICES ASSUME GenesisInv PROVE GenesisSafe OBVIOUS
  <2>1. CertsMatch BY StageNames DEF GenesisInv, CertsOrdered, CertsMatch
  <2>2. WholeUnlessCutShort BY DEF GenesisInv, Stages, Whole, WholeUnlessCutShort
  <2> QED BY <2>1, <2>2 DEF GenesisInv, SecretsOwn, GenesisSafe
<1> QED BY <1>1, GenesisAlways, PTL

-------------------------------------------------------------------------------
(***************************************************************************)
(* SelfUpgrade. The supervisor waits exactly while its daemon runs, and    *)
(* what would be gone back to has run past its grace period.               *)
(***************************************************************************)

\* The supervisor waits while its daemon runs, which is of the commit checked out; a
\* rollback is under way only if there is a ref to go back to.
Supervised ==
  /\ daemonPc # "down" <=> super = "wait"
  /\ super # "spawn" => served = src
  /\ super = "rollback" => rollbackRef # NoRef

\* Whoever asks for an upgrade without haste has proved itself.
LeavesProven ==
  "hasty" \notin amiss /\ (daemonPc = "leaving" \/ super = "upgrade") => served \in proven

AtHead == src = main \/ main \in brokenRefs

\* The clone is at the head, or the head was broken, except on the way there.
Follows ==
  amiss \cap {"cut", "killed", "pull"} = {} =>
    /\ daemonPc # "leaving" /\ super # "upgrade" => AtHead
    /\ super = "rollback" => main \in brokenRefs

UpgradeInv ==
  UpgradeTypeOK /\ Supervised /\ LeavesProven /\ RollsBackToProven /\ Follows

LEMMA UpgradeStart == UpgradeInit => UpgradeInv
<1> SUFFICES ASSUME UpgradeInit PROVE UpgradeInv OBVIOUS
<1> USE SelfUpgradeAssumption DEF UpgradeInit
<1>1. main = 0 /\ src = 0 /\ served = 0 /\ proven = {0} /\ deaths = 0 /\ gitFailures = 0
  OBVIOUS
<1>2. MaxMerges \in Nat /\ MaxDeaths \in Nat /\ MaxGitFailures \in Nat OBVIOUS
<1>3. brokenRefs \subseteq Refs /\ 0 \notin brokenRefs
  <2>1. \A c \in brokenRefs : c \in 1..MaxMerges OBVIOUS
  <2> QED BY <1>2, <2>1 DEF Refs
<1>4. main \in Refs /\ src \in 0..main /\ served \in 0..main /\ proven \subseteq 0..main
  BY <1>1, <1>2 DEF Refs
<1>5. proven \cap brokenRefs = {} BY <1>1, <1>3
<1>6. deaths \in 0..MaxDeaths /\ gitFailures \in 0..MaxGitFailures BY <1>1, <1>2
<1>7. UpgradeTypeOK BY <1>3, <1>4, <1>5, <1>6 DEF UpgradeTypeOK, Supers
<1> QED BY <1>7 DEF UpgradeInv, Supervised, LeavesProven, RollsBackToProven, Follows, AtHead

LEMMA ExitKeeps ==
  ASSUME UpgradeInv, NEW code \in {0, 1, 137, UPGRADE_EXIT}, Exits(code), daemonPc # "down",
         amiss' \in SUBSET Mishaps, amiss \subseteq amiss', deaths' \in 0..MaxDeaths,
         daemonPc = "leaving" => "cut" \in amiss' \/ code = UPGRADE_EXIT,
         code = UPGRADE_EXIT => daemonPc = "leaving",
         code = 137 /\ young /\ rollbackRef # NoRef => "killed" \in amiss',
         code = 1 => served \in brokenRefs
  PROVE  UpgradeInv'
<1> USE SelfUpgradeAssumption DEF UpgradeInv
<1>1. /\ super' = NextAction(code, young, rollbackRef # NoRef)
      /\ daemonPc' = "down" /\ young' = FALSE
      /\ UNCHANGED <<main, brokenRefs, src, served, rollbackRef, proven, gitFailures>>
  BY DEF Exits
<1>2. /\ super' \in {"upgrade", "stopped", "rollback", "restart"}
      /\ super' = "upgrade" <=> code = UPGRADE_EXIT
      /\ super' = "rollback" => rollbackRef # NoRef /\ young /\ code \in {1, 137}
  <2>1. CASE code = UPGRADE_EXIT BY <1>1, <2>1 DEF NextAction, UPGRADE_EXIT
  <2>2. CASE code = 0 BY <1>1, <2>2 DEF NextAction, UPGRADE_EXIT
  <2>3. CASE code \in {1, 137}
    <3>1. CASE rollbackRef # NoRef /\ young BY <1>1, <2>3, <3>1 DEF NextAction, UPGRADE_EXIT
    <3>2. CASE ~(rollbackRef # NoRef /\ young)
      BY <1>1, <2>3, <3>2 DEF NextAction, UPGRADE_EXIT
    <3> QED BY <3>1, <3>2
  <2> QED BY <2>1, <2>2, <2>3
<1>3. super = "wait" /\ served = src BY DEF Supervised
<1>4. UpgradeTypeOK' BY <1>1, <1>2 DEF UpgradeTypeOK, Supers
<1>5. Supervised' BY <1>1, <1>2, <1>3 DEF Supervised
<1>6. LeavesProven' BY <1>1, <1>2 DEF LeavesProven
<1>7. RollsBackToProven' BY <1>1 DEF RollsBackToProven
<1>8. Follows' BY <1>1, <1>2, <1>3 DEF Follows, AtHead
<1> QED BY <1>4, <1>5, <1>6, <1>7, <1>8

LEMMA GitFailureKeeps ==
  ASSUME UpgradeTypeOK, NEW mishap \in Mishaps, GitFails(mishap)
  PROVE  gitFailures' \in 0..MaxGitFailures /\ amiss' \subseteq Mishaps
BY SelfUpgradeAssumption DEF UpgradeTypeOK, GitFails

LEMMA UpgradeStep == ASSUME UpgradeInv, [UpgradeNext]_upgradeVars PROVE UpgradeInv'
<1> USE SelfUpgradeAssumption DEF UpgradeInv
<1>1. CASE SpawnDaemon
  <2>1. UpgradeTypeOK' BY <1>1 DEF SpawnDaemon, UpgradeTypeOK, Supers
  <2> QED BY <1>1, <2>1
       DEF SpawnDaemon, Supervised, LeavesProven, RollsBackToProven, Follows, AtHead
<1>2. CASE GracePasses
  <2>1. UpgradeTypeOK' BY <1>2 DEF GracePasses, UpgradeTypeOK
  <2> QED BY <1>2, <2>1
       DEF GracePasses, Supervised, LeavesProven, RollsBackToProven, Follows, AtHead
<1>3. CASE MergeSource
  <2>1. UpgradeTypeOK'
    <3>1. main' = main + 1 /\ main' \in Refs BY <1>3 DEF MergeSource, UpgradeTypeOK, Refs
    <3>2. 0..main \subseteq 0..main' BY <3>1 DEF UpgradeTypeOK, Refs
    <3> QED BY <1>3, <3>1, <3>2 DEF MergeSource, UpgradeTypeOK, Mishaps
  <2>2. super = "wait" BY <1>3 DEF MergeSource, Supervised
  <2> QED BY <1>3, <2>1, <2>2
       DEF MergeSource, Supervised, LeavesProven, RollsBackToProven, Follows, AtHead
<1>4. CASE LeavesToUpgrade
  <2>1. Exits(UPGRADE_EXIT) /\ daemonPc = "leaving" /\ UNCHANGED <<amiss, deaths>>
    BY <1>4 DEF LeavesToUpgrade
  <2>2. amiss' \in SUBSET Mishaps /\ amiss \subseteq amiss' /\ deaths' \in 0..MaxDeaths
    BY <2>1 DEF UpgradeTypeOK
  <2> QED BY <2>1, <2>2, ExitKeeps DEF UPGRADE_EXIT
<1>5. CASE BrokenDaemonDies
  <2>1. /\ Exits(1) /\ daemonPc # "down" /\ served \in brokenRefs /\ UNCHANGED deaths
        /\ amiss \subseteq amiss' /\ amiss' \subseteq amiss \cup {"cut"}
        /\ daemonPc = "leaving" => "cut" \in amiss'
    BY <1>5 DEF BrokenDaemonDies
  <2>2. amiss' \in SUBSET Mishaps /\ deaths' \in 0..MaxDeaths
    BY <2>1 DEF UpgradeTypeOK, Mishaps
  <2> QED BY <2>1, <2>2, ExitKeeps DEF UPGRADE_EXIT
<1>6. CASE DaemonKilled
  <2>1. /\ Exits(137) /\ daemonPc # "down" /\ deaths < MaxDeaths /\ deaths' = deaths + 1
        /\ amiss \subseteq amiss' /\ amiss' \subseteq amiss \cup {"cut", "killed"}
        /\ daemonPc = "leaving" => "cut" \in amiss'
        /\ young /\ rollbackRef # NoRef => "killed" \in amiss'
    BY <1>6 DEF DaemonKilled
  <2>2. amiss' \in SUBSET Mishaps BY <2>1 DEF UpgradeTypeOK, Mishaps
  <2>3. deaths' \in 0..MaxDeaths BY <2>1 DEF UpgradeTypeOK
  <2> QED BY <2>1, <2>2, <2>3, ExitKeeps DEF UPGRADE_EXIT
<1>7. CASE OperatorStops
  <2>1. Exits(0) /\ daemonPc = "up" /\ UNCHANGED <<amiss, deaths>>
    BY <1>7 DEF OperatorStops
  <2>2. amiss' \in SUBSET Mishaps /\ amiss \subseteq amiss' /\ deaths' \in 0..MaxDeaths
    BY <2>1 DEF UpgradeTypeOK
  <2> QED BY <2>1, <2>2, ExitKeeps DEF UPGRADE_EXIT
<1>8. CASE SupervisorDies
  <2>1. UpgradeTypeOK'
    <3>1. amiss' \subseteq amiss \cup {"cut", "forgotten"} BY <1>8 DEF SupervisorDies
    <3>2. amiss' \subseteq Mishaps BY <3>1 DEF UpgradeTypeOK, Mishaps
    <3>3. deaths' \in 0..MaxDeaths BY <1>8 DEF SupervisorDies, UpgradeTypeOK
    <3> QED BY <1>8, <3>2, <3>3 DEF SupervisorDies, UpgradeTypeOK, Supers
  <2>2. Supervised' /\ LeavesProven' /\ RollsBackToProven'
    BY <1>8 DEF SupervisorDies, Supervised, LeavesProven, RollsBackToProven
  <2>3. Follows' BY <1>8 DEF SupervisorDies, Follows, AtHead
  <2> QED BY <2>1, <2>2, <2>3
<1>9. CASE PullLatest
  <2>1. served = src /\ daemonPc = "down" BY <1>9 DEF PullLatest, Supervised, UpgradeTypeOK
  <2>2. UpgradeTypeOK'
    <3>1. main \in 0..main /\ src \in 0..main BY DEF UpgradeTypeOK, Refs
    <3>2. CASE src' = main /\ rollbackRef' = src /\ UNCHANGED <<amiss, gitFailures>>
      BY <1>9, <3>1, <3>2 DEF PullLatest, UpgradeTypeOK, Supers
    <3>3. CASE GitFails("pull") /\ rollbackRef' = NoRef /\ UNCHANGED src
      BY <1>9, <3>3, GitFailureKeeps DEF PullLatest, UpgradeTypeOK, Supers, Mishaps
    <3> QED BY <1>9, <3>2, <3>3 DEF PullLatest, LastGood
  <2>3. RollsBackToProven'
    BY <1>9, <2>1 DEF PullLatest, GitFails, LastGood, LeavesProven, RollsBackToProven
  <2>4. Supervised' /\ LeavesProven'
    BY <1>9, <2>1 DEF PullLatest, Supervised, LeavesProven
  <2>5. Follows' BY <1>9 DEF PullLatest, GitFails, Follows, AtHead
  <2> QED BY <2>2, <2>3, <2>4, <2>5
<1>10. CASE RollBack
  <2>1. daemonPc = "down" /\ rollbackRef \in 0..main
    BY <1>10 DEF RollBack, Supervised, UpgradeTypeOK
  <2>2. UpgradeTypeOK'
    <3>1. CASE src' = rollbackRef /\ UNCHANGED <<amiss, gitFailures>>
      BY <1>10, <2>1, <3>1 DEF RollBack, UpgradeTypeOK, Supers
    <3>2. CASE GitFails("reset") /\ UNCHANGED src
      BY <1>10, <3>2, GitFailureKeeps DEF RollBack, UpgradeTypeOK, Supers, Mishaps
    <3> QED BY <1>10, <3>1, <3>2 DEF RollBack
  <2>3. Supervised' /\ LeavesProven' /\ RollsBackToProven'
    BY <1>10, <2>1 DEF RollBack, GitFails, Supervised, LeavesProven, RollsBackToProven
  <2>4. Follows' BY <1>10 DEF RollBack, GitFails, Follows, AtHead
  <2> QED BY <2>2, <2>3, <2>4
<1>11. CASE RestartDaemon
  <2>1. daemonPc = "down" BY <1>11 DEF RestartDaemon, Supervised, UpgradeTypeOK
  <2>2. UpgradeTypeOK' BY <1>11 DEF RestartDaemon, UpgradeTypeOK, Supers
  <2> QED BY <1>11, <2>1, <2>2
       DEF RestartDaemon, Supervised, LeavesProven, RollsBackToProven, Follows, AtHead
<1>12. CASE UNCHANGED upgradeVars
  BY <1>12 DEF upgradeVars, UpgradeTypeOK, Supervised, LeavesProven, RollsBackToProven,
               Follows, AtHead
<1> QED BY <1>1, <1>2, <1>3, <1>4, <1>5, <1>6, <1>7, <1>8, <1>9, <1>10, <1>11, <1>12
     DEF UpgradeNext, UpgradeProgress

LEMMA UpgradeAlways == UpgradeSpec => []UpgradeInv
BY UpgradeStart, UpgradeStep, PTL DEF UpgradeSpec

LEMMA UpgradePromises == UpgradeInv => UpgradeSafe
BY DEF UpgradeInv, UpgradeSafe, Supervised, Follows, AtHead, ServesHead, UpgradeTypeOK

\* Every variable of the supervisor and its daemon keeps its type.
THEOREM UpgradeTypes == UpgradeSpec => []UpgradeTypeOK
<1>1. UpgradeInv => UpgradeTypeOK BY DEF UpgradeInv
<1> QED BY <1>1, UpgradeAlways, PTL

\* What would be gone back to has run past its grace period, and a daemon past its own is
\* the head of plat/opd unless the head was broken or one of the mishaps befell it.
THEOREM UpgradesAreSafe == UpgradeSpec => []UpgradeSafe
BY UpgradePromises, UpgradeAlways, PTL

-------------------------------------------------------------------------------
(***************************************************************************)
(* PlatformConfig. Whatever overlaps, one reload has yet to read the head. *)
(***************************************************************************)

\* What a reload has read was the head when the reloads began to overlap, or later.
ReadsLate == \A r \in Reloads : reload[r].pc = "read" => reload[r].got >= since

\* Unless a commit of theirs is in force, some reload has yet to read or has read a good one.
OneWillApply ==
  ~unread /\ AdmitPlatformConfig(tip) =>
    \/ cache >= since
    \/ \E r \in Reloads :
         \/ reload[r].pc = "reading"
         \/ reload[r].pc = "read" /\ AdmitPlatformConfig(reload[r].got)

ConfigInv == ConfigTypeOK /\ ReadsLate /\ OneWillApply /\ AgentIsCurrent

LEMMA ConfigStart == ConfigInit => ConfigInv
<1> SUFFICES ASSUME ConfigInit PROVE ConfigInv OBVIOUS
<1> USE PlatformConfigAssumption DEF ConfigInit
<1>1. ConfigTypeOK
  <2>1. tip \in Versions /\ admissible \subseteq Versions /\ 1 \in admissible
    <3>1. PICK s \in SUBSET (2..MaxConfigs) : admissible = {1} \cup s OBVIOUS
    <3>2. 1 \in 1..MaxConfigs /\ 2..MaxConfigs \subseteq 1..MaxConfigs OBVIOUS
    <3> QED BY <3>1, <3>2 DEF Versions
  <2>2. roomy \subseteq admissible OBVIOUS
  <2>3. cache \in (admissible \cap 1..tip) \cup {Defaults} BY <2>1
  <2>4. reload \in [Reloads -> [pc : {"idle", "reading", "read"}, got : 0..tip]] BY DEF Idle, Defaults
  <2>5. since \in 1..tip OBVIOUS
  <2>8. {unread, kicked, passing, admitted} \subseteq BOOLEAN OBVIOUS
  <2>6. agentPc \in {"idle", "skills", "loaded"} /\
        agent \in [asked : 0..tip, instructions : 0..tip, skills : 0..tip]
    BY DEF NoAgent
  <2>7. configFailures \in 0..MaxConfigFailures /\ configRestarts \in 0..MaxConfigRestarts OBVIOUS
  <2> QED BY <2>1, <2>2, <2>3, <2>4, <2>5, <2>6, <2>7, <2>8 DEF ConfigTypeOK
<1>2. ReadsLate BY DEF ReadsLate, Idle
<1>3. OneWillApply BY DEF OneWillApply
<1>4. AgentIsCurrent BY DEF AgentIsCurrent
<1> QED BY <1>1, <1>2, <1>3, <1>4 DEF ConfigInv

LEMMA PushConfigKeepsConfig == ASSUME ConfigInv, NEW r \in Reloads, PushConfig(r) PROVE ConfigInv'
<1> USE PlatformConfigAssumption DEF ConfigInv, ConfigTypeOK, PushConfig, repoVars, asOf, passVars, agentVars, Versions, AdmitPlatformConfig, Quiet
<1>1. ConfigTypeOK' OBVIOUS
<1>2. ReadsLate' BY DEF ReadsLate
<1>3. OneWillApply' BY DEF OneWillApply, ReadsLate
<1>4. AgentIsCurrent' BY DEF AgentIsCurrent
<1> QED BY <1>1, <1>2, <1>3, <1>4

LEMMA ReloadReadsKeepsConfig == ASSUME ConfigInv, NEW r \in Reloads, ReloadReads(r) PROVE ConfigInv'
<1> USE PlatformConfigAssumption DEF ConfigInv, ConfigTypeOK, ReloadReads, repoVars, asOf, passVars, agentVars, Versions, AdmitPlatformConfig, Quiet
<1>1. ConfigTypeOK' OBVIOUS
<1>2. ReadsLate' BY DEF ReadsLate
<1>3. OneWillApply' BY DEF OneWillApply, ReadsLate
<1>4. AgentIsCurrent' BY DEF AgentIsCurrent
<1> QED BY <1>1, <1>2, <1>3, <1>4

LEMMA ReloadFailsKeepsConfig == ASSUME ConfigInv, NEW r \in Reloads, ReloadFails(r) PROVE ConfigInv'
<1> USE PlatformConfigAssumption DEF ConfigInv, ConfigTypeOK, ReloadFails, repoVars, asOf, passVars, agentVars, Versions, AdmitPlatformConfig, Idle
<1>1. ConfigTypeOK'
  <2>1. reload' \in [Reloads -> [pc : {"idle", "reading", "read"}, got : 0..tip]] BY DEF Defaults
  <2>2. configFailures' \in 0..MaxConfigFailures OBVIOUS
  <2>3. {unread', kicked'} \subseteq BOOLEAN OBVIOUS
  <2> QED BY <2>1, <2>2, <2>3
<1>2. ReadsLate' BY DEF ReadsLate
<1>3. OneWillApply' BY DEF OneWillApply, ReadsLate
<1>4. AgentIsCurrent' BY DEF AgentIsCurrent
<1> QED BY <1>1, <1>2, <1>3, <1>4

LEMMA ReloadAppliesKeepsConfig == ASSUME ConfigInv, NEW r \in Reloads, ReloadApplies(r) PROVE ConfigInv'
<1> USE PlatformConfigAssumption DEF ConfigInv, ConfigTypeOK, ReloadApplies, repoVars, asOf, passVars, agentVars, Versions, AdmitPlatformConfig, Idle, Applied, Quiet
<1>1. ConfigTypeOK'
  <2>1. reload' \in [Reloads -> [pc : {"idle", "reading", "read"}, got : 0..tip]] BY DEF Defaults
  <2>2. cache' \in (admissible \cap 1..tip) \cup {Defaults} OBVIOUS
  <2>3. kicked' \in BOOLEAN OBVIOUS
  <2> QED BY <2>1, <2>2, <2>3
<1>2. ReadsLate' BY DEF ReadsLate
<1>3. OneWillApply' BY DEF OneWillApply, ReadsLate
<1>4. AgentIsCurrent' BY DEF AgentIsCurrent
<1> QED BY <1>1, <1>2, <1>3, <1>4

LEMMA RestartConfigKeepsConfig == ASSUME ConfigInv, RestartConfig PROVE ConfigInv'
<1> USE PlatformConfigAssumption DEF ConfigInv, ConfigTypeOK, RestartConfig, repoVars, asOf, passVars, agentVars, Versions, AdmitPlatformConfig, Idle, Quiet, NoAgent, Defaults
<1>1. ConfigTypeOK'
  <2>1. reload' \in [Reloads -> [pc : {"idle", "reading", "read"}, got : 0..tip]] OBVIOUS
  <2>2. cache' \in (admissible \cap 1..tip) \cup {Defaults} OBVIOUS
  <2>3. {unread', kicked', passing'} \subseteq BOOLEAN OBVIOUS
  <2>4. agent' \in [asked : 0..tip, instructions : 0..tip, skills : 0..tip] OBVIOUS
  <2>5. configRestarts' \in 0..MaxConfigRestarts /\ configFailures' \in 0..MaxConfigFailures OBVIOUS
  <2>6. since' \in 1..tip' OBVIOUS
  <2> QED BY <2>1, <2>2, <2>3, <2>4, <2>5, <2>6
<1>2. ReadsLate' BY DEF ReadsLate
<1>3. OneWillApply' BY DEF OneWillApply, ReadsLate
<1>4. AgentIsCurrent' BY DEF AgentIsCurrent
<1> QED BY <1>1, <1>2, <1>3, <1>4

LEMMA PassStartsKeepsConfig == ASSUME ConfigInv, PassStarts PROVE ConfigInv'
<1> USE PlatformConfigAssumption DEF ConfigInv, ConfigTypeOK, PassStarts, repoVars, asOf, passVars, agentVars, Versions, AdmitPlatformConfig
<1>1. ConfigTypeOK' OBVIOUS
<1>2. ReadsLate' BY DEF ReadsLate
<1>3. OneWillApply' BY DEF OneWillApply, ReadsLate
<1>4. AgentIsCurrent' BY DEF AgentIsCurrent
<1> QED BY <1>1, <1>2, <1>3, <1>4

LEMMA PassAdmitsKeepsConfig == ASSUME ConfigInv, PassAdmits PROVE ConfigInv'
<1> USE PlatformConfigAssumption DEF ConfigInv, ConfigTypeOK, PassAdmits, repoVars, asOf, passVars, agentVars, Versions, AdmitPlatformConfig
<1>1. ConfigTypeOK' OBVIOUS
<1>2. ReadsLate' BY DEF ReadsLate
<1>3. OneWillApply' BY DEF OneWillApply, ReadsLate
<1>4. AgentIsCurrent' BY DEF AgentIsCurrent
<1> QED BY <1>1, <1>2, <1>3, <1>4

LEMMA LoadInstructionsKeepsConfig == ASSUME ConfigInv, LoadInstructions PROVE ConfigInv'
<1> USE PlatformConfigAssumption DEF ConfigInv, ConfigTypeOK, LoadInstructions, repoVars, asOf, passVars, agentVars, Versions, AdmitPlatformConfig
<1>1. ConfigTypeOK' OBVIOUS
<1>2. ReadsLate' BY DEF ReadsLate
<1>3. OneWillApply' BY DEF OneWillApply, ReadsLate
<1>4. AgentIsCurrent' BY DEF AgentIsCurrent
<1> QED BY <1>1, <1>2, <1>3, <1>4

LEMMA LoadSkillsKeepsConfig == ASSUME ConfigInv, LoadSkills PROVE ConfigInv'
<1> USE PlatformConfigAssumption DEF ConfigInv, ConfigTypeOK, LoadSkills, repoVars, asOf, passVars, agentVars, Versions, AdmitPlatformConfig
<1>1. ConfigTypeOK' OBVIOUS
<1>2. ReadsLate' BY DEF ReadsLate
<1>3. OneWillApply' BY DEF OneWillApply, ReadsLate
<1>4. AgentIsCurrent' BY DEF AgentIsCurrent
<1> QED BY <1>1, <1>2, <1>3, <1>4

LEMMA ConfigStep == ConfigInv /\ [ConfigNext]_configVars => ConfigInv'
<1> SUFFICES ASSUME ConfigInv, [ConfigNext]_configVars PROVE ConfigInv' OBVIOUS
<1>1. CASE UNCHANGED configVars
  BY <1>1 DEF configVars, repoVars, asOf, passVars, agentVars, ConfigInv, ConfigTypeOK, ReadsLate,
     OneWillApply, AdmitPlatformConfig, AgentIsCurrent
<1>2. ASSUME NEW r \in Reloads,
             PushConfig(r) \/ ReloadReads(r) \/ ReloadFails(r) \/ ReloadApplies(r)
      PROVE  ConfigInv'
  BY <1>2, PushConfigKeepsConfig, ReloadReadsKeepsConfig, ReloadFailsKeepsConfig,
     ReloadAppliesKeepsConfig
<1>3. CASE RestartConfig \/ PassStarts \/ PassAdmits \/ LoadInstructions \/ LoadSkills
  BY <1>3, RestartConfigKeepsConfig, PassStartsKeepsConfig, PassAdmitsKeepsConfig,
     LoadInstructionsKeepsConfig, LoadSkillsKeepsConfig
<1> QED BY <1>1, <1>2, <1>3 DEF ConfigNext, ConfigProgress

LEMMA ConfigAlways == ConfigSpec => []ConfigInv
BY ConfigStart, ConfigStep, PTL DEF ConfigSpec

\* When all reloads are over, none will apply: a commit of theirs is in force.
LEMMA CaughtUp == ConfigInv => ConfigCatchesUp
BY DEF ConfigInv, OneWillApply, ConfigCatchesUp, Quiet

\* A reload applies what it read or nothing.
LEMMA ForwardStep ==
  ASSUME ConfigInv, [ConfigNext]_configVars
  PROVE  cache' >= cache \/ cache' >= since \/ configRestarts' # configRestarts
<1> USE PlatformConfigAssumption DEF ConfigInv, ConfigTypeOK, Defaults
<1>1. CASE UNCHANGED cache BY <1>1
<1>2. ASSUME NEW r \in Reloads, ReloadApplies(r) PROVE cache' >= cache \/ cache' >= since
  BY <1>2 DEF ReloadApplies, Applied, ReadsLate
<1>3. CASE RestartConfig BY <1>3 DEF RestartConfig
<1>4. (\E r \in Reloads : ReloadApplies(r)) \/ RestartConfig \/ UNCHANGED cache
  BY DEF ConfigNext, ConfigProgress, configVars, PushConfig, ReloadReads, ReloadFails, PassStarts,
     PassAdmits, LoadInstructions, LoadSkills
<1> QED BY <1>1, <1>2, <1>3, <1>4

\* Every part of the configuration's state keeps its type.
THEOREM ConfigTypes == ConfigSpec => []ConfigTypeOK
<1>1. ConfigInv => ConfigTypeOK BY DEF ConfigInv
<1> QED BY <1>1, ConfigAlways, PTL

\* For any number of commits, overlapping reloads, failed reads and starts: once the reloads
\* that overlap are over a commit of theirs is in force, the daemon never goes back past them,
\* and an agent's files are no older than its job; with the exceptions the properties name.
THEOREM ConfigKeepsUp == ConfigSpec => ConfigIsSafe
<1>1. ConfigInv => ConfigCatchesUp /\ AgentIsCurrent BY CaughtUp DEF ConfigInv
<1>2. ConfigInv /\ [ConfigNext]_configVars =>
        [cache' >= cache \/ cache' >= since \/ configRestarts' # configRestarts]_configVars
  BY ForwardStep
<1> QED BY <1>1, <1>2, ConfigAlways, PTL DEF ConfigSpec, ConfigIsSafe, NeverBackwards

-------------------------------------------------------------------------------
(***************************************************************************)
(* AgentRun. Past its removal a container is gone, so that what the        *)
(* driver looks at holds still.                                            *)
(***************************************************************************)

LEMMA AgentTypeInit == AgentInit => AgentTypeOK
BY AgentRunAssumption DEF AgentInit, AgentTypeOK, First, DriverPcs, ResultLines, Lines

LEMMA AgentTypeStep ==
  ASSUME AgentTypeOK, [AgentNext]_runVars PROVE AgentTypeOK'
<1> USE AgentRunAssumption
    DEF AgentTypeOK, DriverPcs, Lines, Heads, Goes, Returns, boxVars, treeVars
<1>1. ASSUME NEW r \in Runs, CloneRepo(r) PROVE AgentTypeOK'
  BY <1>1 DEF CloneRepo
<1>2. ASSUME NEW r \in Runs, AskImage(r) PROVE AgentTypeOK'
  <2>1. ("image" \in sandbox) \in BOOLEAN OBVIOUS
  <2>2. hadImage' \in [Runs -> BOOLEAN] BY <1>2, <2>1 DEF AskImage
  <2> QED BY <1>2, <2>2 DEF AskImage
<1>3. ASSUME NEW r \in Runs, AskNetwork(r) PROVE AgentTypeOK'
  BY <1>3 DEF AskNetwork, AfterNetwork
<1>4. ASSUME NEW r \in Runs, CreateNetwork(r) PROVE AgentTypeOK'
  BY <1>4 DEF CreateNetwork, AfterNetwork
<1>5. ASSUME NEW r \in Runs, BuildSandbox(r) PROVE AgentTypeOK'
  BY <1>5 DEF BuildSandbox
<1>6. ASSUME NEW r \in Runs, CreateCage(r) PROVE AgentTypeOK'
  BY <1>6 DEF CreateCage
<1>7. ASSUME NEW r \in Runs, StartCage(r) PROVE AgentTypeOK'
  BY <1>7 DEF StartCage
<1>8. ASSUME NEW r \in Runs, StreamEnds(r) PROVE AgentTypeOK'
  BY <1>8 DEF StreamEnds
<1>9. ASSUME NEW r \in Runs, WaitReturns(r) PROVE AgentTypeOK'
  BY <1>9 DEF WaitReturns
<1>10. ASSUME NEW r \in Runs, RemoveCage(r) PROVE AgentTypeOK'
  BY <1>10 DEF RemoveCage
<1>11. ASSUME NEW r \in Runs, ParseResult(r) PROVE AgentTypeOK'
  BY <1>11 DEF ParseResult
<1>12. ASSUME NEW r \in Runs, Judge(r) PROVE AgentTypeOK'
  BY <1>12 DEF Judge
<1>13. ASSUME NEW r \in Runs, Backstop(r) PROVE AgentTypeOK'
  BY <1>13 DEF Backstop
<1>14. ASSUME NEW r \in Runs, CheckPaths(r) PROVE AgentTypeOK'
  BY <1>14 DEF CheckPaths, Change
<1>15. ASSUME NEW r \in Runs, CountChanges(r) PROVE AgentTypeOK'
  BY <1>15 DEF CountChanges, Change
<1>16. ASSUME NEW r \in Runs, PushBranch(r) PROVE AgentTypeOK'
  BY <1>16 DEF PushBranch, Change
<1>17. ASSUME NEW r \in Runs, AttachBranch(r) PROVE AgentTypeOK'
  BY <1>17 DEF AttachBranch
<1>18. ASSUME NEW r \in Runs, ParseVerdict(r) PROVE AgentTypeOK'
  BY <1>18 DEF ParseVerdict
<1>19. ASSUME NEW r \in Runs, AgentEdits(r) PROVE AgentTypeOK'
  BY <1>19 DEF AgentEdits
<1>20. ASSUME NEW r \in Runs, AgentCommits(r) PROVE AgentTypeOK'
  BY <1>20 DEF AgentCommits
<1>21. ASSUME NEW r \in Runs, AgentSays(r) PROVE AgentTypeOK'
  <2>1. PICK l \in ResultLines(r) : said' = [said EXCEPT ![r] = l] BY <1>21 DEF AgentSays
  <2>2. l \in Lines BY DEF ResultLines, Lines
  <2>3. said' \in [Runs -> Lines] BY <2>1, <2>2
  <2>4. heard[r] = "none" BY <1>21 DEF AgentSays
  <2>5. \A q \in Runs : said'[q] \in ResultLines(q) \cup {"none"} /\ heard[q] \in {said'[q], "none"}
    BY <2>1, <2>4
  <2> QED BY <1>21, <2>3, <2>5 DEF AgentSays
<1>22. ASSUME NEW r \in Runs, AgentExits(r) PROVE AgentTypeOK'
  BY <1>22 DEF AgentExits
<1>23. CASE AgentKill BY <1>23 DEF AgentKill
<1>24. CASE UNCHANGED runVars BY <1>24 DEF runVars
<1> QED
  BY <1>1, <1>2, <1>3, <1>4, <1>5, <1>6, <1>7, <1>8, <1>9, <1>10, <1>11, <1>12,
     <1>13, <1>14, <1>15, <1>16, <1>17, <1>18, <1>19, <1>20, <1>21, <1>22,
     <1>23, <1>24
     DEF AgentNext, DriverStep

EarlyPcs == {"unasked", "clone", "image", "network", "connect", "build", "create"}
LatePcs == DriverPcs \cup {"parse"}

\* No container runs before it is created nor, unless the engine refused to remove it, past
\* its removal.
Cages ==
  \A r \in Runs :
    /\ runPc[r] \in EarlyPcs => cage[r] = "none"
    /\ runPc[r] = "remove" => answer[r] \in {"failed", "none"}
    /\ runPc[r] \in LatePcs \cup {"done"} => cage[r] = "none" \/ refused[r]
    /\ answer[r] # "none" => runPc[r] \in {"remove", "done", "dead"}

LEMMA CagesInit == AgentInit => Cages
BY DEF AgentInit, Cages, First, EarlyPcs, LatePcs, DriverPcs

LEMMA CagesStep ==
  ASSUME AgentTypeOK, Cages, [AgentNext]_runVars PROVE Cages'
<1> USE DEF AgentTypeOK, Cages, EarlyPcs, LatePcs, DriverPcs, Heads, Goes, Returns,
        boxVars, treeVars
<1>1. ASSUME NEW r \in Runs, CloneRepo(r) PROVE Cages'
  BY <1>1 DEF CloneRepo
<1>2. ASSUME NEW r \in Runs, AskImage(r) PROVE Cages'
  BY <1>2 DEF AskImage
<1>3. ASSUME NEW r \in Runs, AskNetwork(r) PROVE Cages'
  BY <1>3 DEF AskNetwork, AfterNetwork
<1>4. ASSUME NEW r \in Runs, CreateNetwork(r) PROVE Cages'
  BY <1>4 DEF CreateNetwork, AfterNetwork
<1>5. ASSUME NEW r \in Runs, BuildSandbox(r) PROVE Cages'
  BY <1>5 DEF BuildSandbox
<1>6. ASSUME NEW r \in Runs, CreateCage(r) PROVE Cages'
  BY <1>6 DEF CreateCage
<1>7. ASSUME NEW r \in Runs, StartCage(r) PROVE Cages'
  BY <1>7 DEF StartCage
<1>8. ASSUME NEW r \in Runs, StreamEnds(r) PROVE Cages'
  BY <1>8 DEF StreamEnds
<1>9. ASSUME NEW r \in Runs, WaitReturns(r) PROVE Cages'
  BY <1>9 DEF WaitReturns
<1>10. ASSUME NEW r \in Runs, RemoveCage(r) PROVE Cages'
  BY <1>10 DEF RemoveCage
<1>11. ASSUME NEW r \in Runs, ParseResult(r) PROVE Cages'
  BY <1>11 DEF ParseResult
<1>12. ASSUME NEW r \in Runs, Judge(r) PROVE Cages'
  BY <1>12 DEF Judge
<1>13. ASSUME NEW r \in Runs, Backstop(r) PROVE Cages'
  BY <1>13 DEF Backstop
<1>14. ASSUME NEW r \in Runs, CheckPaths(r) PROVE Cages'
  BY <1>14 DEF CheckPaths, Change
<1>15. ASSUME NEW r \in Runs, CountChanges(r) PROVE Cages'
  BY <1>15 DEF CountChanges, Change
<1>16. ASSUME NEW r \in Runs, PushBranch(r) PROVE Cages'
  BY <1>16 DEF PushBranch, Change
<1>17. ASSUME NEW r \in Runs, AttachBranch(r) PROVE Cages'
  BY <1>17 DEF AttachBranch
<1>18. ASSUME NEW r \in Runs, ParseVerdict(r) PROVE Cages'
  BY <1>18 DEF ParseVerdict
<1>19. ASSUME NEW r \in Runs, AgentEdits(r) PROVE Cages'
  BY <1>19 DEF AgentEdits
<1>20. ASSUME NEW r \in Runs, AgentCommits(r) PROVE Cages'
  BY <1>20 DEF AgentCommits
<1>21. ASSUME NEW r \in Runs, AgentSays(r) PROVE Cages'
  BY <1>21 DEF AgentSays
<1>22. ASSUME NEW r \in Runs, AgentExits(r) PROVE Cages'
  BY <1>22 DEF AgentExits
<1>23. CASE AgentKill BY <1>23 DEF AgentKill
<1>24. CASE UNCHANGED runVars BY <1>24 DEF runVars
<1> QED
  BY <1>1, <1>2, <1>3, <1>4, <1>5, <1>6, <1>7, <1>8, <1>9, <1>10, <1>11, <1>12,
     <1>13, <1>14, <1>15, <1>16, <1>17, <1>18, <1>19, <1>20, <1>21, <1>22,
     <1>23, <1>24
     DEF AgentNext, DriverStep

\* What the driver has found out by each of its steps, and what it pushed on the strength of it.
Vetted ==
  \A r \in Runs :
    /\ runPc[r] \in {"judge", "stage", "allow", "count", "push", "attach"} => heard[r] # "none"
    /\ runPc[r] \in {"stage", "allow", "count", "push", "attach"}
         => ~(heard[r] = "declined" /\ committed[r] = {})
    /\ runPc[r] \in {"allow", "count", "push", "attach"} => unsaved[r] = {} \/ refused[r]
    /\ runPc[r] \in {"count", "push"} /\ r \in ConfigBuilders
         => Change(r) \subseteq Allowed \/ refused[r]
    /\ pushed[r] # {} => /\ runPc[r] \in {"attach", "done", "dead"}
                        /\ heard[r] # "none"
                        /\ ~(heard[r] = "declined" /\ committed[r] = {})
    /\ r \in ConfigBuilders => pushed[r] \subseteq Allowed \/ refused[r]
    /\ answer[r] = "built" => runPc[r] = "done" /\ (unsaved[r] = {} \/ refused[r])

LEMMA VettedInit == AgentInit => Vetted
BY DEF AgentInit, Vetted, First

LEMMA VettedStep ==
  ASSUME AgentTypeOK, Cages, Vetted, [AgentNext]_runVars PROVE Vetted'
<1> USE DEF AgentTypeOK, Cages, Vetted, LatePcs, DriverPcs, Change, Heads, Goes, Returns,
        boxVars, treeVars
<1>1. ASSUME NEW r \in Runs, CloneRepo(r) PROVE Vetted'
  BY <1>1 DEF CloneRepo
<1>2. ASSUME NEW r \in Runs, AskImage(r) PROVE Vetted'
  BY <1>2 DEF AskImage
<1>3. ASSUME NEW r \in Runs, AskNetwork(r) PROVE Vetted'
  BY <1>3 DEF AskNetwork, AfterNetwork
<1>4. ASSUME NEW r \in Runs, CreateNetwork(r) PROVE Vetted'
  BY <1>4 DEF CreateNetwork, AfterNetwork
<1>5. ASSUME NEW r \in Runs, BuildSandbox(r) PROVE Vetted'
  BY <1>5 DEF BuildSandbox
<1>6. ASSUME NEW r \in Runs, CreateCage(r) PROVE Vetted'
  BY <1>6 DEF CreateCage
<1>7. ASSUME NEW r \in Runs, StartCage(r) PROVE Vetted'
  BY <1>7 DEF StartCage
<1>8. ASSUME NEW r \in Runs, StreamEnds(r) PROVE Vetted'
  BY <1>8 DEF StreamEnds
<1>9. ASSUME NEW r \in Runs, WaitReturns(r) PROVE Vetted'
  BY <1>9 DEF WaitReturns
<1>10. ASSUME NEW r \in Runs, RemoveCage(r) PROVE Vetted'
  BY <1>10 DEF RemoveCage
<1>11. ASSUME NEW r \in Runs, ParseResult(r) PROVE Vetted'
  BY <1>11 DEF ParseResult
<1>12. ASSUME NEW r \in Runs, Judge(r) PROVE Vetted'
  BY <1>12 DEF Judge
<1>13. ASSUME NEW r \in Runs, Backstop(r) PROVE Vetted'
  BY <1>13 DEF Backstop
<1>14. ASSUME NEW r \in Runs, CheckPaths(r) PROVE Vetted'
  BY <1>14 DEF CheckPaths
<1>15. ASSUME NEW r \in Runs, CountChanges(r) PROVE Vetted'
  BY <1>15 DEF CountChanges
<1>16. ASSUME NEW r \in Runs, PushBranch(r) PROVE Vetted'
  BY <1>16 DEF PushBranch
<1>17. ASSUME NEW r \in Runs, AttachBranch(r) PROVE Vetted'
  BY <1>17 DEF AttachBranch
<1>18. ASSUME NEW r \in Runs, ParseVerdict(r) PROVE Vetted'
  BY <1>18 DEF ParseVerdict
<1>19. ASSUME NEW r \in Runs, AgentEdits(r) PROVE Vetted'
  <2>1. cage[r] = "running" BY <1>19 DEF AgentEdits
  <2>2. runPc[r] \in LatePcs \cup {"done"} => refused[r] BY <2>1
  <2>3. \A q \in Runs \ {r} : unsaved'[q] = unsaved[q] BY <1>19 DEF AgentEdits
  <2> QED BY <1>19, <2>2, <2>3 DEF AgentEdits
<1>20. ASSUME NEW r \in Runs, AgentCommits(r) PROVE Vetted'
  BY <1>20 DEF AgentCommits
<1>21. ASSUME NEW r \in Runs, AgentSays(r) PROVE Vetted'
  BY <1>21 DEF AgentSays
<1>22. ASSUME NEW r \in Runs, AgentExits(r) PROVE Vetted'
  BY <1>22 DEF AgentExits
<1>23. CASE AgentKill BY <1>23 DEF AgentKill
<1>24. CASE UNCHANGED runVars BY <1>24 DEF runVars
<1> QED
  BY <1>1, <1>2, <1>3, <1>4, <1>5, <1>6, <1>7, <1>8, <1>9, <1>10, <1>11, <1>12,
     <1>13, <1>14, <1>15, <1>16, <1>17, <1>18, <1>19, <1>20, <1>21, <1>22,
     <1>23, <1>24
     DEF AgentNext, DriverStep

AgentInv == AgentTypeOK /\ Cages /\ Vetted

LEMMA AgentStart == AgentInit => AgentInv
BY AgentTypeInit, CagesInit, VettedInit DEF AgentInv

LEMMA AgentStep == AgentInv /\ [AgentNext]_runVars => AgentInv'
BY AgentTypeStep, CagesStep, VettedStep DEF AgentInv

LEMMA AgentAlways == AgentSpec => []AgentInv
BY AgentStart, AgentStep, PTL DEF AgentSpec

LEMMA AgentPromises == AgentInv => AgentRunSafe
<1> SUFFICES ASSUME AgentInv PROVE AgentRunSafe OBVIOUS
<1>1. DriverAlone /\ CageEmptied BY DEF AgentInv, Cages, DriverAlone, LatePcs, CageEmptied
<1>2. PushedIsAllowed BY AgentRunAssumption DEF AgentInv, Vetted, PushedIsAllowed, Runs
<1>3. DeclineShipsNothing /\ NothingLeftBehind /\ OnlyFinishedWork
  BY DEF AgentInv, Vetted, DeclineShipsNothing, NothingLeftBehind, OnlyFinishedWork, Runs
<1> QED BY <1>1, <1>2, <1>3 DEF AgentRunSafe

\* Every variable of AgentRun keeps its type, and a run that returned has an answer.
THEOREM AgentRunTypes == AgentSpec => []AgentTypeOK
<1>1. AgentInv => AgentTypeOK BY DEF AgentInv
<1> QED BY <1>1, AgentAlways, PTL

\* What the driver judges and pushes is not written to behind its back.
THEOREM DriverIsAlone == AgentSpec => []DriverAlone
<1>1. AgentInv => DriverAlone BY AgentPromises DEF AgentRunSafe
<1> QED BY <1>1, AgentAlways, PTL

\* A run that returned left no container, unless the engine refused to remove it.
THEOREM CagesAreEmptied == AgentSpec => []CageEmptied
<1>1. AgentInv => CageEmptied BY AgentPromises DEF AgentRunSafe
<1> QED BY <1>1, AgentAlways, PTL

\* Nothing outside the allowlist reaches a branch of plat/platform.
THEOREM OnlyAllowedIsPushed == AgentSpec => []PushedIsAllowed
<1>1. AgentInv => PushedIsAllowed BY AgentPromises DEF AgentRunSafe
<1> QED BY <1>1, AgentAlways, PTL

\* An agent that declined and committed nothing ships nothing.
THEOREM DeclinesShipNothing == AgentSpec => []DeclineShipsNothing
<1>1. AgentInv => DeclineShipsNothing BY AgentPromises DEF AgentRunSafe
<1> QED BY <1>1, AgentAlways, PTL

\* A built change has all of the agent's work.
THEOREM BuiltIsComplete == AgentSpec => []NothingLeftBehind
<1>1. AgentInv => NothingLeftBehind BY AgentPromises DEF AgentRunSafe
<1> QED BY <1>1, AgentAlways, PTL

\* Nothing is pushed for an agent that did not finish.
THEOREM PushedIsFinished == AgentSpec => []OnlyFinishedWork
<1>1. AgentInv => OnlyFinishedWork BY AgentPromises DEF AgentRunSafe
<1> QED BY <1>1, AgentAlways, PTL

\* All that a run promises, whatever its agent does.
THEOREM AgentRunsAreSafe == AgentSpec => []AgentRunSafe
BY AgentPromises, AgentAlways, PTL
===============================================================================
