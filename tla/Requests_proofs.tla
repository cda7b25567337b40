--------------------------- MODULE Requests_proofs ----------------------------
(***************************************************************************)
(* What the parts that answer requests promise, proved for any names and   *)
(* any number of requests: the accounts, the sign-in of apps and the       *)
(* intake of apps. Requests run interleaved at their awaits, so each       *)
(* invariant says what a request knows at each of them whatever the        *)
(* others did meanwhile.                                                   *)
(***************************************************************************)
EXTENDS Accounts, SignIn, Intake, TLAPS

-------------------------------------------------------------------------------
(***************************************************************************)
(* Accounts.                                                               *)
(***************************************************************************)

LEMMA AccountsTypeInit == AccountsInit => AccountsTypeOK
BY DEF AccountsInit, AccountsTypeOK, UserNames

Signup == [pc : {"idle", "hashing", "made", "refused"}, name : UserNames]

\* What an insert does to the calls: it ends one of them.
LEMMA InsertEffect ==
  ASSUME AccountsTypeOK, NEW s \in Signups, SignupInserts(s)
  PROVE  /\ signup' \in [Signups -> Signup]
         /\ \A t \in Signups : signup'[t].name = signup[t].name
         /\ \A t \in Signups : t # s => signup'[t] = signup[t]
         /\ \/ /\ signup'[s].pc = "made"
               /\ signup[s].name \notin users /\ users' = users \cup {signup[s].name}
            \/ signup'[s].pc = "refused" /\ users' = users
         /\ orgs' = orgs /\ role' = role /\ crossed' = crossed
         /\ signup[s].pc = "hashing" /\ signup[s].name \in UserNames
<1>1. signup \in [Signups -> Signup] BY DEF AccountsTypeOK, Signup, UserNames
<1>2. signup[s] \in Signup BY <1>1
<1>3. CASE signup[s].name \notin users
  <2>1. signup' = [signup EXCEPT ![s] = [@ EXCEPT !.pc = "made"]] BY <1>3 DEF SignupInserts
  <2>2. [signup[s] EXCEPT !.pc = "made"] = [pc |-> "made", name |-> signup[s].name]
    BY <1>2 DEF Signup
  <2>3. signup' = [signup EXCEPT ![s] = [pc |-> "made", name |-> signup[s].name]]
    BY <2>1, <2>2
  <2> QED BY <1>1, <1>2, <1>3, <2>3 DEF SignupInserts, Signup
<1>4. CASE signup[s].name \in users
  <2>1. signup' = [signup EXCEPT ![s] = [@ EXCEPT !.pc = "refused"]] BY <1>4 DEF SignupInserts
  <2>2. [signup[s] EXCEPT !.pc = "refused"] = [pc |-> "refused", name |-> signup[s].name]
    BY <1>2 DEF Signup
  <2>3. signup' = [signup EXCEPT ![s] = [pc |-> "refused", name |-> signup[s].name]]
    BY <2>1, <2>2
  <2> QED BY <1>1, <1>2, <1>4, <2>3 DEF SignupInserts, Signup
<1> QED BY <1>3, <1>4

LEMMA AccountsTypeStep == ASSUME AccountsTypeOK, [AccountsNext]_accountsVars PROVE AccountsTypeOK'
<1> USE DEF AccountsTypeOK, UserNames
<1>1. ASSUME NEW s \in Signups, SignupInserts(s) PROVE AccountsTypeOK'
  BY <1>1, InsertEffect DEF Signup
<1>2. ASSUME NEW s \in Signups, NEW n \in OwnerNames, SignupBegins(s, n) PROVE AccountsTypeOK'
  BY <1>2 DEF SignupBegins
<1>3. ASSUME NEW u \in users, NEW n \in OwnerNames, CreateOrg(u, n) PROVE AccountsTypeOK'
  BY <1>3 DEF CreateOrg
<1>4. ASSUME NEW u \in users, NEW n \in OwnerNames, NEW t \in users, AddOrgMember(u, n, t)
      PROVE  AccountsTypeOK'
  BY <1>4 DEF AddOrgMember, Invited
<1>5. CASE UNCHANGED accountsVars BY <1>5 DEF accountsVars
<1> QED BY <1>1, <1>2, <1>3, <1>4, <1>5 DEF AccountsNext

\* What makes the flat name space inductive is the signup that hashes under a name: an
\* org of that name is one of the crossed ones.
CrossedWhileHashing ==
  \A s \in Signups :
    signup[s].pc = "hashing" /\ signup[s].name \in orgs => signup[s].name \in crossed

LEMMA FlatStep ==
  ASSUME AccountsTypeOK, NamesAreFlat, CrossedWhileHashing, [AccountsNext]_accountsVars
  PROVE  (NamesAreFlat /\ CrossedWhileHashing)'
<1> USE DEF AccountsTypeOK, UserNames, NamesAreFlat, CrossedWhileHashing
<1>1. ASSUME NEW s \in Signups, SignupInserts(s) PROVE (NamesAreFlat /\ CrossedWhileHashing)'
  <2>1. orgs' = orgs /\ crossed' = crossed BY <1>1, InsertEffect
  <2>2. users' \subseteq users \cup {signup[s].name} BY <1>1, InsertEffect
  <2>3. signup[s].name \in orgs => signup[s].name \in crossed BY <1>1, InsertEffect
  <2>4. NamesAreFlat' BY <2>1, <2>2, <2>3
  <2>5. ASSUME NEW t \in Signups, signup'[t].pc = "hashing"
        PROVE  t # s /\ signup'[t] = signup[t]
    BY <1>1, <2>5, InsertEffect
  <2>6. CrossedWhileHashing' BY <2>1, <2>5
  <2> QED BY <2>4, <2>6
<1>2. ASSUME NEW s \in Signups, NEW n \in OwnerNames, SignupBegins(s, n)
      PROVE  (NamesAreFlat /\ CrossedWhileHashing)'
  BY <1>2 DEF SignupBegins, NameFreeForUser
<1>3. ASSUME NEW u \in users, NEW n \in OwnerNames, CreateOrg(u, n)
      PROVE  (NamesAreFlat /\ CrossedWhileHashing)'
  BY <1>3 DEF CreateOrg, NameFreeForOrg, Hashing
<1>4. ASSUME NEW u \in users, NEW n \in OwnerNames, NEW t \in users, AddOrgMember(u, n, t)
      PROVE  (NamesAreFlat /\ CrossedWhileHashing)'
  BY <1>4 DEF AddOrgMember
<1>5. CASE UNCHANGED accountsVars BY <1>5 DEF accountsVars
<1> QED BY <1>1, <1>2, <1>3, <1>4, <1>5 DEF AccountsNext

LEMMA OwnerStep ==
  ASSUME AccountsTypeOK, OrgsKeepAnOwner, [AccountsNext]_accountsVars PROVE OrgsKeepAnOwner'
<1> USE DEF AccountsTypeOK, OrgsKeepAnOwner
<1>1. ASSUME NEW s \in Signups, SignupInserts(s) PROVE OrgsKeepAnOwner'
  BY <1>1, InsertEffect
<1>2. ASSUME NEW s \in Signups, NEW n \in OwnerNames, SignupBegins(s, n) PROVE OrgsKeepAnOwner'
  BY <1>2 DEF SignupBegins
<1>3. ASSUME NEW u \in users, NEW n \in OwnerNames, CreateOrg(u, n) PROVE OrgsKeepAnOwner'
  <2>1. role'[n][u] = "owner" BY <1>3 DEF CreateOrg
  <2>2. \A o \in orgs : role'[o] = role[o] BY <1>3 DEF CreateOrg, NameFreeForOrg
  <2> QED BY <1>3, <2>1, <2>2 DEF CreateOrg
<1>4. ASSUME NEW u \in users, NEW n \in OwnerNames, NEW t \in users, AddOrgMember(u, n, t)
      PROVE  OrgsKeepAnOwner'
  <2>1. \A o \in orgs, v \in UserNames : role[o][v] = "owner" => role'[o][v] = "owner"
    BY <1>4 DEF AddOrgMember, Invited
  <2> QED BY <1>4, <2>1 DEF AddOrgMember
<1>5. CASE UNCHANGED accountsVars BY <1>5 DEF accountsVars
<1> QED BY <1>1, <1>2, <1>3, <1>4, <1>5 DEF AccountsNext

MadeHasRow == \A s \in Signups : signup[s].pc = "made" => signup[s].name \in users

LEMMA SignupStep ==
  ASSUME AccountsTypeOK, OneSignupPerName, MadeHasRow, [AccountsNext]_accountsVars
  PROVE  (OneSignupPerName /\ MadeHasRow)'
<1> USE DEF AccountsTypeOK, OneSignupPerName, MadeHasRow
<1>1. ASSUME NEW s \in Signups, SignupInserts(s) PROVE (OneSignupPerName /\ MadeHasRow)'
  BY <1>1, InsertEffect
<1>2. ASSUME NEW s \in Signups, NEW n \in OwnerNames, SignupBegins(s, n)
      PROVE  (OneSignupPerName /\ MadeHasRow)'
  BY <1>2 DEF SignupBegins
<1>3. ASSUME NEW u \in users, NEW n \in OwnerNames, CreateOrg(u, n)
      PROVE  (OneSignupPerName /\ MadeHasRow)'
  BY <1>3 DEF CreateOrg
<1>4. ASSUME NEW u \in users, NEW n \in OwnerNames, NEW t \in users, AddOrgMember(u, n, t)
      PROVE  (OneSignupPerName /\ MadeHasRow)'
  BY <1>4 DEF AddOrgMember
<1>5. CASE UNCHANGED accountsVars BY <1>5 DEF accountsVars
<1> QED BY <1>1, <1>2, <1>3, <1>4, <1>5 DEF AccountsNext

AccountsInv ==
  /\ AccountsTypeOK /\ NamesAreFlat /\ CrossedWhileHashing
  /\ OrgsKeepAnOwner /\ OneSignupPerName /\ MadeHasRow

LEMMA AccountsStart == AccountsInit => AccountsInv
BY AccountsTypeInit DEF AccountsInit, AccountsInv, NamesAreFlat, CrossedWhileHashing,
   OrgsKeepAnOwner, OneSignupPerName, MadeHasRow

LEMMA AccountsStep == AccountsInv /\ [AccountsNext]_accountsVars => AccountsInv'
BY AccountsTypeStep, FlatStep, OwnerStep, SignupStep DEF AccountsInv

LEMMA AccountsAlways == AccountsSpec => []AccountsInv
BY AccountsStart, AccountsStep, PTL DEF AccountsSpec

\* Every variable of Accounts keeps its type, and a membership is between rows that exist.
THEOREM AccountsTypes == AccountsSpec => []AccountsTypeOK
<1>1. AccountsInv => AccountsTypeOK BY DEF AccountsInv
<1> QED BY <1>1, AccountsAlways, PTL

\* No name is both a user's and an org's, except where the org was created while the
\* user's password was hashed.
THEOREM FlatNames == AccountsSpec => []NamesAreFlat
<1>1. AccountsInv => NamesAreFlat BY DEF AccountsInv
<1> QED BY <1>1, AccountsAlways, PTL

\* Every org has an owner, whatever invitations are sent.
THEOREM OwnersStay == AccountsSpec => []OrgsKeepAnOwner
<1>1. AccountsInv => OrgsKeepAnOwner BY DEF AccountsInv
<1> QED BY <1>1, AccountsAlways, PTL

\* However many signups of one name run at once, one of them makes the user.
THEOREM OneSignupWins == AccountsSpec => []OneSignupPerName
<1>1. AccountsInv => OneSignupPerName BY DEF AccountsInv
<1> QED BY <1>1, AccountsAlways, PTL

\* All that the accounts promise.
THEOREM AccountsAreSafe == AccountsSpec => []AccountsSafe
<1>1. AccountsInv => AccountsSafe BY DEF AccountsInv, AccountsSafe
<1> QED BY <1>1, AccountsAlways, PTL

-------------------------------------------------------------------------------
(***************************************************************************)
(* SignIn. The token endpoint is a sequence of awaits, so the invariant    *)
(* follows a code through them: while its row is there nobody has got      *)
(* past consumeCode with it, and at most one request at a time is between  *)
(* consumeCode and the answer with it. A verifier is in one place at a     *)
(* time, and a deploy knows by each step what still runs.                  *)
(***************************************************************************)

Redeeming(f, i, c) == tokenCall[f][i].pc = "pkce" /\ c \in tokenCall[f][i].code

Undrawn == \A c \in Codes : c > drawnCodes => codeRows[c] = NoRow

Unspent ==
  \A c \in Codes :
    codeRows[c] # NoRow \/ c > drawnCodes =>
      /\ grants[c] = 0
      /\ \A f \in Flows, i \in Tries : ~Redeeming(f, i, c)

OneRedeemer ==
  \A f, g \in Flows, i, j \in Tries, c \in Codes :
    Redeeming(f, i, c) =>
      /\ grants[c] = 0
      /\ Redeeming(g, j, c) => g = f /\ j = i

CodesInv == Undrawn /\ Unspent /\ OneRedeemer /\ CodeOnce

\* A verifier is in one place: no container has it before its flow begins, one at most until
\* a browser presents its state, none after.
VerifierOnce ==
  /\ \A f, g \in Flows : f # g => presented[f] \cap presented[g] = {}
  /\ \A f, g \in Flows, s \in Secrets : g \in pending[s] => g \notin presented[f]
  /\ \A s, t \in Secrets : s # t => pending[s] \cap pending[t] = {}
  /\ \A f, g \in Flows, s \in Secrets :
       browser[g] = "home" => g \notin pending[s] /\ g \notin presented[f]

Before == {"home", "provider", "callback"}

\* A request is sent for a browser that came back, and a grant is for the state it came with.
GrantedToPresented ==
  \A f \in Flows :
    /\ signedInAs[f] \subseteq presented[f]
    /\ browser[f] \in Before => signedInAs[f] = {}
    /\ \A i \in Tries :
         /\ browser[f] \in Before => tokenCall[f][i].pc = "off"
         /\ tokenCall[f][i].pc = "granted" => tokenCall[f][i].row = presented[f]

\* What a deploy has done by each of its steps.
DeployInv ==
  /\ rollout.pc = "idle" => rollout.app = {}
  /\ rollout.pc # "idle" => \E a \in Relying : rollout.app = {a}
  /\ rollout.pc = "stopped" => minted < MaxSecrets
  /\ rollout.pc = "minted" => minted \in Secrets /\ container[minted] = {}
  /\ \A s \in Secrets : s > minted => container[s] = {}
  /\ \A a \in rollout.app :
       /\ a \notin stopFailed => \A s \in Secrets : container[s] # {a}
       /\ rollout.pc = "minted" => clientRow[clientOf[a]].secret = minted

SignInInv ==
  SignInTypeOK /\ CodesInv /\ VerifierOnce /\ GrantedToPresented /\ DeployInv /\ SecretInLockstep

-------------------------------------------------------------------------------
\* What becomes of the requests when one of them changes.
LEMMA OneCallChanges ==
  ASSUME SignInTypeOK, NEW f \in Flows, NEW i \in Tries, NEW t \in Calls,
         tokenCall' = [tokenCall EXCEPT ![f][i] = t]
  PROVE  /\ tokenCall' \in [Flows -> [Tries -> Calls]]
         /\ tokenCall'[f][i] = t
         /\ \A g \in Flows, j \in Tries :
              ~(g = f /\ j = i) => tokenCall'[g][j] = tokenCall[g][j]
<1>1. tokenCall \in [Flows -> [Tries -> Calls]] BY DEF SignInTypeOK
<1> QED BY <1>1

LEMMA NoCallIsCall == NoCall \in Calls /\ NoCall.pc = "off"
BY SignInAssumption DEF NoCall, Calls, AtMostOne, NoRow

LEMMA SignInStart == SignInInit => SignInInv
<1> SUFFICES ASSUME SignInInit PROVE SignInInv OBVIOUS
<1> USE SignInAssumption DEF SignInInit
<1>1. tokenCall \in [Flows -> [Tries -> Calls]] BY NoCallIsCall
<1>2. minted \in 0..MaxSecrets /\ drawnCodes \in 0..MaxCodes OBVIOUS
<1>3. rollout \in [pc : {"idle", "stopped", "minted"}, app : AtMostOne(Relying)]
  BY DEF NoRollout, AtMostOne
<1>4. clientRow \in [Clients -> [secret : 0..MaxSecrets, app : AtMostOne(Relying)]]
  BY DEF AtMostOne
<1>5. SignInTypeOK BY <1>1, <1>2, <1>3, <1>4 DEF SignInTypeOK, AtMostOne, NoRow
<1>6. CodesInv
  BY DEF CodesInv, Undrawn, Unspent, OneRedeemer, CodeOnce, Redeeming, NoCall, NoRow
<1>7. VerifierOnce BY DEF VerifierOnce
<1>8. GrantedToPresented BY NoCallIsCall DEF GrantedToPresented
<1>9. DeployInv /\ SecretInLockstep
  BY DEF DeployInv, SecretInLockstep, HoldsStored, Running, NoRollout
<1> QED BY <1>5, <1>6, <1>7, <1>8, <1>9 DEF SignInInv

\* Steps that neither touch the codes nor put a request past consumeCode.
LEMMA CodesUntouched ==
  ASSUME CodesInv, UNCHANGED <<codeRows, drawnCodes, grants>>,
         \A f \in Flows, i \in Tries :
           tokenCall'[f][i].pc = "pkce" => tokenCall'[f][i] = tokenCall[f][i]
  PROVE  CodesInv'
BY DEF CodesInv, Undrawn, Unspent, OneRedeemer, CodeOnce, Redeeming

\* Steps that leave the deploys alone.
LEMMA DeployUntouched ==
  ASSUME DeployInv, SecretInLockstep, UNCHANGED clientVars
  PROVE  DeployInv' /\ SecretInLockstep'
BY DEF clientVars, DeployInv, SecretInLockstep, HoldsStored, Shared, Running

-------------------------------------------------------------------------------
\* The old containers go, except those that a failed stop left.
LEMMA DeployStopsKeeps == ASSUME SignInInv, NEW a \in Relying, DeployStops(a) PROVE SignInInv'
<1> USE SignInAssumption DEF SignInInv, SignInTypeOK
<1>1. PICK left \in SUBSET Running(a) :
        /\ container' = [s \in Secrets |-> IF s \in Running(a) \ left THEN {} ELSE container[s]]
        /\ pending' = [s \in Secrets |-> IF s \in Running(a) \ left THEN {} ELSE pending[s]]
        /\ stopFailed' = IF left = {} THEN stopFailed \ {a} ELSE stopFailed \cup {a}
  BY DEF DeployStops
<1>2. /\ rollout.pc = "idle" /\ rollout' = [pc |-> "stopped", app |-> {a}] /\ minted < MaxSecrets
      /\ UNCHANGED <<clientOf, clientRow, minted, codeRows, drawnCodes, grants, browser, flowApp,
                     presented, signedInAs, tokenCall>>
  BY DEF DeployStops, codeVars, browserVars
<1>3. SignInTypeOK'
  <2>1. container' \in [Secrets -> AtMostOne(Relying)] BY <1>1 DEF AtMostOne
  <2>2. pending' \in [Secrets -> SUBSET Flows] BY <1>1
  <2>3. rollout' \in [pc : {"idle", "stopped", "minted"}, app : AtMostOne(Relying)]
    BY <1>2 DEF AtMostOne
  <2>4. stopFailed' \subseteq Relying BY <1>1
  <2> QED BY <1>2, <2>1, <2>2, <2>3, <2>4
<1>4. CodesInv' BY <1>2, CodesUntouched
<1>5. VerifierOnce' BY <1>1, <1>2 DEF VerifierOnce
<1>6. GrantedToPresented' BY <1>2 DEF GrantedToPresented
<1>7. DeployInv'
  <2>1. \A s \in Secrets : s > minted => container'[s] = {} BY <1>1 DEF DeployInv
  <2>2. a \notin stopFailed' => \A s \in Secrets : container'[s] # {a} BY <1>1 DEF Running
  <2> QED BY <1>2, <2>1, <2>2 DEF DeployInv
<1>8. SecretInLockstep'
  <2>1. \A b \in Relying \ {a} : \A s \in Secrets : container'[s] = {b} => container[s] = {b}
    BY <1>1
  <2>2. \A b \in Relying \ {a} : b \in stopFailed => b \in stopFailed' BY <1>1
  <2> QED BY <1>2, <2>1, <2>2 DEF DeployInv, SecretInLockstep, HoldsStored, Shared, Running
<1> QED BY <1>3, <1>4, <1>5, <1>6, <1>7, <1>8

\* The hash of a new secret: the containers of an app of another client keep theirs.
LEMMA ProvisionKeeps ==
  ASSUME SignInInv, NEW a \in Relying, ProvisionAppClient(a) PROVE SignInInv'
<1> USE SignInAssumption DEF SignInInv, SignInTypeOK
<1>1. /\ rollout = [pc |-> "stopped", app |-> {a}] /\ rollout' = [pc |-> "minted", app |-> {a}]
      /\ minted' = minted + 1
      /\ clientRow' = [clientRow EXCEPT ![clientOf[a]] = [secret |-> minted', app |-> {a}]]
      /\ UNCHANGED <<clientOf, container, stopFailed, pending, codeRows, drawnCodes, grants,
                     browser, flowApp, presented, signedInAs, tokenCall>>
  BY DEF ProvisionAppClient, codeVars, browserVars
<1>2. minted < MaxSecrets /\ minted \in Nat /\ minted' \in 1..MaxSecrets BY <1>1 DEF DeployInv
<1>3. SignInTypeOK'
  <2>1. clientRow' \in [Clients -> [secret : 0..MaxSecrets, app : AtMostOne(Relying)]]
    <3>1. [secret |-> minted', app |-> {a}] \in [secret : 0..MaxSecrets, app : AtMostOne(Relying)]
      BY <1>2 DEF AtMostOne
    <3> QED BY <1>1, <3>1
  <2>2. rollout' \in [pc : {"idle", "stopped", "minted"}, app : AtMostOne(Relying)]
    BY <1>1 DEF AtMostOne
  <2>3. minted' \in 0..MaxSecrets BY <1>2
  <2> QED BY <1>1, <2>1, <2>2, <2>3
<1>4. CodesInv' BY <1>1, CodesUntouched
<1>5. VerifierOnce' /\ GrantedToPresented' BY <1>1 DEF VerifierOnce, GrantedToPresented
<1>6. DeployInv'
  <2>1. clientRow'[clientOf'[a]].secret = minted' BY <1>1
  <2>2. \A s \in Secrets : s > minted' => container'[s] = {}
    <3>1. \A s \in Secrets : s > minted => container[s] = {} BY DEF DeployInv
    <3> QED BY <1>1, <1>2, <3>1 DEF Secrets
  <2>3. minted' \in Secrets /\ container'[minted'] = {}
    <3>1. minted' \in Secrets /\ minted' > minted BY <1>1, <1>2 DEF Secrets
    <3> QED BY <1>1, <3>1 DEF DeployInv
  <2>4. a \notin stopFailed' => \A s \in Secrets : container'[s] # {a} BY <1>1 DEF DeployInv
  <2>5. rollout'.pc = "minted" /\ rollout'.app = {a} BY <1>1
  <2> QED BY <2>1, <2>2, <2>3, <2>4, <2>5 DEF DeployInv
<1>7. SecretInLockstep'
  <2>1. \A b \in Relying \ {a} : ~Shared(b) => clientRow'[clientOf[b]] = clientRow[clientOf[b]]
    BY <1>1 DEF Shared
  <2> QED BY <1>1, <2>1 DEF SecretInLockstep, HoldsStored, Shared, Running
<1> QED BY <1>3, <1>4, <1>5, <1>6, <1>7

\* The deploy is over, and a container of the app runs with the secret that was minted; or
\* none was started.
LEMMA RolloutEndsKeeps ==
  ASSUME SignInInv, rollout.pc # "idle", rollout' = NoRollout,
         \/ UNCHANGED container
         \/ rollout.pc = "minted" /\ container' = [container EXCEPT ![minted] = rollout.app],
         UNCHANGED <<clientOf, clientRow, minted, stopFailed, pending, codeVars, browserVars,
                     tokenCall>>
  PROVE  SignInInv'
<1> USE SignInAssumption DEF SignInInv, SignInTypeOK, codeVars, browserVars
<1>1. PICK a \in Relying : rollout.app = {a} BY DEF DeployInv
<1>2. rollout'.pc = "idle" /\ rollout'.app = {} BY DEF NoRollout
<1>3. rollout.pc = "minted" => minted \in Secrets /\ container[minted] = {} BY DEF DeployInv
<1>4. SignInTypeOK'
  <2>1. container' \in [Secrets -> AtMostOne(Relying)]
    <3>1. rollout.app \in AtMostOne(Relying) OBVIOUS
    <3> QED BY <3>1
  <2>2. rollout' \in [pc : {"idle", "stopped", "minted"}, app : AtMostOne(Relying)]
    BY DEF NoRollout, AtMostOne
  <2> QED BY <2>1, <2>2
<1>5. CodesInv' BY CodesUntouched
<1>6. VerifierOnce' /\ GrantedToPresented' BY DEF VerifierOnce, GrantedToPresented
<1>7. DeployInv'
  <2>1. \A s \in Secrets : s > minted => container'[s] = {} BY <1>3 DEF DeployInv, Secrets
  <2> QED BY <1>2, <2>1 DEF DeployInv
<1>8. SecretInLockstep'
  <2>1. SUFFICES ASSUME NEW b \in Relying, b \notin stopFailed, ~Shared(b),
                        NEW s \in Secrets, container'[s] = {b}
                 PROVE  clientRow[clientOf[b]].secret = s
    BY DEF SecretInLockstep, HoldsStored, Shared, Running
  <2>2. CASE b = a
    <3>1. container[s] # {a} BY <1>1, <2>1, <2>2 DEF DeployInv
    <3>2. rollout.pc = "minted" /\ s = minted BY <1>1, <1>3, <2>1, <2>2, <3>1
    <3> QED BY <1>1, <2>2, <3>2 DEF DeployInv
  <2>3. CASE b # a
    <3>1. container[s] = {b}
      <4>1. CASE UNCHANGED container BY <2>1, <4>1
      <4>2. CASE rollout.pc = "minted" /\ container' = [container EXCEPT ![minted] = {a}]
        <5>1. container'[minted] = {a} BY <1>3, <4>2
        <5>2. s # minted BY <2>1, <2>3, <5>1
        <5> QED BY <2>1, <4>2, <5>2
      <4> QED BY <1>1, <4>1, <4>2
    <3> QED BY <1>1, <2>1, <2>3, <3>1 DEF SecretInLockstep, HoldsStored, Running
  <2> QED BY <2>2, <2>3
<1> QED BY <1>4, <1>5, <1>6, <1>7, <1>8

-------------------------------------------------------------------------------
\* A flow begins: its verifier is in no container and was never presented.
LEMMA LoginKeeps ==
  ASSUME SignInInv, NEW f \in Flows, NEW a \in Relying, NEW s \in Secrets, Login(f, a, s)
  PROVE  SignInInv'
<1> USE DEF SignInInv, SignInTypeOK
<1>1. /\ browser[f] = "home" /\ pending' = [pending EXCEPT ![s] = pending[s] \cup {f}]
      /\ flowApp' = [flowApp EXCEPT ![f] = {a}] /\ browser' = [browser EXCEPT ![f] = "provider"]
      /\ UNCHANGED clientVars
      /\ UNCHANGED <<codeRows, drawnCodes, grants, presented, signedInAs, tokenCall>>
  BY DEF Login, codeVars
<1>2. SignInTypeOK'
  <2>1. pending' \in [Secrets -> SUBSET Flows] BY <1>1
  <2>2. flowApp' \in [Flows -> AtMostOne(Relying)] BY <1>1 DEF AtMostOne
  <2>3. browser' \in [Flows -> {"home", "provider", "callback", "waiting", "in", "refused"}]
    BY <1>1
  <2> QED BY <1>1, <2>1, <2>2, <2>3 DEF clientVars
<1>3. CodesInv' BY <1>1, CodesUntouched
<1>4. VerifierOnce' BY <1>1 DEF VerifierOnce
<1>5. GrantedToPresented' BY <1>1 DEF GrantedToPresented, Before
<1>6. DeployInv' /\ SecretInLockstep' BY <1>1, DeployUntouched
<1> QED BY <1>2, <1>3, <1>4, <1>5, <1>6

\* A fresh code: nobody was granted anything for it.
LEMMA AuthorizeKeeps ==
  ASSUME SignInInv, NEW f \in Flows, Authorize(f)
  PROVE  SignInInv'
<1> USE SignInAssumption DEF SignInInv, SignInTypeOK
<1>1. /\ UNCHANGED clientVars
      /\ UNCHANGED <<pending, grants, flowApp, presented, signedInAs, tokenCall>>
      /\ browser[f] \in Before
      /\ \E pc \in {"callback", "refused"} : browser' = [browser EXCEPT ![f] = pc]
  BY DEF Authorize, Before
<1>2. /\ browser' \in [Flows -> {"home", "provider", "callback", "waiting", "in", "refused"}]
      /\ \A g \in Flows : browser'[g] \in Before => browser[g] \in Before
      /\ \A g \in Flows : browser'[g] = "home" => browser[g] = "home"
  BY <1>1
<1>3. VerifierOnce' BY <1>1, <1>2 DEF VerifierOnce
<1>4. GrantedToPresented' BY <1>1, <1>2 DEF GrantedToPresented
<1>5. DeployInv' /\ SecretInLockstep' BY <1>1, DeployUntouched
<1>6. /\ codeRows' \in [Codes -> CodeRow \cup {NoRow}] /\ drawnCodes' \in 0..MaxCodes
      /\ CodesInv'
  <2>1. CASE UNCHANGED <<drawnCodes, codeRows>> BY <1>1, <2>1, CodesUntouched
  <2>2. CASE ~UNCHANGED <<drawnCodes, codeRows>>
    <3> DEFINE c == drawnCodes + 1
    <3>1. /\ c \in Codes /\ drawnCodes' = c /\ drawnCodes \in Nat
          /\ codeRows' = [codeRows EXCEPT ![c] = {f}]
      BY <2>2 DEF Authorize, Codes
    <3> HIDE DEF c
    <3>2. codeRows' \in [Codes -> CodeRow \cup {NoRow}] BY <3>1 DEF CodeRow
    <3>3. drawnCodes' \in 0..MaxCodes BY <3>1 DEF Codes
    <3>4. \A d \in Codes : (d > drawnCodes' \/ codeRows'[d] # NoRow) =>
                             (d > drawnCodes \/ codeRows[d] # NoRow)
      BY <3>1 DEF Codes, c
    <3>5. Undrawn' BY <3>1 DEF Undrawn, CodesInv, Codes, c
    <3>6. Unspent' BY <1>1, <3>4 DEF Unspent, CodesInv, Redeeming
    <3>7. OneRedeemer' /\ CodeOnce' BY <1>1 DEF OneRedeemer, CodesInv, Redeeming, CodeOnce
    <3> QED BY <3>2, <3>3, <3>5, <3>6, <3>7 DEF CodesInv
  <2> QED BY <2>1, <2>2
<1>7. SignInTypeOK' BY <1>1, <1>2, <1>6 DEF clientVars
<1> QED BY <1>3, <1>4, <1>5, <1>6, <1>7

\* A browser comes back with a state: its verifier leaves the container and is presented, once.
LEMMA CallbackKeeps ==
  ASSUME SignInInv, NEW f \in Flows, NEW g \in Flows, NEW a \in Relying, NEW s \in Secrets,
         Callback(f, g, a, s)
  PROVE  SignInInv'
<1> USE SignInAssumption DEF SignInInv
<1>1. /\ browser[f] \in Before /\ g \in pending[s]
      /\ pending' = [pending EXCEPT ![s] = pending[s] \ {g}]
      /\ presented' = [presented EXCEPT ![f] = {g}]
      /\ UNCHANGED clientVars
      /\ UNCHANGED <<codeRows, drawnCodes, grants, flowApp, signedInAs>>
      /\ \E pc \in {"waiting", "refused"} : browser' = [browser EXCEPT ![f] = pc]
  BY DEF Callback, Before, codeVars
<1>2. \/ tokenCall' = tokenCall
      \/ \E t \in Calls : t.pc = "sent" /\ tokenCall' = [tokenCall EXCEPT ![f][1] = t]
  <2>1. ASSUME NEW c \in 1..drawnCodes
        PROVE  [NoCall EXCEPT !.pc = "sent", !.app = {a}, !.code = {c}, !.secret = s] \in Calls
    <3>1. drawnCodes \in 0..MaxCodes BY DEF SignInTypeOK
    <3>2. c \in Codes /\ s \in 0..MaxSecrets BY <3>1 DEF Codes, Secrets
    <3>3. {a} \in AtMostOne(Relying) /\ {c} \in AtMostOne(Codes) BY <3>2 DEF AtMostOne
    <3>4. NoCall \in Calls BY NoCallIsCall
    <3> QED BY <3>2, <3>3, <3>4 DEF Calls
  <2>2. ASSUME NEW c \in 1..drawnCodes
        PROVE  [NoCall EXCEPT !.pc = "sent", !.app = {a}, !.code = {c}, !.secret = s].pc = "sent"
    BY DEF NoCall
  <2> QED BY <2>1, <2>2 DEF Callback
<1>3. /\ tokenCall' \in [Flows -> [Tries -> Calls]]
      /\ \A h \in Flows, j \in Tries :
           tokenCall'[h][j] = tokenCall[h][j] \/ (h = f /\ tokenCall'[h][j].pc = "sent")
  <2>1. CASE tokenCall' = tokenCall BY <2>1 DEF SignInTypeOK
  <2>2. ASSUME NEW t \in Calls, t.pc = "sent", tokenCall' = [tokenCall EXCEPT ![f][1] = t]
        PROVE  /\ tokenCall' \in [Flows -> [Tries -> Calls]]
               /\ \A h \in Flows, j \in Tries :
                    tokenCall'[h][j] = tokenCall[h][j] \/ (h = f /\ tokenCall'[h][j].pc = "sent")
    <3>1. 1 \in Tries BY DEF Tries
    <3>2. /\ tokenCall' \in [Flows -> [Tries -> Calls]]
          /\ tokenCall'[f][1] = t
          /\ \A h \in Flows, j \in Tries : ~(h = f /\ j = 1) => tokenCall'[h][j] = tokenCall[h][j]
      BY <2>2, <3>1, OneCallChanges
    <3>3. ASSUME NEW h \in Flows, NEW j \in Tries
          PROVE  tokenCall'[h][j] = tokenCall[h][j] \/ (h = f /\ tokenCall'[h][j].pc = "sent")
      BY <2>2, <3>2, <3>3
    <3> QED BY <3>2, <3>3
  <2> QED BY <1>2, <2>1, <2>2
<1> USE DEF SignInTypeOK
<1>4. /\ browser' \in [Flows -> {"home", "provider", "callback", "waiting", "in", "refused"}]
      /\ browser'[f] \notin Before
      /\ \A h \in Flows \ {f} : browser'[h] = browser[h]
  BY <1>1 DEF Before
<1>5. SignInTypeOK'
  <2>1. pending' \in [Secrets -> SUBSET Flows] BY <1>1
  <2>2. presented' \in [Flows -> AtMostOne(Flows)] BY <1>1 DEF AtMostOne
  <2> QED BY <1>1, <1>3, <1>4, <2>1, <2>2 DEF clientVars
<1>6. CodesInv' BY <1>1, <1>3, CodesUntouched
<1>7. VerifierOnce'
  <2>1. \A h \in Flows : g \notin presented[h] BY <1>1 DEF VerifierOnce
  <2>2. \A r \in Secrets : g \notin pending'[r] /\ pending'[r] \subseteq pending[r]
    BY <1>1 DEF VerifierOnce
  <2>3. presented'[f] = {g} /\ \A h \in Flows \ {f} : presented'[h] = presented[h] BY <1>1
  <2>4. browser[g] # "home" BY <1>1 DEF VerifierOnce
  <2>5. \A h \in Flows : browser'[h] = "home" => browser[h] = "home" /\ h # g
    BY <1>4, <2>4 DEF Before
  <2>6. \A r \in Secrets : r # s => pending'[r] = pending[r] BY <1>1
  <2>7. \A r, t \in Secrets : r # t => pending'[r] \cap pending'[t] = {} BY <2>2 DEF VerifierOnce
  <2>8. \A h, k \in Flows : h # k => presented'[h] \cap presented'[k] = {}
    BY <2>1, <2>3 DEF VerifierOnce
  <2>9. \A h, k \in Flows, r \in Secrets : k \in pending'[r] => k \notin presented'[h]
    BY <2>2, <2>3 DEF VerifierOnce
  <2>10. \A h, k \in Flows, r \in Secrets :
           browser'[k] = "home" => k \notin pending'[r] /\ k \notin presented'[h]
    BY <2>2, <2>3, <2>5 DEF VerifierOnce
  <2> QED BY <2>7, <2>8, <2>9, <2>10 DEF VerifierOnce
<1>8. GrantedToPresented'
  <2>1. signedInAs[f] = {} /\ \A j \in Tries : tokenCall[f][j].pc = "off"
    BY <1>1 DEF GrantedToPresented
  <2>2. \A h \in Flows \ {f} : presented'[h] = presented[h] BY <1>1
  <2> QED BY <1>1, <1>3, <1>4, <2>1, <2>2 DEF GrantedToPresented
<1>9. DeployInv' /\ SecretInLockstep' BY <1>1, DeployUntouched
<1> QED BY <1>5, <1>6, <1>7, <1>8, <1>9

LEMMA BadCallbackKeeps ==
  ASSUME SignInInv, NEW f \in Flows, NEW g \in Flows, NEW a \in Relying, NEW s \in Secrets,
         BadCallback(f, g, a, s)
  PROVE  SignInInv'
<1> USE DEF SignInInv, SignInTypeOK
<1>1. /\ browser[f] = "callback" /\ browser' = [browser EXCEPT ![f] = "refused"]
      /\ UNCHANGED clientVars
      /\ UNCHANGED <<pending, codeRows, drawnCodes, grants, flowApp, presented, signedInAs,
                     tokenCall>>
  BY DEF BadCallback, codeVars
<1>2. SignInTypeOK' BY <1>1 DEF clientVars
<1>3. CodesInv' BY <1>1, CodesUntouched
<1>4. VerifierOnce' BY <1>1 DEF VerifierOnce
<1>5. GrantedToPresented' BY <1>1 DEF GrantedToPresented, Before
<1>6. DeployInv' /\ SecretInLockstep' BY <1>1, DeployUntouched
<1> QED BY <1>2, <1>3, <1>4, <1>5, <1>6

\* The same request once more.
LEMMA ResendKeeps == ASSUME SignInInv, NEW f \in Flows, Resend(f) PROVE SignInInv'
<1> USE SignInAssumption DEF SignInInv
<1> DEFINE t == [tokenCall[f][1] EXCEPT !.pc = "sent", !.row = NoRow]
<1>1. /\ browser[f] = "waiting" /\ tokenCall' = [tokenCall EXCEPT ![f][2] = t]
      /\ UNCHANGED clientVars
      /\ UNCHANGED <<pending, codeRows, drawnCodes, grants, browser, flowApp, presented,
                     signedInAs>>
  BY DEF Resend, codeVars, browserVars
<1>2. 1 \in Tries /\ 2 \in Tries BY DEF Tries
<1>3. t \in Calls /\ t.pc = "sent"
  <2>1. tokenCall[f][1] \in Calls BY <1>2 DEF SignInTypeOK
  <2> QED BY <2>1 DEF Calls
<1> HIDE DEF t
<1>4. /\ tokenCall' \in [Flows -> [Tries -> Calls]]
      /\ tokenCall'[f][2] = t
      /\ \A h \in Flows, j \in Tries : ~(h = f /\ j = 2) => tokenCall'[h][j] = tokenCall[h][j]
  BY <1>1, <1>2, <1>3, OneCallChanges
<1>5. SignInTypeOK' BY <1>1, <1>4 DEF SignInTypeOK, clientVars
<1>6. CodesInv'
  <2>1. \A h \in Flows, j \in Tries :
          tokenCall'[h][j].pc = "pkce" => tokenCall'[h][j] = tokenCall[h][j]
    BY <1>3, <1>4
  <2> QED BY <1>1, <2>1, CodesUntouched
<1>7. VerifierOnce' BY <1>1 DEF VerifierOnce
<1>8. GrantedToPresented' BY <1>1, <1>3, <1>4 DEF GrantedToPresented, Before
<1>9. DeployInv' /\ SecretInLockstep' BY <1>1, DeployUntouched
<1> QED BY <1>5, <1>6, <1>7, <1>8, <1>9

\* The token of a granted request is for the flow that was presented.
LEMMA FinishKeeps ==
  ASSUME SignInInv, NEW f \in Flows, NEW i \in Tries, Finish(f, i) PROVE SignInInv'
<1> USE DEF SignInInv
<1>1. /\ browser[f] = "waiting" /\ tokenCall' = [tokenCall EXCEPT ![f][i] = NoCall]
      /\ UNCHANGED clientVars
      /\ UNCHANGED <<pending, codeRows, drawnCodes, grants, flowApp, presented>>
      /\ \E pc \in {"in", "refused"} : browser' = [browser EXCEPT ![f] = pc]
      /\ \/ UNCHANGED signedInAs
         \/ /\ tokenCall[f][i].pc = "granted"
            /\ signedInAs' = [signedInAs EXCEPT ![f] = tokenCall[f][i].row]
  BY DEF Finish, codeVars
<1>2. /\ tokenCall' \in [Flows -> [Tries -> Calls]]
      /\ tokenCall'[f][i] = NoCall
      /\ \A h \in Flows, j \in Tries : ~(h = f /\ j = i) => tokenCall'[h][j] = tokenCall[h][j]
  BY <1>1, NoCallIsCall, OneCallChanges
<1>3. \/ UNCHANGED signedInAs
      \/ signedInAs' = [signedInAs EXCEPT ![f] = presented[f]]
  BY <1>1 DEF GrantedToPresented
<1> USE DEF SignInTypeOK
<1>4. /\ browser' \in [Flows -> {"home", "provider", "callback", "waiting", "in", "refused"}]
      /\ browser'[f] \notin Before
      /\ \A h \in Flows \ {f} : browser'[h] = browser[h]
  BY <1>1 DEF Before
<1>5. SignInTypeOK'
  <2>1. signedInAs' \in [Flows -> AtMostOne(Flows)] BY <1>3
  <2> QED BY <1>1, <1>2, <1>4, <2>1 DEF clientVars
<1>6. CodesInv'
  <2>1. \A h \in Flows, j \in Tries :
          tokenCall'[h][j].pc = "pkce" => tokenCall'[h][j] = tokenCall[h][j]
    BY <1>2, NoCallIsCall
  <2> QED BY <1>1, <2>1, CodesUntouched
<1>7. VerifierOnce' BY <1>1, <1>4 DEF VerifierOnce, Before
<1>8. GrantedToPresented' BY <1>1, <1>2, <1>3, <1>4, NoCallIsCall DEF GrantedToPresented
<1>9. DeployInv' /\ SecretInLockstep' BY <1>1, DeployUntouched
<1> QED BY <1>5, <1>6, <1>7, <1>8, <1>9

-------------------------------------------------------------------------------
\* The steps of the token endpoint change one request, and at most one code.
LEMMA EndpointKeeps ==
  ASSUME SignInInv, NEW f \in Flows, NEW i \in Tries,
         CheckClient(f, i) \/ ConsumeCode(f, i) \/ VerifyPkce(f, i)
  PROVE  SignInInv'
<1> USE SignInAssumption DEF SignInInv
<1> DEFINE t == tokenCall[f][i]
<1>1. /\ UNCHANGED clientVars
      /\ UNCHANGED <<pending, drawnCodes, browser, flowApp, presented, signedInAs>>
      /\ t.pc # "off"
  BY DEF CheckClient, ConsumeCode, VerifyPkce, browserVars, codeVars
<1>2. t \in Calls /\ tokenCall \in [Flows -> [Tries -> Calls]] BY DEF SignInTypeOK
<1>3. [NoCall EXCEPT !.pc = "refused"] \in Calls /\ [NoCall EXCEPT !.pc = "refused"].pc = "refused"
  BY NoCallIsCall DEF NoCall, Calls
<1>4. ASSUME NEW u \in Calls, tokenCall' = [tokenCall EXCEPT ![f][i] = u],
             codeRows' \in [Codes -> CodeRow \cup {NoRow}], grants' \in [Codes -> Nat],
             u.pc = "granted" => u.row = presented[f], CodesInv'
      PROVE  SignInInv'
  <2>1. /\ tokenCall' \in [Flows -> [Tries -> Calls]]
        /\ tokenCall'[f][i] = u
        /\ \A g \in Flows, j \in Tries :
             ~(g = f /\ j = i) => tokenCall'[g][j] = tokenCall[g][j]
    BY <1>4, OneCallChanges
  <2>2. browser[f] \notin Before BY <1>1 DEF GrantedToPresented
  <2>3. GrantedToPresented' BY <1>1, <1>4, <2>1, <2>2 DEF GrantedToPresented
  <2>4. SignInTypeOK' BY <1>1, <1>4, <2>1 DEF SignInTypeOK, clientVars
  <2>5. VerifierOnce' BY <1>1 DEF VerifierOnce
  <2>6. DeployInv' /\ SecretInLockstep' BY <1>1, DeployUntouched
  <2> QED BY <1>4, <2>3, <2>4, <2>5, <2>6
<1>5. ASSUME NEW u \in Calls, tokenCall' = [tokenCall EXCEPT ![f][i] = u],
             u.pc # "pkce", u.pc = "granted" => u.row = presented[f], UNCHANGED <<codeRows, grants>>
      PROVE  SignInInv'
  <2>1. CodesInv' BY <1>1, <1>5, OneCallChanges, CodesUntouched
  <2> QED BY <1>4, <1>5, <2>1 DEF SignInTypeOK
<1>6. CASE CheckClient(f, i)
  <2> DEFINE u == [t EXCEPT !.pc = "redeem"]
  <2>1. u \in Calls /\ u.pc = "redeem" BY <1>2 DEF Calls
  <2>2. UNCHANGED <<codeRows, grants>> BY <1>6 DEF CheckClient, codeVars
  <2>3. \/ tokenCall' = [tokenCall EXCEPT ![f][i] = u]
        \/ tokenCall' = [tokenCall EXCEPT ![f][i] = [NoCall EXCEPT !.pc = "refused"]]
    BY <1>2, <1>6 DEF CheckClient, Answer, Refuse
  <2> QED BY <1>3, <1>5, <2>1, <2>2, <2>3
<1>7. CASE ConsumeCode(f, i)
  <2>1. PICK c \in t.code :
          /\ codeRows' = [codeRows EXCEPT ![c] = NoRow]
          /\ \/ /\ RowFits(t, codeRows[c])
                /\ tokenCall' = [tokenCall EXCEPT ![f][i] = [t EXCEPT !.pc = "pkce", !.row = codeRows[c]]]
             \/ tokenCall' = [tokenCall EXCEPT ![f][i] = [NoCall EXCEPT !.pc = "refused"]]
    BY <1>7 DEF ConsumeCode, RowsAfter, Refuse
  <2>2. c \in Codes /\ t.code = {c} BY <1>2, <2>1 DEF Calls, AtMostOne
  <2>3. codeRows' \in [Codes -> CodeRow \cup {NoRow}] BY <2>1, <2>2 DEF SignInTypeOK
  <2>4. grants' = grants /\ grants \in [Codes -> Nat] BY <1>7 DEF ConsumeCode, SignInTypeOK
  <2>5. /\ codeRows'[c] = NoRow
        /\ \A d \in Codes \ {c} : codeRows'[d] = codeRows[d]
    BY <2>1, <2>2 DEF SignInTypeOK
  <2>6. CASE tokenCall' = [tokenCall EXCEPT ![f][i] = [NoCall EXCEPT !.pc = "refused"]]
    <3>1. \A g \in Flows, j \in Tries :
            tokenCall'[g][j] = tokenCall[g][j] \/ tokenCall'[g][j].pc = "refused"
      BY <1>3, <2>6, OneCallChanges
    <3>2. CodesInv'
      BY <1>1, <2>4, <2>5, <3>1
         DEF CodesInv, Undrawn, Unspent, OneRedeemer, CodeOnce, Redeeming
    <3> QED BY <1>3, <1>4, <2>3, <2>4, <2>6, <3>2
  <2>7. CASE /\ RowFits(t, codeRows[c])
             /\ tokenCall' = [tokenCall EXCEPT ![f][i] = [t EXCEPT !.pc = "pkce", !.row = codeRows[c]]]
    <3> DEFINE u == [t EXCEPT !.pc = "pkce", !.row = codeRows[c]]
    <3>0. codeRows[c] # NoRow BY <2>7 DEF RowFits, NoRow
    <3>1. u \in Calls /\ u.pc = "pkce" /\ u.code = {c}
      BY <1>2, <2>2 DEF Calls, SignInTypeOK
    <3>2. tokenCall' = [tokenCall EXCEPT ![f][i] = u] BY <2>7
    <3> HIDE DEF u
    <3>3. /\ tokenCall'[f][i] = u
          /\ \A g \in Flows, j \in Tries :
               ~(g = f /\ j = i) => tokenCall'[g][j] = tokenCall[g][j]
      BY <3>1, <3>2, OneCallChanges
    <3>4. grants[c] = 0 /\ \A g \in Flows, j \in Tries : ~Redeeming(g, j, c)
      BY <2>2, <3>0 DEF CodesInv, Unspent
    <3>5. ~(c > drawnCodes) BY <2>2, <3>0 DEF CodesInv, Undrawn
    <3>6. \A g \in Flows, j \in Tries, d \in Codes :
            Redeeming(g, j, d)' <=> \/ (g = f /\ j = i /\ d = c)
                                    \/ (~(g = f /\ j = i) /\ Redeeming(g, j, d))
      BY <3>1, <3>3 DEF Redeeming
    <3>7. Undrawn' BY <1>1, <2>5 DEF CodesInv, Undrawn
    <3>8. Unspent' BY <1>1, <2>4, <2>5, <3>5, <3>6 DEF CodesInv, Unspent
    <3>9. OneRedeemer' BY <2>4, <3>4, <3>6 DEF CodesInv, OneRedeemer
    <3>10. CodeOnce' BY <2>4 DEF CodesInv, CodeOnce
    <3> QED BY <1>4, <2>3, <2>4, <3>1, <3>2, <3>7, <3>8, <3>9, <3>10 DEF CodesInv
  <2> QED BY <2>1, <2>6, <2>7
<1>8. CASE VerifyPkce(f, i)
  <2>1. CASE tokenCall' = [tokenCall EXCEPT ![f][i] = [NoCall EXCEPT !.pc = "refused"]]
             /\ UNCHANGED grants
    BY <1>3, <1>5, <1>8, <2>1 DEF VerifyPkce
  <2>2. CASE /\ VerifierFits(f, t.row)
             /\ tokenCall' = [tokenCall EXCEPT ![f][i].pc = "granted"]
             /\ grants' = [c \in Codes |-> IF c \in t.code THEN grants[c] + 1 ELSE grants[c]]
    <3> DEFINE u == [t EXCEPT !.pc = "granted"]
    <3>1. u \in Calls /\ u.pc = "granted" /\ u.row = presented[f]
      BY <1>2, <2>2 DEF Calls, VerifierFits
    <3>2. tokenCall' = [tokenCall EXCEPT ![f][i] = u] BY <1>2, <2>2
    <3>3. codeRows' = codeRows /\ t.pc = "pkce" BY <1>8 DEF VerifyPkce
    <3>4. grants \in [Codes -> Nat] /\ grants' \in [Codes -> Nat] BY <2>2 DEF SignInTypeOK
    <3>5. \A c \in Codes : grants'[c] = IF Redeeming(f, i, c) THEN 1 ELSE grants[c]
      BY <2>2, <3>3, <3>4 DEF Redeeming, CodesInv, OneRedeemer
    <3> HIDE DEF u
    <3>6. /\ tokenCall'[f][i] = u
          /\ \A g \in Flows, j \in Tries :
               ~(g = f /\ j = i) => tokenCall'[g][j] = tokenCall[g][j]
      BY <3>1, <3>2, OneCallChanges
    <3>7. \A g \in Flows, j \in Tries, d \in Codes :
            Redeeming(g, j, d)' <=> ~(g = f /\ j = i) /\ Redeeming(g, j, d)
      BY <3>1, <3>6 DEF Redeeming
    <3>8. Undrawn' BY <1>1, <3>3 DEF CodesInv, Undrawn
    <3>9. Unspent' BY <1>1, <3>3, <3>5, <3>7 DEF CodesInv, Unspent
    <3>10. OneRedeemer' BY <3>5, <3>7 DEF CodesInv, OneRedeemer
    <3>11. CodeOnce' BY <3>5 DEF CodesInv, CodeOnce
    <3> QED BY <1>4, <3>1, <3>2, <3>3, <3>4, <3>8, <3>9, <3>10, <3>11 DEF CodesInv, SignInTypeOK
  <2> QED BY <1>8, <2>1, <2>2 DEF VerifyPkce, Answer, Refuse
<1> QED BY <1>6, <1>7, <1>8

LEMMA SignInStep == ASSUME SignInInv, [SignInNext]_signInVars PROVE SignInInv'
<1>1. CASE UNCHANGED signInVars
  <2> USE <1>1 DEF signInVars, codeVars, browserVars, SignInInv
  <2>1. CodesInv' BY CodesUntouched
  <2>2. SignInTypeOK' BY DEF SignInTypeOK, clientVars
  <2>3. VerifierOnce' /\ GrantedToPresented' BY DEF VerifierOnce, GrantedToPresented
  <2>4. DeployInv' /\ SecretInLockstep' BY DeployUntouched
  <2> QED BY <2>1, <2>2, <2>3, <2>4
<1>2. ASSUME NEW a \in Relying, DeployStops(a) \/ ProvisionAppClient(a) PROVE SignInInv'
  BY <1>2, DeployStopsKeeps, ProvisionKeeps
<1>3. ASSUME NEW a \in Relying, RunApp(a) PROVE SignInInv'
  BY <1>3, RolloutEndsKeeps DEF RunApp
<1>4. CASE DeployFails BY <1>4, RolloutEndsKeeps DEF DeployFails
<1>5. ASSUME NEW f \in Flows, NEW a \in Relying, NEW s \in Secrets, Login(f, a, s)
      PROVE  SignInInv'
  BY <1>5, LoginKeeps
<1>6. ASSUME NEW f \in Flows, NEW g \in Flows, NEW a \in Relying, NEW s \in Secrets,
             Callback(f, g, a, s) \/ BadCallback(f, g, a, s)
      PROVE  SignInInv'
  BY <1>6, CallbackKeeps, BadCallbackKeeps
<1>7. ASSUME NEW f \in Flows, Authorize(f) \/ Resend(f) PROVE SignInInv'
  BY <1>7, AuthorizeKeeps, ResendKeeps
<1>8. ASSUME NEW f \in Flows, NEW i \in Tries,
             Finish(f, i) \/ CheckClient(f, i) \/ ConsumeCode(f, i) \/ VerifyPkce(f, i)
      PROVE  SignInInv'
  BY <1>8, FinishKeeps, EndpointKeeps
<1> QED BY <1>1, <1>2, <1>3, <1>4, <1>5, <1>6, <1>7, <1>8 DEF SignInNext

LEMMA SignInAlways == SignInSpec => []SignInInv
BY SignInStart, SignInStep, PTL DEF SignInSpec

\* Every variable of the provider, the apps and the browsers keeps its type.
THEOREM SignInTypes == SignInSpec => []SignInTypeOK
<1>1. SignInInv => SignInTypeOK BY DEF SignInInv
<1> QED BY <1>1, SignInAlways, PTL

\* An authorization code is good for one grant, however its redemptions overlap.
THEOREM CodesAreSingleUse == SignInSpec => []CodeOnce
<1>1. SignInInv => CodeOnce BY DEF SignInInv, CodesInv
<1> QED BY <1>1, SignInAlways, PTL

\* Whatever URLs browsers are sent: each is signed in only as the user of the flow whose state
\* it came back with, and no two as the user of one flow.
THEOREM NobodyElseSignedIn == SignInSpec => []SignedInAsPresented
<1>1. SignInInv => SignedInAsPresented
  BY DEF SignInInv, GrantedToPresented, VerifierOnce, SignedInAsPresented
<1> QED BY <1>1, SignInAlways, PTL

\* Between its deploys, the containers of an app whose client no other app has hold the secret
\* that is stored, whatever other apps are deployed and wherever deploys fail; except those of
\* an app that its last deploy could not stop.
THEOREM SecretsStayInStep == SignInSpec => []SecretInLockstep
<1>1. SignInInv => SecretInLockstep BY DEF SignInInv
<1> QED BY <1>1, SignInAlways, PTL

\* All that the sign-in promises.
THEOREM SignInIsSafe == SignInSpec => []SignInSafe
<1>1. CodeOnce /\ SignedInAsPresented /\ SecretInLockstep => SignInSafe BY DEF SignInSafe
<1> QED BY <1>1, CodesAreSingleUse, NobodyElseSignedIn, SecretsStayInStep, PTL

-------------------------------------------------------------------------------
(***************************************************************************)
(* Intake. A row has one owner, the request that inserted it, and only     *)
(* its owner removes it; a repository has its content before its row or    *)
(* its spec is written.                                                    *)
(***************************************************************************)

\* The requests to which a row belongs: they made it, and nobody else removes it.
Owning(q) ==
  request[q].pc \in {"clone", "cloning", "rollback", "rowInit", "specClone", "specPush", "file", "ok"}

Cloning(q) == request[q].pc \in {"clone", "cloning", "rollback"}

\* A name has one owner at most, and an import is told from a template by where it is.
RowsOwned ==
  /\ \A q \in Requests :
       /\ Owning(q) => Name(q) \in repoRows
       /\ Cloning(q) => request[q].kind = "import"
       /\ request[q].pc \in {"init", "populate", "row"} => request[q].kind \in Templated
  /\ \A q, p \in Requests : Owning(q) /\ Owning(p) /\ Name(q) = Name(p) => q = p

\* A repository is filled before its row or its spec is written.
Filled ==
  \A q \in Requests :
    request[q].pc \in {"row", "specClone", "specPush"} =>
      repoDir[Name(q)] = "content" \/ Name(q) \in swept

\* The spec comes last, and a clone that nobody pushed past has seen them all.
SpecsLast ==
  \A q \in Requests :
    /\ Cloning(q) => Name(q) \notin appSpecs \/ Name(q) \in swept
    /\ request[q].pc = "specPush" =>
         request[q].base <= gitopsCommits
         /\ (request[q].base = gitopsCommits => request[q].seen = appSpecs)

IntakeInv ==
  /\ IntakeTypeOK /\ RowsOwned /\ Filled /\ SpecsLast
  /\ VisibleIsClonable /\ SpecIsDeployable /\ NoPhantomRepo

\* Before it asks for anything, a request owns nothing.
LEMMA NobodyIsTyped ==
  /\ NobodyYet \in [kind : {"repo"}, name : AppNames, pc : {"new"}, base : {0}, seen : {{}}]
  /\ Failed \in [kind : {"repo"}, name : AppNames, pc : {"failed"}, base : {0}, seen : {{}}]
<1>1. (CHOOSE n \in AppNames : TRUE) \in AppNames BY IntakeAssumption
<1> QED BY <1>1 DEF NobodyYet, Failed

LEMMA IntakeStart == IntakeInit => IntakeInv
<1> SUFFICES ASSUME IntakeInit PROVE IntakeInv OBVIOUS
<1> USE IntakeAssumption, NobodyIsTyped DEF IntakeInit
<1>1. IntakeTypeOK BY DEF IntakeTypeOK, RequestKinds, RequestPcs
<1>2. \A q \in Requests : request[q].pc = "new" OBVIOUS
<1>3. RowsOwned /\ Filled /\ SpecsLast
  BY <1>2 DEF RowsOwned, Filled, SpecsLast, Owning, Cloning
<1>4. VisibleIsClonable /\ SpecIsDeployable /\ NoPhantomRepo
  BY DEF VisibleIsClonable, SpecIsDeployable, NoPhantomRepo
<1> QED BY <1>1, <1>3, <1>4 DEF IntakeInv

\* A request that fails leaves the rest as it is; a clone must have been cleared away before.
LEMMA FailKeepsIntake ==
  ASSUME IntakeInv, NEW q \in Requests, Fail(q), ~Cloning(q),
         UNCHANGED <<repoRows, rowMaker, repoDir, appSpecs, gitopsCommits, swept, intakeKills>>
  PROVE  IntakeInv'
<1> USE NobodyIsTyped DEF IntakeInv, IntakeTypeOK, Fail, RequestKinds, RequestPcs
<1>1. IntakeTypeOK' OBVIOUS
<1>2. \A p \in Requests : p # q => request'[p] = request[p] OBVIOUS
<1>3. request'[q].pc = "failed" OBVIOUS
<1>4. RowsOwned' BY <1>2, <1>3 DEF RowsOwned, Owning, Cloning, Name
<1>5. Filled' /\ SpecsLast' BY <1>2, <1>3 DEF Filled, SpecsLast, Cloning, Name
<1>6. VisibleIsClonable' /\ SpecIsDeployable' BY DEF VisibleIsClonable, SpecIsDeployable
<1>7. NoPhantomRepo' BY <1>2 DEF NoPhantomRepo, Cloning, Name
<1> QED BY <1>1, <1>4, <1>5, <1>6, <1>7

LEMMA TemplateInitKeepsIntake == ASSUME IntakeInv, NEW q \in Requests, TemplateInit(q) PROVE IntakeInv'
<1> USE NobodyIsTyped DEF IntakeInv, IntakeTypeOK, RequestKinds, RequestPcs
<1>1. /\ request[q].pc = "init" /\ request' = [request EXCEPT ![q].pc = "populate"]
      /\ repoDir' = [repoDir EXCEPT ![Name(q)] = IF repoDir[Name(q)] = "absent" THEN "bare" ELSE repoDir[Name(q)]]
      /\ UNCHANGED <<repoRows, rowMaker, appSpecs, gitopsCommits, swept, intakeKills>>
  BY DEF TemplateInit, At, Step
<1>2. IntakeTypeOK' BY <1>1
<1>3. RowsOwned' BY <1>1 DEF RowsOwned, Owning, Cloning, Name
<1>4. Filled' BY <1>1 DEF Filled, Name
<1>5. SpecsLast' BY <1>1 DEF SpecsLast, Cloning, Name
<1>6. VisibleIsClonable' BY <1>1 DEF VisibleIsClonable, Templated, Filled, Name
<1>7. SpecIsDeployable' BY <1>1 DEF SpecIsDeployable, Filled, Name
<1>8. NoPhantomRepo' BY <1>1 DEF NoPhantomRepo, Cloning, Name
<1> QED BY <1>2, <1>3, <1>4, <1>5, <1>6, <1>7, <1>8

LEMMA PopulateKeepsIntake == ASSUME IntakeInv, NEW q \in Requests, Populate(q) PROVE IntakeInv'
<1> USE NobodyIsTyped DEF IntakeInv, IntakeTypeOK, RequestKinds, RequestPcs
<1>1. /\ request[q].pc = "populate" /\ request' = [request EXCEPT ![q].pc = "row"]
      /\ repoDir' = [repoDir EXCEPT ![Name(q)] = "content"]
      /\ UNCHANGED <<repoRows, rowMaker, appSpecs, gitopsCommits, swept, intakeKills>>
  BY DEF Populate, At, Step
<1>2. IntakeTypeOK' BY <1>1
<1>3. RowsOwned' BY <1>1 DEF RowsOwned, Owning, Cloning, Name
<1>4. Filled' BY <1>1 DEF Filled, Name
<1>5. SpecsLast' BY <1>1 DEF SpecsLast, Cloning, Name
<1>6. VisibleIsClonable' BY <1>1 DEF VisibleIsClonable, Templated, Filled, Name
<1>7. SpecIsDeployable' BY <1>1 DEF SpecIsDeployable, Filled, Name
<1>8. NoPhantomRepo' BY <1>1 DEF NoPhantomRepo, Cloning, Name
<1> QED BY <1>2, <1>3, <1>4, <1>5, <1>6, <1>7, <1>8

LEMMA CloneStartsKeepsIntake == ASSUME IntakeInv, NEW q \in Requests, CloneStarts(q) PROVE IntakeInv'
<1> USE NobodyIsTyped DEF IntakeInv, IntakeTypeOK, RequestKinds, RequestPcs
<1>1. /\ request[q].pc = "clone" /\ request' = [request EXCEPT ![q].pc = "cloning"]
      /\ repoDir[Name(q)] = "absent" /\ repoDir' = [repoDir EXCEPT ![Name(q)] = "partial"]
      /\ UNCHANGED <<repoRows, rowMaker, appSpecs, gitopsCommits, swept, intakeKills>>
  BY DEF CloneStarts, At, Step
<1>2. IntakeTypeOK' BY <1>1
<1>3. RowsOwned' BY <1>1 DEF RowsOwned, Owning, Cloning, Name
<1>4. Filled' BY <1>1 DEF Filled, Name
<1>5. SpecsLast' BY <1>1 DEF SpecsLast, Cloning, Name
<1>6. VisibleIsClonable' BY <1>1 DEF VisibleIsClonable, Templated, Filled, Name
<1>7. SpecIsDeployable' BY <1>1 DEF SpecIsDeployable, Filled, Name
<1>8. NoPhantomRepo' BY <1>1 DEF NoPhantomRepo, Cloning, Name
<1> QED BY <1>2, <1>3, <1>4, <1>5, <1>6, <1>7, <1>8

LEMMA CloneSucceedsKeepsIntake == ASSUME IntakeInv, NEW q \in Requests, CloneSucceeds(q) PROVE IntakeInv'
<1> USE NobodyIsTyped DEF IntakeInv, IntakeTypeOK, RequestKinds, RequestPcs
<1>1. /\ request[q].pc = "cloning" /\ request' = [request EXCEPT ![q].pc = "specClone"]
      /\ repoDir' = [repoDir EXCEPT ![Name(q)] = "content"]
      /\ UNCHANGED <<repoRows, rowMaker, appSpecs, gitopsCommits, swept, intakeKills>>
  BY DEF CloneSucceeds, At, Step
<1>2. IntakeTypeOK' BY <1>1
<1>3. RowsOwned' BY <1>1 DEF RowsOwned, Owning, Cloning, Name
<1>4. Filled' BY <1>1 DEF Filled, Name
<1>5. SpecsLast' BY <1>1 DEF SpecsLast, Cloning, Name
<1>6. VisibleIsClonable' BY <1>1 DEF VisibleIsClonable, Templated, Filled, Name
<1>7. SpecIsDeployable' BY <1>1 DEF SpecIsDeployable, Filled, Name
<1>8. NoPhantomRepo' BY <1>1 DEF NoPhantomRepo, Cloning, Name
<1> QED BY <1>2, <1>3, <1>4, <1>5, <1>6, <1>7, <1>8

LEMMA CloneFailsKeepsIntake == ASSUME IntakeInv, NEW q \in Requests, CloneFails(q) PROVE IntakeInv'
<1> USE NobodyIsTyped DEF IntakeInv, IntakeTypeOK, RequestKinds, RequestPcs
<1>1. /\ request[q].pc \in {"clone", "cloning"} /\ request' = [request EXCEPT ![q].pc = "rollback"]
      /\ repoDir' = [repoDir EXCEPT ![Name(q)] = "absent"]
      /\ swept' \in SUBSET AppNames /\ swept \subseteq swept' /\ swept' \subseteq swept \cup {Name(q)}
      /\ repoDir[Name(q)] = "content" => Name(q) \in swept'
      /\ UNCHANGED <<repoRows, rowMaker, appSpecs, gitopsCommits, intakeKills>>
  BY DEF CloneFails, At, Step, Name
<1>2. IntakeTypeOK' BY <1>1
<1>3. RowsOwned' BY <1>1 DEF RowsOwned, Owning, Cloning, Name
<1>4. Filled' BY <1>1 DEF Filled, Name
<1>5. SpecsLast' BY <1>1 DEF SpecsLast, Cloning, Name
<1>6. VisibleIsClonable' BY <1>1 DEF VisibleIsClonable, Templated, Filled, Name
<1>7. SpecIsDeployable' BY <1>1 DEF SpecIsDeployable, Filled, Name
<1>8. NoPhantomRepo'
  <2>1. /\ request'[q].name = request[q].name /\ request'[q].pc = "rollback"
        /\ request'[q].kind = "import"
    BY <1>1 DEF RowsOwned, Cloning
  <2>2. \A p \in Requests : p # q => request'[p] = request[p] BY <1>1
  <2> SUFFICES ASSUME NEW n \in repoRows, rowMaker[n] = "import", intakeKills = 0,
                      repoDir'[n] # "content"
               PROVE  \E p \in Requests :
                        /\ request'[p].name = n /\ request'[p].kind = "import"
                        /\ request'[p].pc \in {"clone", "cloning", "rollback"}
    BY <1>1 DEF NoPhantomRepo, Name
  <2>3. CASE n = Name(q) BY <2>1, <2>3 DEF Name
  <2>4. CASE n # Name(q)
    <3>1. PICK p \in Requests :
            /\ request[p].name = n /\ request[p].kind = "import"
            /\ request[p].pc \in {"clone", "cloning", "rollback"}
      BY <1>1, <2>4 DEF NoPhantomRepo, Name
    <3> QED BY <2>2, <2>4, <3>1 DEF Name
  <2> QED BY <2>3, <2>4
<1> QED BY <1>2, <1>3, <1>4, <1>5, <1>6, <1>7, <1>8

LEMMA RollbackRowKeepsIntake == ASSUME IntakeInv, NEW q \in Requests, RollbackRow(q) PROVE IntakeInv'
<1> USE NobodyIsTyped DEF IntakeInv, IntakeTypeOK, RequestKinds, RequestPcs
<1>1. /\ request[q].pc = "rollback" /\ request' = [request EXCEPT ![q] = Failed]
      /\ repoRows' = repoRows \ {Name(q)}
      /\ UNCHANGED <<rowMaker, repoDir, appSpecs, gitopsCommits, swept, intakeKills>>
  BY DEF RollbackRow, At, Fail
<1>2. IntakeTypeOK' BY <1>1
<1>3. RowsOwned' BY <1>1 DEF RowsOwned, Owning, Cloning, Name
<1>4. Filled' BY <1>1 DEF Filled, Name
<1>5. SpecsLast' BY <1>1 DEF SpecsLast, Cloning, Name
<1>6. VisibleIsClonable' BY <1>1 DEF VisibleIsClonable, Templated, Filled, Name
<1>7. SpecIsDeployable' BY <1>1 DEF SpecIsDeployable, SpecsLast, Cloning, Name
<1>8. NoPhantomRepo' BY <1>1 DEF NoPhantomRepo, Cloning, Name
<1> QED BY <1>2, <1>3, <1>4, <1>5, <1>6, <1>7, <1>8

LEMMA SpecCloneKeepsIntake == ASSUME IntakeInv, NEW q \in Requests, SpecClone(q) PROVE IntakeInv'
<1> USE NobodyIsTyped DEF IntakeInv, IntakeTypeOK, RequestKinds, RequestPcs
<1>1. /\ request[q].pc = "specClone"
      /\ request' = [request EXCEPT ![q] = [request[q] EXCEPT !.pc = "specPush", !.base = gitopsCommits, !.seen = appSpecs]]
      /\ UNCHANGED <<repoRows, rowMaker, repoDir, appSpecs, gitopsCommits, swept, intakeKills>>
  BY DEF SpecClone, At
<1>2. IntakeTypeOK' BY <1>1
<1>3. RowsOwned' BY <1>1 DEF RowsOwned, Owning, Cloning, Name
<1>4. Filled' BY <1>1 DEF Filled, Name
<1>5. SpecsLast' BY <1>1 DEF SpecsLast, Cloning, Name
<1>6. VisibleIsClonable' BY <1>1 DEF VisibleIsClonable, Templated, Filled, Name
<1>7. SpecIsDeployable' BY <1>1 DEF SpecIsDeployable, Filled, Name
<1>8. NoPhantomRepo' BY <1>1 DEF NoPhantomRepo, Cloning, Name
<1> QED BY <1>2, <1>3, <1>4, <1>5, <1>6, <1>7, <1>8

LEMMA SpecPushKeepsIntake == ASSUME IntakeInv, NEW q \in Requests, SpecPush(q) PROVE IntakeInv'
<1> USE NobodyIsTyped DEF IntakeInv, IntakeTypeOK, RequestKinds, RequestPcs
<1>1. /\ request[q].pc = "specPush" /\ request[q].base = gitopsCommits /\ request[q].seen = appSpecs
      /\ request' = [request EXCEPT ![q] = [request[q] EXCEPT !.pc = AfterSpec(q), !.base = 0, !.seen = {}]]
      /\ AfterSpec(q) \in {"ok", "file"}
      /\ appSpecs' = appSpecs \cup {Name(q)} /\ gitopsCommits' = gitopsCommits + 1
      /\ UNCHANGED <<repoRows, rowMaker, repoDir, swept, intakeKills>>
  BY DEF SpecPush, At, FastForward, AfterSpec, SpecsLast
<1>2. IntakeTypeOK'
  <2>1. request' \in [Requests -> [kind : RequestKinds, name : AppNames, pc : RequestPcs,
                                   base : Nat, seen : SUBSET AppNames]]
    <3>1. CASE AfterSpec(q) = "ok" BY <1>1, <3>1
    <3>2. CASE AfterSpec(q) = "file" BY <1>1, <3>2
    <3> QED BY <1>1, <3>1, <3>2
  <2> QED BY <1>1, <2>1 DEF Name
<1>3. RowsOwned' BY <1>1 DEF RowsOwned, Owning, Cloning, Name
<1>4. Filled' BY <1>1 DEF Filled, Name
<1>5. SpecsLast'
  <2>1. \A p \in Requests : p # q => request'[p] = request[p] BY <1>1
  <2>2. request'[q].pc \in {"ok", "file"} BY <1>1
  <2>3. \A p \in Requests : Cloning(p) => Name(p) # Name(q)
    BY <1>1 DEF RowsOwned, Owning, Cloning
  <2> SUFFICES ASSUME NEW p \in Requests, p # q
               PROVE  /\ Cloning(p) => request[p].name \notin appSpecs' \/ request[p].name \in swept
                      /\ request[p].pc = "specPush" =>
                           request[p].base <= gitopsCommits' /\ request[p].base # gitopsCommits'
    BY <1>1, <2>1, <2>2 DEF SpecsLast, Cloning, Name
  <2>4. Cloning(p) => request[p].name \notin appSpecs' \/ request[p].name \in swept
    BY <1>1, <2>3 DEF SpecsLast, Name
  <2>5. request[p].pc = "specPush" =>
          request[p].base <= gitopsCommits' /\ request[p].base # gitopsCommits'
    <3>1. request[p].base \in Nat /\ gitopsCommits \in Nat OBVIOUS
    <3> QED BY <1>1, <3>1 DEF SpecsLast
  <2> QED BY <2>4, <2>5
<1>6. VisibleIsClonable' BY <1>1 DEF VisibleIsClonable, Templated, Filled, Name
<1>7. SpecIsDeployable' BY <1>1 DEF SpecIsDeployable, Filled, RowsOwned, Owning, Name
<1>8. NoPhantomRepo' BY <1>1 DEF NoPhantomRepo, Cloning, Name
<1> QED BY <1>2, <1>3, <1>4, <1>5, <1>6, <1>7, <1>8

\* A row that is inserted, by the request that then owns it.
LEMMA InsertKeepsIntake ==
  ASSUME IntakeInv, NEW q \in Requests, NEW n \in AppNames, ~Owning(q),
         request' \in [Requests -> [kind : RequestKinds, name : AppNames, pc : RequestPcs,
                                    base : Nat, seen : SUBSET AppNames]],
         \A p \in Requests : p # q => request'[p] = request[p],
         InsertRow(request'[q].kind, n), request'[q].name = n,
         \/ request'[q].kind = "import" /\ request'[q].pc \in {"clone", "rollback"}
         \/ request'[q].kind = "repo" /\ request'[q].pc = "rowInit"
         \/ /\ request'[q].kind \in Templated /\ request'[q].pc = "specClone"
            /\ repoDir[n] = "content" \/ n \in swept,
         repoDir' \in [AppNames -> {"absent", "partial", "bare", "content"}],
         \A m \in AppNames : repoDir[m] = "content" => repoDir'[m] = "content",
         UNCHANGED <<appSpecs, gitopsCommits, swept, intakeKills>>
  PROVE  IntakeInv'
<1> USE DEF IntakeInv, IntakeTypeOK, InsertRow
<1>1. /\ n \notin repoRows /\ repoRows' = repoRows \cup {n}
      /\ rowMaker' = [rowMaker EXCEPT ![n] = request'[q].kind]
  OBVIOUS
<1>2. IntakeTypeOK'
  <2>1. rowMaker' \in [AppNames -> RequestKinds \cup {"none"}] BY <1>1
  <2> QED BY <1>1, <2>1
<1>3. RowsOwned' BY <1>1 DEF RowsOwned, Owning, Cloning, Name, Templated, RequestPcs
<1>4. Filled' BY DEF Filled, Name, Templated
<1>5. SpecsLast' BY <1>1 DEF SpecsLast, Cloning, Name, SpecIsDeployable
<1>6. VisibleIsClonable' BY <1>1 DEF VisibleIsClonable, Templated
<1>7. SpecIsDeployable' BY <1>1 DEF SpecIsDeployable
<1>8. NoPhantomRepo'
  <2> SUFFICES ASSUME NEW m \in repoRows', rowMaker'[m] = "import", intakeKills = 0,
                      repoDir'[m] # "content"
               PROVE  \E p \in Requests :
                        /\ request'[p].name = m /\ request'[p].kind = "import"
                        /\ request'[p].pc \in {"clone", "cloning", "rollback"}
    BY <1>1 DEF NoPhantomRepo, Name
  <2>1. CASE m = n BY <1>1, <2>1 DEF Templated
  <2>2. CASE m # n
    <3>1. PICK p \in Requests :
            /\ request[p].name = m /\ request[p].kind = "import"
            /\ request[p].pc \in {"clone", "cloning", "rollback"}
      BY <1>1, <2>2 DEF NoPhantomRepo, Name
    <3> QED BY <3>1 DEF Owning
  <2> QED BY <2>1, <2>2
<1> QED BY <1>2, <1>3, <1>4, <1>5, <1>6, <1>7, <1>8

LEMMA BeginTemplatedKeepsIntake ==
  ASSUME IntakeInv, NEW q \in Requests, NEW k \in Templated, NEW n \in AppNames,
         BeginTemplated(q, k, n)
  PROVE  IntakeInv'
<1> USE DEF IntakeInv, IntakeTypeOK, RequestKinds, RequestPcs, Templated
<1>1. /\ request[q].pc = "new"
      /\ request' = [request EXCEPT ![q] = [kind |-> k, name |-> n, pc |-> "init", base |-> 0,
                                            seen |-> {}]]
      /\ UNCHANGED <<repoRows, rowMaker, repoDir, appSpecs, gitopsCommits, swept, intakeKills>>
  BY DEF BeginTemplated, Arrives, At
<1>2. IntakeTypeOK' BY <1>1
<1>3. RowsOwned' BY <1>1 DEF RowsOwned, Owning, Cloning, Name
<1>4. Filled' /\ SpecsLast' BY <1>1 DEF Filled, SpecsLast, Cloning, Name
<1>5. VisibleIsClonable' /\ SpecIsDeployable' BY <1>1 DEF VisibleIsClonable, SpecIsDeployable
<1>6. NoPhantomRepo' BY <1>1 DEF NoPhantomRepo, Name
<1> QED BY <1>2, <1>3, <1>4, <1>5, <1>6

LEMMA RowAfterContentKeepsIntake ==
  ASSUME IntakeInv, NEW q \in Requests, RowAfterContent(q) PROVE IntakeInv'
<1> USE DEF IntakeInv, IntakeTypeOK, RequestKinds, RequestPcs
<1>1. request[q].pc = "row" /\ UNCHANGED <<appSpecs, gitopsCommits, swept, intakeKills>>
  BY DEF RowAfterContent, At
<1>2. CASE Fail(q) /\ UNCHANGED <<repoRows, rowMaker, repoDir>>
  BY <1>1, <1>2, FailKeepsIntake DEF Cloning
<1>3. CASE ~(Fail(q) /\ UNCHANGED <<repoRows, rowMaker, repoDir>>)
  <2>1. /\ InsertRow(request[q].kind, Name(q))
        /\ repoDir' = [repoDir EXCEPT ![Name(q)] = IF repoDir[Name(q)] = "absent" THEN "bare"
                                                   ELSE repoDir[Name(q)]]
        /\ request' = [request EXCEPT ![q].pc = "specClone"]
    BY <1>3 DEF RowAfterContent, Step
  <2>2. request[q].kind \in Templated /\ ~Owning(q) BY <1>1 DEF RowsOwned, Owning
  <2>3. repoDir[Name(q)] = "content" \/ Name(q) \in swept BY <1>1 DEF Filled
  <2>4. Name(q) \in AppNames BY DEF Name
  <2>5. /\ request' \in [Requests -> [kind : RequestKinds, name : AppNames, pc : RequestPcs,
                                      base : Nat, seen : SUBSET AppNames]]
        /\ \A p \in Requests : p # q => request'[p] = request[p]
        /\ request'[q].name = Name(q) /\ request'[q].kind = request[q].kind
        /\ request'[q].pc = "specClone"
    BY <2>1 DEF Name
  <2>6. /\ repoDir' \in [AppNames -> {"absent", "partial", "bare", "content"}]
        /\ \A m \in AppNames : repoDir[m] = "content" => repoDir'[m] = "content"
    BY <2>1, <2>4
  <2> QED BY <1>1, <2>1, <2>2, <2>3, <2>4, <2>5, <2>6, InsertKeepsIntake
<1> QED BY <1>2, <1>3

LEMMA BeginRepoKeepsIntake ==
  ASSUME IntakeInv, NEW q \in Requests, NEW n \in AppNames, BeginRepo(q, n) PROVE IntakeInv'
<1> USE DEF IntakeInv, IntakeTypeOK, RequestKinds, RequestPcs
<1>1. request[q].pc = "new" /\ UNCHANGED <<repoDir, appSpecs, gitopsCommits, swept, intakeKills>>
  BY DEF BeginRepo, Arrives, At
<1>2. CASE Fail(q) /\ UNCHANGED <<repoRows, rowMaker>> BY <1>1, <1>2, FailKeepsIntake DEF Cloning
<1>3. CASE ~(Fail(q) /\ UNCHANGED <<repoRows, rowMaker>>)
  <2>1. /\ InsertRow("repo", n)
        /\ request' = [request EXCEPT ![q] = [request[q] EXCEPT !.kind = "repo", !.name = n,
                                                                !.pc = "rowInit"]]
    BY <1>3 DEF BeginRepo
  <2>2. /\ request' \in [Requests -> [kind : RequestKinds, name : AppNames, pc : RequestPcs,
                                      base : Nat, seen : SUBSET AppNames]]
        /\ \A p \in Requests : p # q => request'[p] = request[p]
        /\ request'[q].name = n /\ request'[q].kind = "repo" /\ request'[q].pc = "rowInit"
    BY <2>1
  <2>3. /\ ~Owning(q) /\ repoDir' \in [AppNames -> {"absent", "partial", "bare", "content"}]
        /\ \A m \in AppNames : repoDir[m] = "content" => repoDir'[m] = "content"
    BY <1>1 DEF Owning
  <2>4. InsertRow(request'[q].kind, n) BY <2>1, <2>2
  <2> HIDE DEF IntakeInv, IntakeTypeOK, RequestKinds, RequestPcs
  <2> QED BY <1>1, <2>2, <2>3, <2>4, InsertKeepsIntake
<1> QED BY <1>2, <1>3

LEMMA BeginImportKeepsIntake ==
  ASSUME IntakeInv, NEW q \in Requests, NEW n \in AppNames, BeginImport(q, n) PROVE IntakeInv'
<1> USE DEF IntakeInv, IntakeTypeOK, RequestKinds, RequestPcs
<1>1. request[q].pc = "new" /\ UNCHANGED <<repoDir, appSpecs, gitopsCommits, swept, intakeKills>>
  BY DEF BeginImport, Arrives, At
<1>2. CASE Fail(q) /\ UNCHANGED <<repoRows, rowMaker>> BY <1>1, <1>2, FailKeepsIntake DEF Cloning
<1>3. CASE ~(Fail(q) /\ UNCHANGED <<repoRows, rowMaker>>)
  <2>1. InsertRow("import", n) BY <1>3 DEF BeginImport
  <2>2. PICK pc \in {"clone", "rollback"} :
          request' = [request EXCEPT ![q] = [request[q] EXCEPT !.kind = "import", !.name = n,
                                                               !.pc = pc]]
    BY <1>3 DEF BeginImport
  <2>3. /\ request' \in [Requests -> [kind : RequestKinds, name : AppNames, pc : RequestPcs,
                                      base : Nat, seen : SUBSET AppNames]]
        /\ \A p \in Requests : p # q => request'[p] = request[p]
        /\ request'[q].name = n /\ request'[q].kind = "import" /\ request'[q].pc = pc
    BY <2>2
  <2>4. /\ ~Owning(q) /\ repoDir' \in [AppNames -> {"absent", "partial", "bare", "content"}]
        /\ \A m \in AppNames : repoDir[m] = "content" => repoDir'[m] = "content"
    BY <1>1 DEF Owning
  <2>5. InsertRow(request'[q].kind, n) BY <2>1, <2>3
  <2>6. /\ request' \in [Requests -> [kind : RequestKinds, name : AppNames, pc : RequestPcs,
                                      base : Nat, seen : SUBSET AppNames]]
        /\ request'[q].pc \in {"clone", "rollback"}
    BY <2>3
  <2> HIDE DEF IntakeInv, IntakeTypeOK, RequestKinds, RequestPcs
  <2> QED BY <1>1, <2>3, <2>4, <2>5, <2>6, InsertKeepsIntake
<1> QED BY <1>2, <1>3

\* A request is done, with or without a repository initialised on the way.
LEMMA DoneKeepsIntake ==
  ASSUME IntakeInv, NEW q \in Requests, Owning(q), ~Cloning(q), Step(q, "ok"),
         repoDir' \in [AppNames -> {"absent", "partial", "bare", "content"}],
         \A m \in AppNames : repoDir[m] = "content" => repoDir'[m] = "content",
         UNCHANGED <<repoRows, rowMaker, appSpecs, gitopsCommits, swept, intakeKills>>
  PROVE  IntakeInv'
<1> USE DEF IntakeInv, IntakeTypeOK, RequestKinds, RequestPcs, Step
<1>1. IntakeTypeOK' OBVIOUS
<1>2. RowsOwned' BY DEF RowsOwned, Owning, Cloning, Name
<1>3. Filled' /\ SpecsLast' BY DEF Filled, SpecsLast, Cloning, Name
<1>4. VisibleIsClonable' /\ SpecIsDeployable' BY DEF VisibleIsClonable, SpecIsDeployable
<1>5. NoPhantomRepo' BY DEF NoPhantomRepo, Cloning, Name
<1> QED BY <1>1, <1>2, <1>3, <1>4, <1>5

LEMMA RepoInitKeepsIntake ==
  ASSUME IntakeInv, NEW q \in Requests, RepoInit(q) PROVE IntakeInv'
<1>1. /\ request[q].pc = "rowInit"
      /\ UNCHANGED <<repoRows, rowMaker, appSpecs, gitopsCommits, swept, intakeKills>>
  BY DEF RepoInit, At
<1>2. CASE Fail(q) /\ UNCHANGED repoDir BY <1>1, <1>2, FailKeepsIntake DEF Cloning
<1>3. CASE ~(Fail(q) /\ UNCHANGED repoDir)
  <2>1. /\ repoDir' = [repoDir EXCEPT ![Name(q)] = IF repoDir[Name(q)] = "absent" THEN "bare"
                                                   ELSE repoDir[Name(q)]]
        /\ Step(q, "ok")
    BY <1>3 DEF RepoInit
  <2>2. /\ repoDir' \in [AppNames -> {"absent", "partial", "bare", "content"}]
        /\ \A m \in AppNames : repoDir[m] = "content" => repoDir'[m] = "content"
    BY <2>1 DEF IntakeInv, IntakeTypeOK, Name
  <2> QED BY <1>1, <2>1, <2>2, DoneKeepsIntake DEF Owning, Cloning
<1> QED BY <1>2, <1>3

LEMMA FileFirstWorkKeepsIntake ==
  ASSUME IntakeInv, NEW q \in Requests, FileFirstWork(q) PROVE IntakeInv'
<1>1. /\ request[q].pc = "file"
      /\ UNCHANGED <<repoRows, rowMaker, repoDir, appSpecs, gitopsCommits, swept, intakeKills>>
  BY DEF FileFirstWork, At
<1>2. CASE Fail(q) BY <1>1, <1>2, FailKeepsIntake DEF Cloning
<1>3. CASE Step(q, "ok")
  BY <1>1, <1>3, DoneKeepsIntake DEF Owning, Cloning, IntakeInv, IntakeTypeOK
<1> QED BY <1>2, <1>3 DEF FileFirstWork

LEMMA IntakeKillKeepsIntake == ASSUME IntakeInv, IntakeKill PROVE IntakeInv'
<1> USE NobodyIsTyped DEF IntakeInv, IntakeTypeOK, RequestKinds, RequestPcs
<1>1. /\ \A q \in Requests : request'[q] = IF request[q].pc \in {"new", "ok"} THEN request[q] ELSE Failed
      /\ request' = [q \in Requests |->
           IF request[q].pc \in {"new", "ok"} THEN request[q] ELSE Failed]
      /\ intakeKills' = intakeKills + 1
      /\ UNCHANGED <<repoRows, rowMaker, repoDir, appSpecs, gitopsCommits, swept>>
  BY DEF IntakeKill
<1>2. IntakeTypeOK' BY <1>1
<1>3. \A q \in Requests : request'[q].pc \notin {"new", "ok"} => request'[q].pc = "failed"
  BY <1>1
<1>4. RowsOwned' BY <1>1, <1>3 DEF RowsOwned, Owning, Cloning, Name
<1>5. Filled' /\ SpecsLast' BY <1>1, <1>3 DEF Filled, SpecsLast, Cloning, Name
<1>6. VisibleIsClonable' /\ SpecIsDeployable' BY <1>1 DEF VisibleIsClonable, SpecIsDeployable
<1>7. NoPhantomRepo' BY <1>1 DEF NoPhantomRepo
<1> QED BY <1>2, <1>4, <1>5, <1>6, <1>7

LEMMA IntakeStep == IntakeInv /\ [IntakeNext]_intakeVars => IntakeInv'
<1> SUFFICES ASSUME IntakeInv, [IntakeNext]_intakeVars PROVE IntakeInv' OBVIOUS
<1>1. CASE UNCHANGED intakeVars
  <2> USE <1>1 DEF intakeVars, IntakeInv
  <2>1. IntakeTypeOK' BY DEF IntakeTypeOK
  <2>2. RowsOwned' /\ Filled' /\ SpecsLast'
    BY DEF RowsOwned, Filled, SpecsLast, Owning, Cloning, Name
  <2>3. VisibleIsClonable' /\ SpecIsDeployable' /\ NoPhantomRepo'
    BY DEF VisibleIsClonable, SpecIsDeployable, NoPhantomRepo, Name
  <2> QED BY <2>1, <2>2, <2>3
<1>2. ASSUME NEW q \in Requests, NEW n \in AppNames,
             (\E k \in Templated : BeginTemplated(q, k, n)) \/ BeginRepo(q, n) \/ BeginImport(q, n)
      PROVE  IntakeInv'
  BY <1>2, BeginTemplatedKeepsIntake, BeginRepoKeepsIntake, BeginImportKeepsIntake
<1>3. ASSUME NEW q \in Requests, PopulateFails(q) \/ SpecPushFails(q) PROVE IntakeInv'
  BY <1>3, FailKeepsIntake DEF PopulateFails, SpecPushFails, At, Cloning
<1>4. ASSUME NEW q \in Requests,
             TemplateInit(q) \/ Populate(q) \/ RowAfterContent(q) \/ RepoInit(q) \/ CloneStarts(q)
             \/ CloneSucceeds(q) \/ CloneFails(q) \/ RollbackRow(q) \/ SpecClone(q) \/ SpecPush(q)
             \/ FileFirstWork(q)
      PROVE  IntakeInv'
  BY <1>4, TemplateInitKeepsIntake, PopulateKeepsIntake, RowAfterContentKeepsIntake,
     RepoInitKeepsIntake, CloneStartsKeepsIntake, CloneSucceedsKeepsIntake, CloneFailsKeepsIntake,
     RollbackRowKeepsIntake, SpecCloneKeepsIntake, SpecPushKeepsIntake, FileFirstWorkKeepsIntake
<1>5. CASE IntakeKill BY <1>5, IntakeKillKeepsIntake
<1> QED BY <1>1, <1>2, <1>3, <1>4, <1>5 DEF IntakeNext

LEMMA IntakeAlways == IntakeSpec => []IntakeInv
BY IntakeStart, IntakeStep, PTL DEF IntakeSpec

\* Only a commit on top of what main is now changes the specs, and it holds all of them.
LEMMA SpecsKept == ASSUME IntakeInv, [IntakeNext]_intakeVars PROVE appSpecs \subseteq appSpecs'
<1>1. ASSUME NEW q \in Requests, SpecPush(q) PROVE appSpecs \subseteq appSpecs'
  BY <1>1 DEF SpecPush, At, FastForward, IntakeInv, SpecsLast
<1> QED BY <1>1 DEF IntakeNext, intakeVars, BeginTemplated, BeginRepo, BeginImport, TemplateInit,
     Populate, PopulateFails, RowAfterContent, RepoInit, CloneStarts, CloneSucceeds, CloneFails,
     RollbackRow, SpecClone, SpecPushFails, FileFirstWork, IntakeKill

\* Every part of the intake's state keeps its type.
THEOREM IntakeTypes == IntakeSpec => []IntakeTypeOK
<1>1. IntakeInv => IntakeTypeOK BY DEF IntakeInv
<1> QED BY <1>1, IntakeAlways, PTL

\* For any number of names, requests and deaths of the daemon: a repository that is listed from a
\* template can be cloned, a spec has a repository with content, a failed import leaves no row
\* while the daemon lives, a name is made once, and no commit undoes another's spec.
THEOREM AppsAreWhole == IntakeSpec => AppsComeWhole
<1>1. IntakeInv => VisibleIsClonable /\ SpecIsDeployable /\ NoPhantomRepo BY DEF IntakeInv
<1>2. IntakeInv => OneMaker BY DEF IntakeInv, RowsOwned, Owning, OneMaker, At
<1>3. IntakeInv /\ [IntakeNext]_intakeVars => [appSpecs \subseteq appSpecs']_intakeVars
  BY SpecsKept
<1> QED BY <1>1, <1>2, <1>3, IntakeAlways, PTL DEF IntakeSpec, AppsComeWhole, SpecsNeverLost
===============================================================================
