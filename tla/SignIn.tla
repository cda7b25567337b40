-------------------------------- MODULE SignIn --------------------------------
(***************************************************************************)
(* "Sign in with your platform": the OIDC provider of the daemon, the apps *)
(* made from the template that rely on it, the browsers that go back and   *)
(* forth, and the deploys that replace an app's container and its client's *)
(* secret.                                                                 *)
(*                                                                         *)
(* A flow is one browser's attempt, which stands for its state, its PKCE   *)
(* verifier and its user.  Secrets are numbered in the order in which they *)
(* are minted, and a container goes by the secret in its environment.  The *)
(* token endpoint awaits a digest twice, so the requests to it interleave  *)
(* with each other and with a deploy.  Signatures and claims are left out: *)
(* a token names the user of its code.                                     *)
(***************************************************************************)
EXTENDS Naturals, FiniteSets

CONSTANTS
  Flows,       \* attempts to sign in, each of another user
  Impatient,   \* bound: those whose HTTP client may repeat a request
  Relying,     \* what is deployed: apps and previews
  Clients,     \* client ids
  MaxCodes,    \* bound: authorization codes, numbered in the order of their draw
  MaxSecrets   \* bound: client secrets, one for each deploy that gets that far

ASSUME SignInAssumption ==
  Impatient \subseteq Flows /\ MaxCodes \in Nat /\ MaxSecrets \in Nat

VARIABLES
  clientOf,      \* the client id of an app
  clientRow,     \* oauth_clients: the secret whose hash is there, the app it redirects to
  minted,        \* how many secrets were ever minted
  container,     \* container[s]: the app that runs with the secret, or {}
  pending,       \* pending[s]: flows whose verifier the container holds
  rollout,       \* the deploy under way: its step and its app
  stopFailed,    \* apps of which an old container survived the last deploy
  codeRows,      \* codeRows[c]: the row of the code, or NoRow
  drawnCodes,    \* how many codes were ever drawn
  browser,       \* browser[f]: where the browser is
  flowApp,       \* flowApp[f]: the app at which the flow began
  presented,     \* presented[f]: the flow whose state the browser came back with
  tokenCall,     \* tokenCall[f][i]: the i-th token request of the browser's callback
  grants,        \* grants[c]: how many token requests the code was good for
  signedInAs     \* signedInAs[f]: the flow whose user the app took it for, or {}

clientVars  == <<clientOf, clientRow, minted, container, rollout, stopFailed>>
codeVars    == <<codeRows, drawnCodes, grants>>
browserVars == <<browser, flowApp, presented, signedInAs>>
signInVars  == <<clientVars, pending, codeVars, browserVars, tokenCall>>

Codes     == 1..MaxCodes
Secrets   == 1..MaxSecrets
NoRow     == {}
CodeRow   == {{f} : f \in Flows}   \* a row is the flow it binds: app, challenge and user
AtMostOne(S) == {{x} : x \in S} \cup {{}}
Tries     == {1, 2}
NoCall    == [pc |-> "off", app |-> {}, code |-> {}, secret |-> 0, row |-> NoRow]
Calls     == [pc : {"off", "sent", "redeem", "pkce", "granted", "refused"},
              app : AtMostOne(Relying), code : AtMostOne(Codes),
              secret : 0..MaxSecrets, row : CodeRow \cup {NoRow}]
NoRollout == [pc |-> "idle", app |-> {}]

SignInTypeOK ==
  /\ clientOf \in [Relying -> Clients]
  /\ clientRow \in [Clients -> [secret : 0..MaxSecrets, app : AtMostOne(Relying)]]
  /\ minted \in 0..MaxSecrets
  /\ container \in [Secrets -> AtMostOne(Relying)]
  /\ pending \in [Secrets -> SUBSET Flows]
  /\ rollout \in [pc : {"idle", "stopped", "minted"}, app : AtMostOne(Relying)]
  /\ stopFailed \subseteq Relying
  /\ codeRows \in [Codes -> CodeRow \cup {NoRow}]
  /\ drawnCodes \in 0..MaxCodes
  /\ browser \in [Flows -> {"home", "provider", "callback", "waiting", "in", "refused"}]
  /\ flowApp \in [Flows -> AtMostOne(Relying)]
  /\ presented \in [Flows -> AtMostOne(Flows)]
  /\ tokenCall \in [Flows -> [Tries -> Calls]]
  /\ grants \in [Codes -> Nat]
  /\ signedInAs \in [Flows -> AtMostOne(Flows)]

\* Nothing is deployed yet.  The client id joins owner, app and preview with hyphens, which
\* each may contain: two of them may make one client.
SignInInit ==
  /\ clientOf \in [Relying -> Clients]
  /\ clientRow = [k \in Clients |-> [secret |-> 0, app |-> {}]]
  /\ minted = 0
  /\ container = [s \in Secrets |-> {}]
  /\ pending = [s \in Secrets |-> {}]
  /\ rollout = NoRollout
  /\ stopFailed = {}
  /\ codeRows = [c \in Codes |-> NoRow]
  /\ drawnCodes = 0
  /\ browser = [f \in Flows |-> "home"]
  /\ flowApp = [f \in Flows |-> {}]
  /\ presented = [f \in Flows |-> {}]
  /\ tokenCall = [f \in Flows |-> [i \in Tries |-> NoCall]]
  /\ grants = [c \in Codes |-> 0]
  /\ signedInAs = [f \in Flows |-> {}]

-------------------------------------------------------------------------------
(***************************************************************************)
(* A deploy, as far as the client is concerned.                            *)
(***************************************************************************)

Running(a) == {s \in Secrets : container[s] = {a}}

\* Variant: the old container is left to run until the new one does.
DeployStopsNothing(a) ==
  /\ rollout.pc = "idle" /\ minted < MaxSecrets
  /\ rollout' = [pc |-> "stopped", app |-> {a}]
  /\ stopFailed' = stopFailed \ {a}
  /\ UNCHANGED <<clientOf, clientRow, minted, container, pending, codeVars,
                 browserVars, tokenCall>>

\* The old containers go first; a stop that fails is only warned of.
DeployStops(a) ==
  /\ rollout.pc = "idle" /\ minted < MaxSecrets
  /\ rollout' = [pc |-> "stopped", app |-> {a}]
  /\ \E left \in SUBSET Running(a) :
       /\ container' = [s \in Secrets |-> IF s \in Running(a) \ left THEN {} ELSE container[s]]
       /\ pending' = [s \in Secrets |-> IF s \in Running(a) \ left THEN {} ELSE pending[s]]
       /\ stopFailed' = IF left = {} THEN stopFailed \ {a} ELSE stopFailed \cup {a}
  /\ UNCHANGED <<clientOf, clientRow, minted, codeVars, browserVars, tokenCall>>

\* provisionAppClient: the hash of a fresh secret replaces the old one, whoever's it was.
ProvisionAppClient(a) ==
  /\ rollout = [pc |-> "stopped", app |-> {a}]
  /\ minted' = minted + 1
  /\ clientRow' = [clientRow EXCEPT ![clientOf[a]] = [secret |-> minted', app |-> {a}]]
  /\ rollout' = [rollout EXCEPT !.pc = "minted"]
  /\ UNCHANGED <<clientOf, container, stopFailed, pending, codeVars, browserVars,
                 tokenCall>>

\* The new container is given the secret in its environment.
RunApp(a) ==
  /\ rollout = [pc |-> "minted", app |-> {a}]
  /\ container' = [container EXCEPT ![minted] = {a}]
  /\ rollout' = NoRollout
  /\ UNCHANGED <<clientOf, clientRow, minted, stopFailed, pending, codeVars, browserVars,
                 tokenCall>>

\* The deploy fails on the way, or the daemon dies; the container it was about to run may
\* have come up.
DeployFails ==
  /\ rollout.pc # "idle"
  /\ container' \in {container} \cup
       (IF rollout.pc = "minted" THEN {[container EXCEPT ![minted] = rollout.app]} ELSE {})
  /\ rollout' = NoRollout
  /\ UNCHANGED <<clientOf, clientRow, minted, stopFailed, pending, codeVars,
                 browserVars, tokenCall>>

-------------------------------------------------------------------------------
(***************************************************************************)
(* The browsers and the apps.                                              *)
(***************************************************************************)

\* GET /login of the app: a state and a verifier, then on to the provider.
Login(f, a, s) ==
  /\ browser[f] = "home" /\ s \in Running(a)
  /\ pending' = [pending EXCEPT ![s] = @ \cup {f}]
  /\ flowApp' = [flowApp EXCEPT ![f] = {a}]
  /\ browser' = [browser EXCEPT ![f] = "provider"]
  /\ UNCHANGED <<clientVars, codeVars, presented, signedInAs, tokenCall>>

Registered(a) == clientRow[clientOf[a]].app = {a}

\* authorizeFor: a code bound to the client, its redirect, the challenge and the user; or
\* the redirect is not the one the client has now.
Authorize(f) ==
  /\ browser[f] = "provider" /\ drawnCodes < MaxCodes
  /\ IF \E a \in flowApp[f] : Registered(a)
       THEN /\ drawnCodes' = drawnCodes + 1
            /\ codeRows' = [codeRows EXCEPT ![drawnCodes'] = {f}]
            /\ browser' = [browser EXCEPT ![f] = "callback"]
       ELSE /\ browser' = [browser EXCEPT ![f] = "refused"]
            /\ UNCHANGED <<drawnCodes, codeRows>>
  /\ UNCHANGED <<clientVars, pending, grants, flowApp, presented, signedInAs, tokenCall>>

\* GET /auth/callback, by a browser that was redirected or by one that was sent the URL, with
\* the state of any flow, which nothing binds to the browser, and any code: the verifier is
\* taken out of the map, and the exchange is sent with the container's secret.
Callback(f, g, a, s) ==
  /\ browser[f] \in {"home", "provider", "callback"} /\ s \in Running(a)
  /\ g \in pending[s]
  /\ pending' = [pending EXCEPT ![s] = @ \ {g}]
  /\ presented' = [presented EXCEPT ![f] = {g}]
  /\ \/ /\ browser' = [browser EXCEPT ![f] = "waiting"]
        /\ \E c \in 1..drawnCodes :
             tokenCall' = [tokenCall EXCEPT ![f][1] =
               [NoCall EXCEPT !.pc = "sent", !.app = {a}, !.code = {c}, !.secret = s]]
     \/ browser' = [browser EXCEPT ![f] = "refused"] /\ UNCHANGED tokenCall  \* no code came
  /\ UNCHANGED <<clientVars, codeVars, flowApp, signedInAs>>

\* The container does not know the state: it was used, or another container's.
BadCallback(f, g, a, s) ==
  /\ browser[f] = "callback" /\ s \in Running(a)
  /\ g \notin pending[s]
  /\ browser' = [browser EXCEPT ![f] = "refused"]
  /\ UNCHANGED <<clientVars, pending, codeVars, flowApp, presented, signedInAs, tokenCall>>

\* An HTTP client repeats a request whose answer, if there was one, it did not get.
Resend(f) ==
  /\ f \in Impatient /\ browser[f] = "waiting"
  /\ tokenCall[f][1].pc \notin {"off", "refused"} /\ tokenCall[f][2] = NoCall
  /\ tokenCall' = [tokenCall EXCEPT ![f][2] = [tokenCall[f][1] EXCEPT !.pc = "sent", !.row = NoRow]]
  /\ UNCHANGED <<clientVars, pending, codeVars, browserVars>>

-------------------------------------------------------------------------------
(***************************************************************************)
(* POST /oauth/token, from one await to the next.                          *)
(***************************************************************************)

Answer(f, i, pc) == tokenCall' = [tokenCall EXCEPT ![f][i].pc = pc]
Refuse(f, i)     == tokenCall' = [tokenCall EXCEPT ![f][i] = [NoCall EXCEPT !.pc = "refused"]]

SecretMatches(t) == \E a \in t.app : t.secret = clientRow[clientOf[a]].secret

\* The request arrives: the client's row is read, and the digest of the secret is compared
\* with it once it is there.
CheckClient(f, i) ==
  /\ tokenCall[f][i].pc = "sent"
  /\ IF SecretMatches(tokenCall[f][i]) THEN Answer(f, i, "redeem") ELSE Refuse(f, i)
  /\ UNCHANGED <<clientVars, pending, codeVars, browserVars>>

\* Variant: fetched, and deleted some other time.
RowsKept(c) == codeRows

\* consumeCode fetches and deletes in one transaction.
RowsAfter(c) == [codeRows EXCEPT ![c] = NoRow]

\* The client and the redirect of the row are those of the app that asks.
RowFits(t, row) == \E g \in row : flowApp[g] = t.app

\* The code is spent whether or not what follows accepts it: it may be another app's, or
\* its sixty seconds may be over.
ConsumeCode(f, i) ==
  /\ tokenCall[f][i].pc = "redeem"
  /\ \E c \in tokenCall[f][i].code :
       /\ codeRows' = RowsAfter(c)
       /\ \/ /\ RowFits(tokenCall[f][i], codeRows[c])
             /\ tokenCall' = [tokenCall EXCEPT ![f][i] =
                  [@ EXCEPT !.pc = "pkce", !.row = codeRows[c]]]
          \/ Refuse(f, i)
  /\ UNCHANGED <<clientVars, pending, drawnCodes, grants, browserVars>>

\* Variant: any verifier will do.
AnyVerifierFits(f, row) == row # NoRow

\* The verifier sent is that of the flow whose state came back; the challenge is the row's.
VerifierFits(f, row) == row = presented[f]

VerifyPkce(f, i) ==
  /\ tokenCall[f][i].pc = "pkce"
  /\ IF VerifierFits(f, tokenCall[f][i].row)
       THEN /\ Answer(f, i, "granted")
            /\ grants' = [c \in Codes |->
                 IF c \in tokenCall[f][i].code THEN grants[c] + 1 ELSE grants[c]]
       ELSE Refuse(f, i) /\ UNCHANGED grants
  /\ UNCHANGED <<clientVars, pending, codeRows, drawnCodes, browserVars>>

\* The app asks userinfo whom the token is for and sets its session.
Finish(f, i) ==
  /\ browser[f] = "waiting"
  /\ \/ /\ tokenCall[f][i].pc = "granted"
        /\ browser' = [browser EXCEPT ![f] = "in"]
        /\ signedInAs' = [signedInAs EXCEPT ![f] = tokenCall[f][i].row]
     \/ /\ tokenCall[f][i].pc = "refused"
        /\ browser' = [browser EXCEPT ![f] = "refused"]
        /\ UNCHANGED signedInAs
  /\ tokenCall' = [tokenCall EXCEPT ![f][i] = NoCall]
  /\ UNCHANGED <<clientVars, pending, codeVars, flowApp, presented>>

SignInNext ==
  \/ \E a \in Relying : DeployStops(a) \/ ProvisionAppClient(a) \/ RunApp(a)
  \/ DeployFails
  \/ \E f \in Flows, a \in Relying, s \in Secrets :
       \/ Login(f, a, s)
       \/ \E g \in Flows : Callback(f, g, a, s) \/ BadCallback(f, g, a, s)
  \/ \E f \in Flows :
       \/ Authorize(f) \/ Resend(f)
       \/ \E i \in Tries : Finish(f, i) \/ CheckClient(f, i) \/ ConsumeCode(f, i) \/ VerifyPkce(f, i)

SignInSpec == SignInInit /\ [][SignInNext]_signInVars

-------------------------------------------------------------------------------
(***************************************************************************)
(* Properties.                                                             *)
(***************************************************************************)

\* A code is good for one grant, however its redemptions overlap.
CodeOnce == \A c \in Codes : grants[c] <= 1

\* A browser is signed in only as the user of the flow whose state it came back with,
\* whatever code came with the state; and a flow signs one browser in at most, however often
\* and from wherever its URL is opened.
SignedInAsPresented ==
  \A f \in Flows :
    /\ signedInAs[f] \subseteq presented[f]
    /\ \A g \in Flows \ {f} : signedInAs[f] \cap signedInAs[g] = {}

Shared(a) == \E b \in Relying \ {a} : clientOf[b] = clientOf[a]

HoldsStored(a) == \A s \in Running(a) : clientRow[clientOf[a]].secret = s

\* Unless it is being deployed, the containers of an app hold no secret that the store has
\* rotated out from under them; except one that its own deploy could not stop, and where
\* another app's names make the same client.
SecretInLockstep ==
  \A a \in Relying :
    a \notin rollout.app /\ a \notin stopFailed /\ ~Shared(a) => HoldsStored(a)

\* However redemptions, repeated requests, swapped callbacks and deploys overlap: a code is
\* good once, for the flow it was drawn for, and an app is not locked out.
SignInSafe == CodeOnce /\ SignedInAsPresented /\ SecretInLockstep
===============================================================================
