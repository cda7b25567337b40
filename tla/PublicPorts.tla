------------------------------ MODULE PublicPorts -----------------------------
(***************************************************************************)
(* The app_ports table: the public TCP ports that apps claim from the      *)
(* operator's range, one by one and before the image is built, keep for as *)
(* long as they are deployed, and that lead to a container's loopback      *)
(* ports, which are anybody's once the container has stopped.              *)
(***************************************************************************)
EXTENDS Naturals, FiniteSets

CONSTANTS
  Games,       \* apps
  Exposed,     \* the TCP ports an op.json may declare
  Boxes,       \* bound: containers there may be at once
  MaxPublic,   \* the highest public port the policy ever allows
  NoGame       \* no app

ASSUME PublicPortsAssumption ==
  MaxPublic \in Nat /\ NoGame \notin Games /\ {"null", "gone"} \cap Boxes = {}

VARIABLES
  rangeTop,    \* the public range is 1..rangeTop
  box,         \* box[b]: the app of the container, the ports it declares, whether it runs
  publicOf,    \* the public port of a row, 0 if there is no row
  boundTo,     \* the container of the row's loopback port, "gone" if it lost it, or "null"
  writtenFor,  \* containers for which the rows of their app were last written, all of them
  unrowed,     \* containers that were there when a prune took the rows of their app
  claim        \* the deploy, refresh or prune under way

portsVars == <<rangeTop, box, publicOf, boundTo, writtenFor, unrowed, claim>>

NoBox   == [app |-> NoGame, ports |-> {}, on |-> FALSE]
NoClaim == [pc |-> "idle", app |-> NoGame, need |-> {}, left |-> {}, boxes |-> {}]

PortsTypeOK ==
  /\ rangeTop \in 0..MaxPublic
  /\ box \in [Boxes -> [app : Games \cup {NoGame}, ports : SUBSET Exposed, on : BOOLEAN]]
  /\ publicOf \in [Games -> [Exposed -> 0..MaxPublic]]
  /\ boundTo \in [Games -> [Exposed -> Boxes \cup {"null", "gone"}]]
  /\ \A a \in Games, c \in Exposed : publicOf[a][c] = 0 => boundTo[a][c] = "null"
  /\ writtenFor \subseteq Boxes /\ unrowed \subseteq Boxes
  /\ claim \in [pc : {"idle", "claim", "stop", "publish", "prune", "forget"},
                app : Games \cup {NoGame},
                need : SUBSET Exposed,    \* the ports the commit declares
                left : SUBSET Exposed,    \* those left to claim, or the rows left to write
                boxes : SUBSET Boxes]     \* the containers to stop, or the one to write

PortsInit ==
  /\ rangeTop = MaxPublic
  /\ box = [b \in Boxes |-> NoBox]
  /\ publicOf = [a \in Games |-> [c \in Exposed |-> 0]]
  /\ boundTo = [a \in Games |-> [c \in Exposed |-> "null"]]
  /\ writtenFor = {} /\ unrowed = {}
  /\ claim = NoClaim

-------------------------------------------------------------------------------
(***************************************************************************)
(* Containers.                                                             *)
(***************************************************************************)

BoxesOf(a) == {b \in Boxes : box[b].app = a}

\* The loopback ports of a container that stops or is restarted are anybody's.
LosesPorts(b) ==
  /\ boundTo' = [a \in Games |-> [c \in Exposed |->
                   IF boundTo[a][c] = b THEN "gone" ELSE boundTo[a][c]]]
  /\ writtenFor' = writtenFor \ {b}

\* The engine restarts a container, or brings one back that was stopped and not removed;
\* one whose ports are about to be written is left alone.
EngineRestartsBox(b) ==
  /\ box[b] # NoBox
  /\ claim.pc = "publish" => b \notin claim.boxes
  /\ box' = [box EXCEPT ![b].on = TRUE]
  /\ LosesPorts(b)
  /\ UNCHANGED <<rangeTop, publicOf, unrowed, claim>>

\* stopAndRemove: it goes; it is stopped but stays; or it runs on.
StopBox(b) ==
  \/ /\ box' \in {[box EXCEPT ![b] = NoBox], [box EXCEPT ![b].on = FALSE]}
     /\ LosesPorts(b)
     /\ unrowed' = IF box'[b] = NoBox THEN unrowed \ {b} ELSE unrowed
  \/ UNCHANGED <<box, boundTo, writtenFor, unrowed>>

-------------------------------------------------------------------------------
(***************************************************************************)
(* A deploy: claims, build, stop, run, and the rows.                       *)
(***************************************************************************)

\* The operator moves the range; what is claimed stays claimed.
MoveRange ==
  /\ rangeTop' \in 0..MaxPublic /\ rangeTop' # rangeTop
  /\ UNCHANGED <<box, publicOf, boundTo, writtenFor, unrowed, claim>>

\* The containers of the app are listed first.
BeginClaims(a) ==
  /\ claim.pc = "idle"
  /\ \E need \in SUBSET Exposed :
       claim' = [pc |-> "claim", app |-> a, need |-> need, left |-> need, boxes |-> BoxesOf(a)]
  /\ UNCHANGED <<rangeTop, box, publicOf, boundTo, writtenFor, unrowed>>

\* Variant: the ports of the apps that run.
TakenPublicOfRunning ==
  {publicOf[a][c] : a \in {box[b].app : b \in {d \in Boxes : box[d].on}}, c \in Exposed} \ {0}

TakenPublic == {publicOf[a][c] : a \in Games, c \in Exposed} \ {0}

FreePublic == (1..rangeTop) \ TakenPublic

\* Variant: the range that is in force counts.
AllocateInRange(a, c) ==
  IF publicOf[a][c] \in 1..rangeTop THEN publicOf[a][c]
  ELSE IF FreePublic = {} THEN publicOf[a][c]
  ELSE CHOOSE p \in FreePublic : \A q \in FreePublic : p <= q

\* The port the row has, or the lowest that is free; 0 if there is none.
AllocateAppPort(a, c) ==
  IF publicOf[a][c] # 0 THEN publicOf[a][c]
  ELSE IF FreePublic = {} THEN 0
  ELSE CHOOSE p \in FreePublic : \A q \in FreePublic : p <= q

\* Without a free port the deploy fails, and what it claimed stays claimed.
ClaimPort ==
  /\ claim.pc = "claim"
  /\ \E c \in claim.left :
       /\ publicOf' = [publicOf EXCEPT ![claim.app][c] = AllocateAppPort(claim.app, c)]
       /\ claim' = IF AllocateAppPort(claim.app, c) = 0 THEN NoClaim
                   ELSE [claim EXCEPT !.left = @ \ {c}]
  /\ UNCHANGED <<rangeTop, box, boundTo, writtenFor, unrowed>>

\* The image is built.
BuildGame ==
  /\ claim.pc = "claim" /\ claim.left = {}
  /\ claim' = [claim EXCEPT !.pc = "stop"]
  /\ UNCHANGED <<rangeTop, box, publicOf, boundTo, writtenFor, unrowed>>

\* A stop that fails is only warned of.
StopGame ==
  /\ claim.pc = "stop"
  /\ \E b \in claim.boxes :
       StopBox(b) /\ claim' = [claim EXCEPT !.boxes = @ \ {b}]
  /\ UNCHANGED <<rangeTop, publicOf>>

\* A name for the next container.
Unused == CHOOSE b \in Boxes : box[b] = NoBox

\* runApp starts a container; it may fail after that, or the daemon die.
RunGame ==
  /\ claim.pc = "stop" /\ claim.boxes = {}
  /\ \E b \in Boxes :
       /\ box[b] = NoBox /\ b = Unused
       /\ box' = [box EXCEPT ![b] = [app |-> claim.app, ports |-> claim.need, on |-> TRUE]]
       /\ claim' \in {[claim EXCEPT !.pc = "publish", !.left = claim.need, !.boxes = {b}], NoClaim}
  /\ UNCHANGED <<rangeTop, publicOf, boundTo, writtenFor, unrowed>>

\* Variant: a row that has a binding keeps it.
BindNewOnly(a, c, b) ==
  boundTo' = [boundTo EXCEPT ![a][c] = IF @ = "null" /\ c \in box[b].ports THEN b ELSE @]

\* Variant: whether or not the container declares the port.
BindUndeclared(a, c, b) == boundTo' = [boundTo EXCEPT ![a][c] = b]

\* setAppPortBinding: the container's loopback port, or null if it does not declare the port.
SetAppPortBinding(a, c, b) ==
  boundTo' = [boundTo EXCEPT ![a][c] = IF c \in box[b].ports THEN b ELSE "null"]

\* The rows are written one by one; in between the app's rows are of two containers.
WriteRow ==
  /\ claim.pc = "publish"
  /\ \E c \in claim.left, b \in claim.boxes :
       /\ SetAppPortBinding(claim.app, c, b)
       /\ claim' = [claim EXCEPT !.left = @ \ {c}]
  /\ writtenFor' = writtenFor \ BoxesOf(claim.app)
  /\ UNCHANGED <<rangeTop, box, publicOf, unrowed>>

WrittenAll ==
  /\ claim.pc = "publish" /\ claim.left = {}
  /\ writtenFor' = (writtenFor \ BoxesOf(claim.app)) \cup claim.boxes
  /\ claim' = NoClaim
  /\ UNCHANGED <<rangeTop, box, publicOf, boundTo, unrowed>>

\* refreshTcpBindings: a pass finds the app converged and goes through the rows it has.
RefreshGame(a) ==
  /\ claim.pc = "idle"
  /\ \E b \in BoxesOf(a) :
       /\ box[b].on
       /\ claim' = [pc |-> "publish", app |-> a, need |-> {}, boxes |-> {b},
                    left |-> {c \in Exposed : publicOf[a][c] # 0}]
  /\ UNCHANGED <<rangeTop, box, publicOf, boundTo, writtenFor, unrowed>>

-------------------------------------------------------------------------------
(***************************************************************************)
(* The prune of an app: each container, and after it, whether it stopped   *)
(* or not, the rows of the app.                                            *)
(***************************************************************************)

BeginPruneGame(a) ==
  /\ claim.pc = "idle" /\ BoxesOf(a) # {}
  /\ claim' = [NoClaim EXCEPT !.pc = "prune", !.app = a, !.boxes = BoxesOf(a)]
  /\ UNCHANGED <<rangeTop, box, publicOf, boundTo, writtenFor, unrowed>>

PruneGame ==
  /\ claim.pc = "prune"
  /\ \E b \in claim.boxes :
       StopBox(b) /\ claim' = [claim EXCEPT !.pc = "forget", !.boxes = @ \ {b}]
  /\ UNCHANGED <<rangeTop, publicOf>>

\* Variant: the claims go, the bindings stay.
ReleaseAppPortsFor(a) ==
  /\ publicOf' = [publicOf EXCEPT ![a] = [c \in Exposed |-> 0]]
  /\ UNCHANGED boundTo

DeleteAppPortsFor(a) ==
  /\ publicOf' = [publicOf EXCEPT ![a] = [c \in Exposed |-> 0]]
  /\ boundTo' = [boundTo EXCEPT ![a] = [c \in Exposed |-> "null"]]

ForgetGame ==
  /\ claim.pc = "forget"
  /\ DeleteAppPortsFor(claim.app)
  /\ writtenFor' = writtenFor \ BoxesOf(claim.app)
  /\ unrowed' = unrowed \cup BoxesOf(claim.app)
  /\ claim' = IF claim.boxes = {} THEN NoClaim ELSE [claim EXCEPT !.pc = "prune"]
  /\ UNCHANGED <<rangeTop, box>>

\* The work ends where it is: a step of the deploy fails, or the daemon dies.
PassEnds ==
  /\ claim.pc # "idle"
  /\ claim' = NoClaim
  /\ UNCHANGED <<rangeTop, box, publicOf, boundTo, writtenFor, unrowed>>

PortsNext ==
  \/ MoveRange
  \/ \E b \in Boxes : EngineRestartsBox(b)
  \/ \E a \in Games : BeginClaims(a) \/ RefreshGame(a) \/ BeginPruneGame(a)
  \/ ClaimPort \/ BuildGame \/ StopGame \/ RunGame \/ WriteRow \/ WrittenAll
  \/ PruneGame \/ ForgetGame \/ PassEnds

PortsSpec == PortsInit /\ [][PortsNext]_portsVars

-------------------------------------------------------------------------------
(***************************************************************************)
(* Properties.                                                             *)
(***************************************************************************)

\* A public port has one owner, whatever range it was claimed from and however
\* claims were cut short.
PublicPortsUnshared ==
  \A a, b \in Games, c, d \in Exposed :
    publicOf[a][c] = publicOf[b][d] /\ publicOf[a][c] # 0 => a = b /\ c = d

\* Every port that a container declares has its app's public row, also when its deploy was
\* cut short; except a container that was there when a prune took the rows. And a row that
\* leads to a container leads to one that runs, is of the row's app and declares the port.
DeclaredIsPublic ==
  /\ \A b \in Boxes \ unrowed, c \in Exposed :
       box[b].app # NoGame /\ c \in box[b].ports => publicOf[box[b].app][c] # 0
  /\ \A a \in Games, c \in Exposed :
       boundTo[a][c] \in Boxes =>
         LET b == box[boundTo[a][c]] IN b.on /\ b.app = a /\ c \in b.ports

\* Once an app's rows are written for a container, and until that one stops, the rows are
\* written again or a prune takes them, players come through to it on every port that it
\* declares, whatever is claimed, failed or cut short meanwhile. So a row that leads to a
\* loopback port that is gone is of a commit before, or of an app no pass has come back to.
GoneIsExplained ==
  \A b \in writtenFor \ unrowed :
    \A c \in box[b].ports : boundTo[box[b].app][c] = b

\* Players keep their address: while the app is there its public port never changes,
\* not by a redeploy, a failed deploy, the end of a daemon nor a move of the range.
AddressIsSticky ==
  [][\A a \in Games, c \in Exposed :
       publicOf[a][c] # 0 /\ publicOf'[a][c] # publicOf[a][c] =>
         claim.pc = "forget" /\ claim.app = a]_portsVars

\* However claims and stops fail, passes are cut short, ranges moved and apps pruned: a public
\* port is one app's, stays its own, and leads where the container's declaration says.
PortsHold ==
  [](PublicPortsUnshared /\ DeclaredIsPublic /\ GoneIsExplained) /\ AddressIsSticky
===============================================================================
