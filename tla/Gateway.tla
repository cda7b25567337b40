------------------------------- MODULE Gateway --------------------------------
(***************************************************************************)
(* The HTTP gate: requests that are routed by the hosts table, whose rows  *)
(* they read before the user is resolved and follow after, while apps are  *)
(* deployed and removed and the engine hands their loopback ports out      *)
(* again.  Deploys and prunes run one at a time (Reconciler has them in    *)
(* full); here a deploy is what the routes see of it.  A container goes by *)
(* the loopback port that it holds.                                        *)
(***************************************************************************)
EXTENDS Naturals, FiniteSets

CONSTANTS
  Sites,       \* apps
  Hosts,       \* host names
  MaxLoopback, \* loopback ports, from 1
  NoSite       \* no app

ASSUME GatewayAssumption == MaxLoopback \in Nat \ {0} /\ NoSite \notin Sites

VARIABLES
  hostOf,      \* hostFor: each app's host
  heldBy,      \* heldBy[p]: the app whose container holds the port, or NoSite
  hostRow,     \* the hosts table: app and loopback port
  loose,       \* hosts whose row's container lost its port since the row was written
  routed,      \* routed[a]: the port its row was last written for, 0 if none or if it is lost
  deployed,    \* the deploy or prune under way: its step, its app, the ports it has to do with
  visit        \* the visit under way at the gate

gatewayVars == <<hostOf, heldBy, hostRow, loose, routed, deployed, visit>>

Loopbacks   == 1..MaxLoopback
NoHostRow   == [app |-> NoSite, port |-> 0]
Undisturbed == [pc |-> "idle", app |-> NoSite, ports |-> {}]
NoRequest   == [pc |-> "idle", host |-> NoSite, row |-> NoHostRow, by |-> NoSite, stale |-> FALSE]

HostRows == [app : Sites \cup {NoSite}, port : 0..MaxLoopback]

GatewayTypeOK ==
  /\ hostOf \in [Sites -> Hosts]
  /\ heldBy \in [Loopbacks -> Sites \cup {NoSite}]
  /\ hostRow \in [Hosts -> HostRows]
  /\ \A h \in Hosts : hostRow[h].app = NoSite <=> hostRow[h].port = 0
  /\ loose \subseteq Hosts
  /\ routed \in [Sites -> 0..MaxLoopback]
  /\ deployed \in [pc : {"idle", "stop", "run", "publish", "prune", "forget"},
                   app : Sites \cup {NoSite}, ports : SUBSET Loopbacks]
  /\ visit \in [pc : {"idle", "resolving", "answered"}, host : Hosts \cup {NoSite},
                row : HostRows, by : Sites \cup {NoSite}, stale : BOOLEAN]

GatewayInit ==
  /\ hostOf \in [Sites -> Hosts]
  /\ heldBy = [p \in Loopbacks |-> NoSite]
  /\ hostRow = [h \in Hosts |-> NoHostRow]
  /\ loose = {}
  /\ routed = [a \in Sites |-> 0]
  /\ deployed = Undisturbed /\ visit = NoRequest

-------------------------------------------------------------------------------
(***************************************************************************)
(* Containers.                                                             *)
(***************************************************************************)

Containers(a) == {p \in Loopbacks : heldBy[p] = a}
Unheld        == {p \in Loopbacks : heldBy[p] = NoSite}

\* A container lets go of its port: the rows that lead there are loose from now on, and so
\* is a visit that is on its way.
Loses(p) ==
  /\ loose' = loose \cup {h \in Hosts : hostRow[h].port = p}
  /\ routed' = [a \in Sites |-> IF routed[a] = p THEN 0 ELSE routed[a]]
  /\ visit' = [visit EXCEPT !.stale = @ \/ (visit.pc = "resolving" /\ visit.row.port = p)]

\* Restarted by the engine a container gets a port of the engine's choice; one whose port a
\* deploy has in hand, to write it into the row, is left alone.
EngineRestarts(p, q) ==
  /\ heldBy[p] # NoSite /\ q \in Unheld
  /\ deployed.pc = "publish" => p \notin deployed.ports
  /\ heldBy' = [heldBy EXCEPT ![p] = NoSite, ![q] = heldBy[p]]
  /\ Loses(p)
  /\ deployed' = [deployed EXCEPT !.ports = {IF r = p THEN q ELSE r : r \in @}]
  /\ UNCHANGED <<hostOf, hostRow>>

-------------------------------------------------------------------------------
(***************************************************************************)
(* Deploys, passes over what is converged, and prunes.                     *)
(***************************************************************************)

BeginDeploy(a) ==
  /\ deployed.pc = "idle"
  /\ deployed' = [pc |-> "stop", app |-> a, ports |-> Containers(a)]
  /\ UNCHANGED <<hostOf, heldBy, hostRow, loose, routed, visit>>

\* stopAndRemove of a container that was listed: it goes, or it runs on, which the deploy
\* only warns of and the prune does not look at.
StopListed(p, next) ==
  /\ \/ heldBy' = [heldBy EXCEPT ![p] = NoSite] /\ Loses(p)
     \/ UNCHANGED <<heldBy, loose, routed, visit>>
  /\ deployed' = [deployed EXCEPT !.pc = next, !.ports = @ \ {p}]
  /\ UNCHANGED <<hostOf, hostRow>>

StopSite ==
  /\ deployed.pc = "stop"
  /\ \/ \E p \in deployed.ports : StopListed(p, "stop")
     \/ /\ deployed.ports = {}
        /\ deployed' = [deployed EXCEPT !.pc = "run"]
        /\ UNCHANGED <<hostOf, heldBy, hostRow, loose, routed, visit>>

\* A loopback port of the engine's choice; or a failure, after which the container may run
\* without a row.
RunSite ==
  /\ deployed.pc = "run"
  /\ \/ \E p \in Unheld :
          /\ heldBy' = [heldBy EXCEPT ![p] = deployed.app]
          /\ deployed' \in {[deployed EXCEPT !.pc = "publish", !.ports = {p}], Undisturbed}
     \/ deployed' = Undisturbed /\ UNCHANGED heldBy
  /\ UNCHANGED <<hostOf, hostRow, loose, routed, visit>>

\* Variant: a row that is there stays.
SetHostOnce(a, p) ==
  /\ hostRow' = [hostRow EXCEPT ![hostOf[a]] = IF @ = NoHostRow THEN [app |-> a, port |-> p] ELSE @]
  /\ loose' = loose \ {hostOf[a]}
  /\ routed' = [routed EXCEPT ![a] = p]

\* setHost writes over whatever the host's row said.
SetHost(a, p) ==
  /\ hostRow' = [hostRow EXCEPT ![hostOf[a]] = [app |-> a, port |-> p]]
  /\ loose' = loose \ {hostOf[a]}
  /\ routed' = [routed EXCEPT ![a] = p]

PublishSite ==
  /\ deployed.pc = "publish"
  /\ \E p \in deployed.ports : SetHost(deployed.app, p)
  /\ deployed' = Undisturbed
  /\ UNCHANGED <<hostOf, heldBy, visit>>

\* A pass over an app of which a container runs what is wanted.
RefreshSite(a) ==
  /\ deployed.pc = "idle"
  /\ \E p \in Containers(a) : SetHost(a, p)
  /\ UNCHANGED <<hostOf, heldBy, deployed, visit>>

\* A prune takes an app's containers one by one, and after each, whether it stopped or not,
\* the app's rows.
BeginPrune(a) ==
  /\ deployed.pc = "idle" /\ Containers(a) # {}
  /\ deployed' = [pc |-> "prune", app |-> a, ports |-> Containers(a)]
  /\ UNCHANGED <<hostOf, heldBy, hostRow, loose, routed, visit>>

PruneSite ==
  /\ deployed.pc = "prune"
  /\ \E p \in deployed.ports : StopListed(p, "forget")

\* Variant: the row is kept without its app.
DisownHostsFor(a) ==
  [h \in Hosts |-> IF hostRow[h].app = a THEN [hostRow[h] EXCEPT !.app = NoSite] ELSE hostRow[h]]

\* Variant: the rows are left for the next app.
KeepHostsFor(a) == hostRow

\* Variant: by owner alone, which the apps have in common.
DeleteHostsOfOwner(a) == [h \in Hosts |-> NoHostRow]

\* deleteHostsFor goes by owner and app.
DeleteHostsFor(a) ==
  [h \in Hosts |-> IF hostRow[h].app = a THEN NoHostRow ELSE hostRow[h]]

ForgetSite ==
  /\ deployed.pc = "forget"
  /\ hostRow' = DeleteHostsFor(deployed.app)
  /\ loose' = {h \in loose : hostRow[h].app # deployed.app}
  /\ routed' = [routed EXCEPT ![deployed.app] = 0]
  /\ deployed' = IF deployed.ports = {} THEN Undisturbed ELSE [deployed EXCEPT !.pc = "prune"]
  /\ UNCHANGED <<hostOf, heldBy, visit>>

\* The daemon dies: the containers and the rows stay, the visit and the pass do not.
DaemonDies ==
  /\ deployed.pc # "idle" \/ visit.pc # "idle"
  /\ deployed' = Undisturbed /\ visit' = NoRequest
  /\ UNCHANGED <<hostOf, heldBy, hostRow, loose, routed>>

-------------------------------------------------------------------------------
(***************************************************************************)
(* A visit: the row is read, the user is resolved, which reads the store   *)
(* and may verify a password, then the visit follows the row.              *)
(***************************************************************************)

GateReads(h) ==
  /\ visit.pc # "resolving" /\ hostRow[h].app # NoSite
  /\ visit' = [pc |-> "resolving", host |-> h, row |-> hostRow[h], by |-> NoSite,
               stale |-> h \in loose]
  /\ UNCHANGED <<hostOf, heldBy, hostRow, loose, routed, deployed>>

\* The port the visit is proxied to is the one of the row it read.
Target(r) == r.row.port

\* Whoever holds the port answers; or the visitor may not, or nobody listens.
GateProxies ==
  /\ visit.pc = "resolving"
  /\ visit' \in {[visit EXCEPT !.pc = "answered", !.row = NoHostRow, !.by = b] :
                  b \in {heldBy[Target(visit)], NoSite}}
  /\ UNCHANGED <<hostOf, heldBy, hostRow, loose, routed, deployed>>

GatewayNext ==
  \/ \E p, q \in Loopbacks : EngineRestarts(p, q)
  \/ \E a \in Sites : BeginDeploy(a) \/ RefreshSite(a) \/ BeginPrune(a)
  \/ StopSite \/ RunSite \/ PublishSite \/ PruneSite \/ ForgetSite \/ DaemonDies
  \/ \E h \in Hosts : GateReads(h)
  \/ GateProxies

GatewaySpec == GatewayInit /\ [][GatewayNext]_gatewayVars

-------------------------------------------------------------------------------
(***************************************************************************)
(* Properties.                                                             *)
(***************************************************************************)

\* Another app's names make the same host: hostFor joins app and owner with a hyphen, and
\* both may contain one.
HostShared(a) == \E b \in Sites \ {a} : hostOf[b] = hostOf[a]

\* A visit is answered by an app its host names, or by nobody, however deploys and
\* prunes recycle loopback ports while its user is resolved; except when the container
\* of its row had been stopped, or was stopped meanwhile.
AnswersAreOwn ==
  visit.pc = "answered" /\ visit.by # NoSite /\ ~visit.stale =>
    hostOf[visit.by] = visit.host

\* From when its row is written until its container loses its port or a prune of the app
\* takes the row, an app's host leads to that container, whatever is done to other apps;
\* except where another app has the same host.
HostHasRow ==
  \A a \in Sites :
    routed[a] # 0 /\ ~HostShared(a) =>
      hostRow[hostOf[a]] = [app |-> a, port |-> routed[a]] /\ heldBy[routed[a]] = a

\* A row leads to a container of its own app, on its own host, or that container was
\* stopped and no pass has written the row since.
RowsFollowContainers ==
  \A h \in Hosts :
    LET r == hostRow[h] IN
    r.app # NoSite /\ h \notin loose => heldBy[r.port] = r.app /\ hostOf[r.app] = h

\* However deploys and prunes, failed stops and ends of the daemon included, recycle loopback
\* ports: a host that was given its row has it, the row leads to its own app, its app answers.
GatewaySafe == AnswersAreOwn /\ HostHasRow /\ RowsFollowContainers
===============================================================================
