------------------------------- MODULE TcpGate --------------------------------
(***************************************************************************)
(* The TCP gate (packages/gate/src/tcp.ts): one listener per public port,  *)
(* converged by sync() to the routing table, each bind confirmed or        *)
(* refused by an event that arrives later, a refused bind retried by a     *)
(* timer.                                                                  *)
(*                                                                         *)
(* listen() asks the operating system for the port at once; what comes     *)
(* later, in order, is the "listening" or the "error" event of the server. *)
(* Between the two another sync, a timer or stop() may run.                *)
(*                                                                         *)
(* Abstracted: the relayed bytes.  A connection is relayed to the target   *)
(* the map holds when it arrives, and dropped when there is none.          *)
(***************************************************************************)
EXTENDS Integers, Sequences

CONSTANTS
  Ports,            \* the public ports
  HostPorts,        \* loopback bindings a container may have
  MaxServers,       \* bound: server objects alive per port
  MaxSyncs,         \* bound: calls of sync
  MaxForeign        \* bound: how often another process takes a port

ASSUME TcpGateAssumption ==
  /\ 0 \notin HostPorts
  /\ MaxServers \in Nat \ {0}
  /\ MaxSyncs \in Nat
  /\ MaxForeign \in Nat

VARIABLES
  gate,             \* what the maps of the gate hold about each port
  stopped,          \* the flag stop() sets
  foreign,          \* the ports another process has bound
  syncs, takes      \* counters for the two bounds

vars == <<gate, stopped, foreign, syncs, takes>>

Servers == 1..MaxServers
None    == 0        \* no target, or no listener

\* target and listener are map entries; armed counts the timers of the port
\* that will fire, and mapped says that the retries map still has one of them;
\* server is what each server object is to the operating system, and events
\* the servers whose event is still to come, the next first.
PortState ==
  [target   : HostPorts \cup {None},
   listener : Servers \cup {None},
   pending  : BOOLEAN,
   armed    : Nat,
   mapped   : BOOLEAN,
   server   : [Servers -> {"free", "bound", "refused", "open"}],
   events   : Seq(Servers)]

TypeOK ==
  /\ gate \in [Ports -> PortState]
  /\ stopped \in BOOLEAN
  /\ foreign \subseteq Ports
  /\ syncs \in 0..MaxSyncs
  /\ takes \in 0..MaxForeign

Init ==
  /\ gate = [p \in Ports |->
               [target |-> None, listener |-> None, pending |-> FALSE,
                armed |-> 0, mapped |-> FALSE,
                server |-> [s \in Servers |-> "free"], events |-> <<>>]]
  /\ stopped = FALSE
  /\ foreign = {}
  /\ syncs = 0
  /\ takes = 0

-------------------------------------------------------------------------------
Holds(g, s) == g.server[s] \in {"bound", "open"}
Taken(p, g) == p \in foreign \/ \E s \in Servers : Holds(g, s)
Unused(g)   == {s \in Servers : g.server[s] = "free"}

\* Variant: a timer is taken off the count whether or not the map has one.
DisarmAlways(g) == [g EXCEPT !.armed = @ - 1, !.mapped = FALSE]

\* clearTimeout of the timer in the retries map, if there is one.
Disarm(g) ==
  [g EXCEPT !.armed = IF g.mapped THEN @ - 1 ELSE @, !.mapped = FALSE]

\* Variant: a port is published before its bind is confirmed.
ListenPhantom(p, g) ==
  IF stopped \/ g.target = None THEN g
  ELSE LET s == CHOOSE x \in Unused(g) : TRUE
       IN  [g EXCEPT !.listener = s,
                     !.server[s] = IF Taken(p, g) THEN "refused" ELSE "bound",
                     !.events = Append(@, s)]

\* listen(port): a new server object asks for the port.
Listen(p, g) ==
  IF stopped \/ g.target = None THEN g
  ELSE LET s == CHOOSE x \in Unused(g) : TRUE
       IN  [g EXCEPT !.pending = TRUE,
                     !.server[s] = IF Taken(p, g) THEN "refused" ELSE "bound",
                     !.events = Append(@, s)]

CloseListener(g) ==
  IF g.listener = None THEN g
  ELSE [g EXCEPT !.server[g.listener] = "free", !.listener = None]

\* Variant: the timer of a dropped port is left to fire, and its listener open.
DropTargetOnly(g) == [g EXCEPT !.target = None, !.pending = FALSE]

\* The first loop of sync: a port no longer wanted.
Drop(g) ==
  CloseListener([Disarm(g) EXCEPT !.target = None, !.pending = FALSE])

\* The second: a wanted port is retargeted, and bound unless a listener or a
\* bind under way is there already.
Want(p, g, to) ==
  LET h == [g EXCEPT !.target = to]
  IN  IF h.listener # None \/ h.pending THEN h ELSE Listen(p, h)

\* sync(routes): routes gives the live loopback binding of a port, or None.
Sync(routes) ==
  /\ syncs < MaxSyncs
  /\ \A p \in Ports : Unused(gate[p]) # {}
  /\ syncs' = syncs + 1
  /\ gate' = [p \in Ports |->
                IF routes[p] # None THEN Want(p, gate[p], routes[p])
                ELSE IF gate[p].target # None THEN Drop(gate[p])
                ELSE gate[p]]
  /\ UNCHANGED <<stopped, foreign, takes>>

\* The next event of a port is "listening".
Listening(p) ==
  LET g == gate[p] IN
  /\ g.events # <<>>
  /\ g.server[Head(g.events)] = "bound"
  /\ gate' = [gate EXCEPT ![p] =
                [g EXCEPT !.pending = FALSE,
                          !.listener = Head(g.events),
                          !.server[Head(g.events)] = "open",
                          !.events = Tail(@)]]
  /\ UNCHANGED <<stopped, foreign, syncs, takes>>

\* Variant: a refused bind waits for the next deploy.
RefusedNoRetry(p) ==
  LET g == gate[p] IN
  /\ g.events # <<>>
  /\ g.server[Head(g.events)] = "refused"
  /\ gate' = [gate EXCEPT ![p] =
                [g EXCEPT !.pending = FALSE,
                          !.listener = None,
                          !.server[Head(g.events)] = "free",
                          !.events = Tail(@)]]
  /\ UNCHANGED <<stopped, foreign, syncs, takes>>

\* The next event is "error": the port's entries go, whichever server they are
\* of, and a timer is armed while the port is wanted.
Refused(p) ==
  LET g == gate[p]
      retry == ~stopped /\ g.target # None
  IN
  /\ g.events # <<>>
  /\ g.server[Head(g.events)] = "refused"
  /\ gate' = [gate EXCEPT ![p] =
                [g EXCEPT !.pending = FALSE,
                          !.listener = None,
                          !.armed = IF retry THEN @ + 1 ELSE @,
                          !.mapped = @ \/ retry,
                          !.server[Head(g.events)] = "free",
                          !.events = Tail(@)]]
  /\ UNCHANGED <<stopped, foreign, syncs, takes>>

\* A timer fires; it looks at the listeners, not at the binds under way.
RetryFires(p) ==
  LET g == [gate[p] EXCEPT !.armed = @ - 1, !.mapped = FALSE] IN
  /\ gate[p].armed > 0
  /\ Unused(gate[p]) # {}
  /\ gate' = [gate EXCEPT ![p] = IF g.listener = None THEN Listen(p, g) ELSE g]
  /\ UNCHANGED <<stopped, foreign, syncs, takes>>

\* stop(): a reconcile pass still draining may call sync afterwards.
Stop ==
  /\ ~stopped
  /\ stopped' = TRUE
  /\ gate' = [p \in Ports |-> Drop(gate[p])]
  /\ UNCHANGED <<foreign, syncs, takes>>

\* Another process takes a free port, and gives it back.
ForeignTakes(p) ==
  /\ takes < MaxForeign
  /\ ~Taken(p, gate[p])
  /\ takes' = takes + 1
  /\ foreign' = foreign \cup {p}
  /\ UNCHANGED <<gate, stopped, syncs>>

ForeignLeaves(p) ==
  /\ p \in foreign
  /\ foreign' = foreign \ {p}
  /\ UNCHANGED <<gate, stopped, syncs, takes>>

Routes == [Ports -> HostPorts \cup {None}]

Event(p) == Listening(p) \/ Refused(p)

Next ==
  \/ \E routes \in Routes : Sync(routes)
  \/ Stop
  \/ \E p \in Ports : Event(p) \/ RetryFires(p) \/ ForeignTakes(p) \/ ForeignLeaves(p)

Spec == Init /\ [][Next]_vars

\* Events are delivered, timers fire, and a squatter leaves in the end.
Fairness ==
  \A p \in Ports : WF_vars(Event(p)) /\ WF_vars(RetryFires(p)) /\ WF_vars(ForeignLeaves(p))

FairSpec == Spec /\ Fairness

\* An event follows its bind within a millisecond, a retry after two seconds,
\* a sync after a deploy: here nothing comes between a bind and its event.
Settled == \A p \in Ports : gate[p].events = <<>>

PromptNext ==
  \/ \E p \in Ports : Event(p)
  \/ Settled /\ \/ \E routes \in Routes : Sync(routes)
                \/ Stop
                \/ \E p \in Ports : RetryFires(p) \/ ForeignTakes(p) \/ ForeignLeaves(p)

PromptSpec == Init /\ [][PromptNext]_vars /\ Fairness

-------------------------------------------------------------------------------
(***************************************************************************)
(* Properties.                                                             *)
(***************************************************************************)

\* activePorts() never reports a phantom: a port it lists is bound by the
\* server it lists, whatever sync, timers and late events did in between.
NoPhantom ==
  \A p \in Ports :
    gate[p].listener # None => gate[p].server[gate[p].listener] = "open"

\* A wanted port is bound, or a bind is under way, or a timer will try again.
NothingForgotten ==
  \A p \in Ports :
    ~stopped /\ gate[p].target # None =>
      gate[p].listener # None \/ gate[p].pending \/ gate[p].armed > 0

\* Level-based: with no bind under way, the ports open are the ports published,
\* and each of them is wanted.
Converged ==
  Settled =>
    \A p \in Ports, s \in Servers :
      gate[p].server[s] = "open" =>
        gate[p].listener = s /\ gate[p].target # None /\ ~stopped

\* A wanted port is relayed in the end, once whoever squats on it has left:
\* the gate heals without another sync.
SelfHeals ==
  \A p \in Ports :
    <>[](gate[p].target # None /\ ~stopped) => <>[](gate[p].listener # None)
===============================================================================
