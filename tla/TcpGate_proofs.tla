---------------------------- MODULE TcpGate_proofs ----------------------------
(***************************************************************************)
(* What TcpGate promises, proved for any ports, servers and bounds.  Each  *)
(* operation rebuilds the entries of one port, so the invariants are facts *)
(* about a single port state that every helper keeps: a timer the map      *)
(* holds is one that will fire, a listener the map holds is open, and a    *)
(* wanted port has a listener, a bind under way or a timer.                *)
(***************************************************************************)
EXTENDS TcpGate, SequenceTheorems, TLAPS

Sound(g) ==
  /\ g \in PortState
  /\ g.mapped => g.armed > 0
  /\ g.listener # None => g.server[g.listener] = "open"

Remembered(g) ==
  g.target # None => g.listener # None \/ g.pending \/ g.armed > 0

GateInv ==
  /\ TypeOK
  /\ \A p \in Ports : Sound(gate[p])
  /\ ~stopped => \A p \in Ports : Remembered(gate[p])

-------------------------------------------------------------------------------
(***************************************************************************)
(* The helpers, on the state of one port.                                  *)
(***************************************************************************)

LEMMA NoneIsNoServer == None \notin Servers
BY TcpGateAssumption DEF None, Servers

LEMMA ListenSound ==
  ASSUME NEW p \in Ports, NEW g, Sound(g), Unused(g) # {}
  PROVE  /\ Sound(Listen(p, g))
         /\ ~stopped => Remembered(Listen(p, g))
<1>1. CASE stopped \/ g.target = None
  BY <1>1 DEF Listen, Remembered
<1>2. CASE ~(stopped \/ g.target = None)
  <2> DEFINE s == CHOOSE x \in Unused(g) : TRUE
             h == [g EXCEPT !.pending = TRUE,
                            !.server[s] = IF Taken(p, g) THEN "refused" ELSE "bound",
                            !.events = Append(@, s)]
  <2>1. s \in Servers /\ g.server[s] = "free" BY DEF Unused
  <2>2. Append(g.events, s) \in Seq(Servers)
    BY <2>1, AppendProperties DEF Sound, PortState
  <2>3. h \in PortState BY <2>1, <2>2 DEF Sound, PortState
  <2>4. /\ h.listener = g.listener /\ h.mapped = g.mapped /\ h.armed = g.armed
        /\ h.pending = TRUE
        /\ \A x \in Servers \ {s} : h.server[x] = g.server[x]
    BY <2>1 DEF Sound, PortState
  <2>5. g.listener # None => g.listener \in Servers \ {s}
    BY <2>1 DEF Sound, PortState
  <2>6. Sound(h) BY <2>3, <2>4, <2>5 DEF Sound
  <2>7. Remembered(h) BY <2>4 DEF Remembered
  <2> QED BY <1>2, <2>6, <2>7 DEF Listen
<1> QED BY <1>1, <1>2

LEMMA CloseSound ==
  ASSUME NEW g, Sound(g)
  PROVE  /\ Sound(CloseListener(g))
         /\ CloseListener(g).target = g.target
         /\ CloseListener(g).listener = None
<1>1. CASE g.listener = None BY <1>1 DEF CloseListener
<1>2. CASE g.listener # None
  <2> DEFINE h == [g EXCEPT !.server[g.listener] = "free", !.listener = None]
  <2>1. g.listener \in Servers BY <1>2 DEF Sound, PortState
  <2>2. h \in PortState BY <2>1 DEF Sound, PortState
  <2>3. /\ h.listener = None /\ h.target = g.target
        /\ h.mapped = g.mapped /\ h.armed = g.armed
    BY DEF Sound, PortState
  <2> QED BY <1>2, <2>2, <2>3 DEF CloseListener, Sound
<1> QED BY <1>1, <1>2

LEMMA DisarmSound ==
  ASSUME NEW g, Sound(g)
  PROVE  Sound(Disarm(g))
<1>1. CASE g.mapped
  <2>1. g.armed - 1 \in Nat BY <1>1 DEF Sound, PortState
  <2>2. Disarm(g) = [g EXCEPT !.armed = @ - 1, !.mapped = FALSE] BY <1>1 DEF Disarm
  <2> QED BY <2>1, <2>2 DEF Sound, PortState
<1>2. CASE ~g.mapped
  <2>1. Disarm(g) = [g EXCEPT !.armed = @, !.mapped = FALSE] BY <1>2 DEF Disarm
  <2> QED BY <2>1 DEF Sound, PortState
<1> QED BY <1>1, <1>2

LEMMA DropSound ==
  ASSUME NEW g, Sound(g)
  PROVE  Sound(Drop(g)) /\ Drop(g).target = None /\ Drop(g).listener = None
<1> DEFINE d == Disarm(g)
           h == [d EXCEPT !.target = None, !.pending = FALSE]
<1>1. Sound(d) BY DisarmSound
<1>2. Sound(h) /\ h.target = None BY <1>1 DEF Sound, PortState
<1> QED BY <1>2, CloseSound DEF Drop

LEMMA WantSound ==
  ASSUME NEW p \in Ports, NEW g, Sound(g), Unused(g) # {}, NEW to \in HostPorts
  PROVE  Sound(Want(p, g, to)) /\ (~stopped => Remembered(Want(p, g, to)))
<1> DEFINE h == [g EXCEPT !.target = to]
<1>1. Sound(h) BY DEF Sound, PortState
<1>2. Unused(h) # {} BY DEF Unused, Sound, PortState
<1>3. CASE h.listener # None \/ h.pending
  BY <1>1, <1>3 DEF Want, Remembered
<1>4. CASE ~(h.listener # None \/ h.pending)
  BY <1>1, <1>2, <1>4, ListenSound DEF Want
<1> QED BY <1>3, <1>4

-------------------------------------------------------------------------------
(***************************************************************************)
(* The steps.                                                              *)
(***************************************************************************)

LEMMA GateInit == Init => GateInv
<1> SUFFICES ASSUME Init PROVE GateInv OBVIOUS
<1>1. gate \in [Ports -> PortState]
  BY EmptySeq DEF Init, PortState
<1>2. TypeOK
  <2>1. 0 \in 0..MaxSyncs /\ 0 \in 0..MaxForeign BY TcpGateAssumption
  <2>2. stopped = FALSE /\ foreign = {} /\ syncs = 0 /\ takes = 0 BY DEF Init
  <2> QED BY <1>1, <2>1, <2>2 DEF TypeOK
<1>3. ASSUME NEW p \in Ports PROVE Sound(gate[p]) /\ Remembered(gate[p])
  <2>1. /\ gate[p].mapped = FALSE /\ gate[p].listener = None /\ gate[p].target = None
        /\ gate[p] \in PortState
    BY <1>1 DEF Init
  <2> QED BY <2>1 DEF Sound, Remembered
<1> QED BY <1>2, <1>3 DEF GateInv

LEMMA GateStep == ASSUME GateInv, [Next]_vars PROVE GateInv'
<1> USE DEF GateInv, TypeOK
<1>1. ASSUME NEW routes \in Routes, Sync(routes) PROVE GateInv'
  <2>1. ASSUME NEW p \in Ports
        PROVE  Sound(gate'[p]) /\ (~stopped => Remembered(gate'[p]))
    <3>1. CASE routes[p] # None
      <4>1. routes[p] \in HostPorts BY <3>1 DEF Routes
      <4>2. gate'[p] = Want(p, gate[p], routes[p]) BY <1>1, <3>1 DEF Sync
      <4> QED BY <1>1, <4>1, <4>2, WantSound DEF Sync
    <3>2. CASE routes[p] = None /\ gate[p].target # None
      <4>1. gate'[p] = Drop(gate[p]) BY <1>1, <3>2 DEF Sync
      <4> QED BY <4>1, DropSound DEF Remembered
    <3>3. CASE routes[p] = None /\ gate[p].target = None
      <4>1. gate'[p] = gate[p] BY <1>1, <3>3 DEF Sync
      <4> QED BY <4>1
    <3> QED BY <3>1, <3>2, <3>3
  <2>2. gate' \in [Ports -> PortState] BY <1>1, <2>1 DEF Sync, Sound
  <2> QED BY <1>1, <2>1, <2>2, TcpGateAssumption DEF Sync
<1>2. CASE Stop
  <2>1. \A p \in Ports : Sound(gate'[p]) BY <1>2, DropSound DEF Stop
  <2>2. gate' \in [Ports -> PortState] BY <1>2, <2>1 DEF Stop, Sound
  <2> QED BY <1>2, <2>1, <2>2 DEF Stop
<1>3. ASSUME NEW p \in Ports, Listening(p) PROVE GateInv'
  <2> DEFINE g == gate[p]
             s == Head(g.events)
             h == [g EXCEPT !.pending = FALSE, !.listener = s,
                            !.server[s] = "open", !.events = Tail(@)]
  <2>1. s \in Servers /\ Tail(g.events) \in Seq(Servers)
    BY <1>3, HeadTailProperties DEF Listening, Sound, PortState
  <2>2. Sound(h) /\ Remembered(h)
    BY <2>1, NoneIsNoServer DEF Sound, Remembered, PortState
  <2> QED BY <1>3, <2>2 DEF Listening, Sound
<1>4. ASSUME NEW p \in Ports, Refused(p) PROVE GateInv'
  <2> DEFINE g == gate[p]
             s == Head(g.events)
             retry == ~stopped /\ g.target # None
             h == [g EXCEPT !.pending = FALSE, !.listener = None,
                            !.armed = IF retry THEN @ + 1 ELSE @,
                            !.mapped = @ \/ retry,
                            !.server[s] = "free", !.events = Tail(@)]
  <2>1. s \in Servers /\ Tail(g.events) \in Seq(Servers)
    BY <1>4, HeadTailProperties DEF Refused, Sound, PortState
  <2>2. (g.mapped \/ retry) \in BOOLEAN BY DEF Sound, PortState
  <2>3. h \in PortState
    <3>1. (IF retry THEN g.armed + 1 ELSE g.armed) \in Nat BY DEF Sound, PortState
    <3> DEFINE armed == IF retry THEN g.armed + 1 ELSE g.armed
               mapped == g.mapped \/ retry
    <3>2. h = [g EXCEPT !.pending = FALSE, !.listener = None, !.armed = armed,
                        !.mapped = mapped, !.server[s] = "free", !.events = Tail(g.events)]
      OBVIOUS
    <3>3. armed \in Nat /\ mapped \in BOOLEAN BY <2>2, <3>1
    <3>4. g \in PortState BY DEF Sound
    <3> HIDE DEF armed, mapped, h, g, s, retry
    <3> QED BY <2>1, <3>2, <3>3, <3>4 DEF PortState
  <2>4. Sound(h) /\ (~stopped => Remembered(h))
    BY <2>1, <2>3 DEF Sound, Remembered, PortState
  <2> QED BY <1>4, <2>4 DEF Refused, Sound
<1>5. ASSUME NEW p \in Ports, RetryFires(p) PROVE GateInv'
  <2> DEFINE g == [gate[p] EXCEPT !.armed = @ - 1, !.mapped = FALSE]
  <2>1. Sound(g) /\ Unused(g) # {}
    <3>1. Sound(gate[p]) /\ gate[p].armed > 0 /\ Unused(gate[p]) # {} BY <1>5 DEF RetryFires
    <3>2. gate[p].armed - 1 \in Nat BY <3>1 DEF Sound, PortState
    <3>3. g \in PortState /\ g.mapped = FALSE BY <3>1, <3>2 DEF Sound, PortState
    <3>4. g.listener = gate[p].listener /\ g.server = gate[p].server
      BY <3>1 DEF Sound, PortState
    <3> HIDE DEF g
    <3> QED BY <3>1, <3>3, <3>4 DEF Sound, Unused
  <2>2. gate'[p] = IF g.listener = None THEN Listen(p, g) ELSE g
    BY <1>5 DEF RetryFires
  <2>3. Sound(gate'[p]) /\ (~stopped => Remembered(gate'[p]))
    BY <2>1, <2>2, ListenSound DEF Remembered
  <2> QED BY <1>5, <2>3 DEF RetryFires, Sound
<1>6. ASSUME NEW p \in Ports, ForeignTakes(p) PROVE GateInv'
  BY <1>6, TcpGateAssumption DEF ForeignTakes
<1>7. ASSUME NEW p \in Ports, ForeignLeaves(p) PROVE GateInv'
  BY <1>7 DEF ForeignLeaves
<1>8. CASE UNCHANGED vars BY <1>8 DEF vars
<1> QED BY <1>1, <1>2, <1>3, <1>4, <1>5, <1>6, <1>7, <1>8 DEF Next, Event

LEMMA GateAlways == Spec => []GateInv
BY GateInit, GateStep, PTL DEF Spec

\* Every variable of the gate keeps its type; in particular no timer is cleared twice.
THEOREM GateTypes == Spec => []TypeOK
<1>1. GateInv => TypeOK BY DEF GateInv
<1> QED BY <1>1, GateAlways, PTL

\* The gate never reports a port that its listener does not hold.
THEOREM NoPhantomPorts == Spec => []NoPhantom
<1>1. GateInv => NoPhantom BY DEF GateInv, Sound, NoPhantom
<1> QED BY <1>1, GateAlways, PTL

\* A wanted port is never left without a listener, a bind under way or a timer.
THEOREM NoPortForgotten == Spec => []NothingForgotten
<1>1. GateInv => NothingForgotten BY DEF GateInv, Remembered, NothingForgotten
<1> QED BY <1>1, GateAlways, PTL

-------------------------------------------------------------------------------
(***************************************************************************)
(* When nothing comes between a bind and its event: one server at a time.  *)
(***************************************************************************)

Exact(g) ==
  /\ \A s \in Servers : g.server[s] = "open" => g.listener = s
  /\ g.listener # None => g.target # None /\ ~stopped
  /\ g.events # <<>> => /\ g.listener = None /\ g.target # None /\ ~stopped
                       /\ \E s \in Servers : g.events = <<s>>

PromptInv == GateInv /\ \A p \in Ports : Exact(gate[p])

LEMMA ListenExact ==
  ASSUME NEW p \in Ports, NEW g, Sound(g), Unused(g) # {}, Exact(g),
         g.events = <<>>, g.listener = None
  PROVE  Exact(Listen(p, g))
<1>1. CASE stopped \/ g.target = None BY <1>1 DEF Listen
<1>2. CASE ~(stopped \/ g.target = None)
  <2> DEFINE s == CHOOSE x \in Unused(g) : TRUE
             how == IF Taken(p, g) THEN "refused" ELSE "bound"
             h == [g EXCEPT !.pending = TRUE, !.server[s] = how, !.events = Append(@, s)]
  <2>1. s \in Servers BY DEF Unused
  <2>2. how # "open" OBVIOUS
  <2>3. Append(g.events, s) = <<s>> BY <2>1
  <2>4. g \in PortState BY DEF Sound
  <2> HIDE DEF s, how
  <2>5. /\ h.listener = None /\ h.target = g.target /\ h.events = <<s>>
        /\ h.server = [g.server EXCEPT ![s] = how]
    BY <2>3, <2>4 DEF PortState
  <2>6. \A x \in Servers : h.server[x] # "open"
    <3>1. g.server \in [Servers -> {"free", "bound", "refused", "open"}] BY <2>4 DEF PortState
    <3>2. \A x \in Servers : g.server[x] # "open" BY NoneIsNoServer DEF Exact
    <3> QED BY <2>1, <2>2, <2>5, <3>1, <3>2
  <2>7. Exact(h) BY <1>2, <2>1, <2>5, <2>6 DEF Exact
  <2> QED BY <1>2, <2>7 DEF Listen, s, how
<1> QED BY <1>1, <1>2

LEMMA DropExact ==
  ASSUME NEW g, Sound(g), Exact(g), g.events = <<>>
  PROVE  /\ Drop(g).listener = None /\ Drop(g).events = <<>>
         /\ \A s \in Servers : Drop(g).server[s] # "open"
<1> DEFINE d == Disarm(g)
           h == [d EXCEPT !.target = None, !.pending = FALSE]
<1>1. Sound(d) /\ d.listener = g.listener /\ d.server = g.server /\ d.events = g.events
  BY DisarmSound DEF Disarm, Sound, PortState
<1>2. /\ h \in PortState /\ h.listener = g.listener /\ h.server = g.server /\ h.events = <<>>
  <2> HIDE DEF d
  <2> QED BY <1>1 DEF Sound, PortState
<1> HIDE DEF h
<1>3. g.server \in [Servers -> {"free", "bound", "refused", "open"}] BY DEF Sound, PortState
<1>4. CASE g.listener = None
  <2>1. CloseListener(h) = h BY <1>2, <1>4 DEF CloseListener
  <2>2. \A s \in Servers : g.server[s] # "open" BY <1>4, NoneIsNoServer DEF Exact
  <2> QED BY <1>2, <1>4, <2>1, <2>2 DEF Drop, h
<1>5. CASE g.listener # None
  <2> DEFINE c == [h EXCEPT !.server[h.listener] = "free", !.listener = None]
  <2>1. /\ c.listener = None /\ c.events = <<>>
        /\ c.server = [g.server EXCEPT ![g.listener] = "free"]
    BY <1>2 DEF PortState
  <2>2. \A s \in Servers : c.server[s] # "open" BY <1>3, <2>1 DEF Exact
  <2>3. Drop(g) = c BY <1>2, <1>5 DEF Drop, CloseListener, h
  <2> QED BY <2>1, <2>2, <2>3
<1> QED BY <1>4, <1>5

LEMMA WantExact ==
  ASSUME NEW p \in Ports, NEW g, Sound(g), Unused(g) # {}, Exact(g), g.events = <<>>,
         NEW to \in HostPorts
  PROVE  Exact(Want(p, g, to))
<1> DEFINE h == [g EXCEPT !.target = to]
<1>1. /\ Sound(h) /\ h.target = to /\ h.listener = g.listener /\ h.server = g.server
      /\ h.events = <<>>
  BY DEF Sound, PortState
<1>2. to # None BY TcpGateAssumption DEF None
<1>3. Exact(h) /\ Unused(h) # {} BY <1>1, <1>2 DEF Exact, Unused
<1> HIDE DEF h
<1>4. CASE h.listener # None \/ h.pending BY <1>3, <1>4 DEF Want, h
<1>5. CASE ~(h.listener # None \/ h.pending)
  <2>1. Exact(Listen(p, h)) BY <1>1, <1>3, <1>5, ListenExact
  <2> QED BY <1>5, <2>1 DEF Want, h
<1> QED BY <1>4, <1>5

LEMMA PromptInit == Init => PromptInv
<1> SUFFICES ASSUME Init PROVE PromptInv OBVIOUS
<1>1. \A p \in Ports : /\ gate[p].listener = None /\ gate[p].events = <<>>
                      /\ gate[p].server = [s \in Servers |-> "free"]
  BY DEF Init
<1> QED BY <1>1, GateInit DEF PromptInv, Exact

LEMMA PromptStep == ASSUME PromptInv, [PromptNext]_vars PROVE PromptInv'
<1> USE DEF PromptInv
<1>0. GateInv'
  <2>1. [Next]_vars BY DEF PromptNext, Next
  <2> QED BY <2>1, GateStep
<1>1. \A p \in Ports : Sound(gate[p]) /\ gate[p] \in PortState BY DEF GateInv, Sound
<1>2. gate \in [Ports -> PortState] BY DEF GateInv, TypeOK
<1>3. ASSUME NEW routes \in Routes, Settled, Sync(routes) PROVE PromptInv'
  <2>1. ASSUME NEW p \in Ports PROVE Exact(gate'[p])
    <3>1. gate[p].events = <<>> /\ Unused(gate[p]) # {} BY <1>3 DEF Settled, Sync
    <3>2. CASE routes[p] # None
      <4>1. routes[p] \in HostPorts BY <3>2 DEF Routes
      <4>2. gate'[p] = Want(p, gate[p], routes[p]) BY <1>3, <3>2 DEF Sync
      <4> QED BY <1>1, <3>1, <4>1, <4>2, WantExact
    <3>3. CASE routes[p] = None /\ gate[p].target # None
      <4>1. gate'[p] = Drop(gate[p]) BY <1>3, <3>3 DEF Sync
      <4> QED BY <1>1, <3>1, <4>1, DropExact DEF Exact
    <3>4. CASE routes[p] = None /\ gate[p].target = None
      <4>1. gate'[p] = gate[p] BY <1>3, <3>4 DEF Sync
      <4> QED BY <4>1
    <3> QED BY <3>2, <3>3, <3>4
  <2>2. stopped' = stopped BY <1>3 DEF Sync
  <2> QED BY <1>0, <2>1, <2>2 DEF Exact
<1>4. CASE Settled /\ Stop
  <2>1. ASSUME NEW p \in Ports
        PROVE  /\ gate'[p].listener = None /\ gate'[p].events = <<>>
               /\ \A s \in Servers : gate'[p].server[s] # "open"
    BY <1>1, <1>4, DropExact DEF Settled, Stop
  <2> QED BY <1>0, <2>1 DEF Exact
<1>5. ASSUME NEW p \in Ports, Listening(p) PROVE PromptInv'
  <2> DEFINE g == gate[p]
             s == Head(g.events)
             h == [g EXCEPT !.pending = FALSE, !.listener = s,
                            !.server[s] = "open", !.events = Tail(@)]
  <2>1. /\ g.listener = None /\ g.target # None /\ ~stopped
        /\ s \in Servers /\ Tail(g.events) = <<>>
    <3>1. gate[p].events # <<>> BY <1>5 DEF Listening
    <3>2. gate[p].listener = None /\ gate[p].target # None /\ ~stopped BY <3>1 DEF Exact
    <3>3. PICK x \in Servers : gate[p].events = <<x>> BY <3>1 DEF Exact
    <3>4. Head(<<x>>) = x /\ Tail(<<x>>) = <<>> OBVIOUS
    <3> QED BY <3>2, <3>3, <3>4
  <2>2. \A x \in Servers : g.server[x] # "open" BY <2>1, NoneIsNoServer DEF Exact
  <2>3. /\ h.listener = s /\ h.target = g.target /\ h.events = <<>>
        /\ \A x \in Servers \ {s} : h.server[x] = g.server[x]
    <3>1. g \in PortState BY <1>1
    <3> HIDE DEF g, s
    <3> QED BY <2>1, <3>1 DEF PortState
  <2>4. \A x \in Servers : h.server[x] = "open" => x = s BY <2>2, <2>3
  <2>5. gate' = [gate EXCEPT ![p] = h] /\ stopped' = stopped BY <1>5 DEF Listening
  <2> HIDE DEF h, s
  <2>6. Exact(gate[p])' BY <1>2, <2>1, <2>3, <2>4, <2>5 DEF Exact
  <2>7. \A q \in Ports \ {p} : Exact(gate[q])' BY <1>2, <2>5 DEF Exact
  <2> QED BY <1>0, <2>6, <2>7
<1>6. ASSUME NEW p \in Ports, Refused(p) PROVE PromptInv'
  <2> DEFINE g == gate[p]
             s == Head(g.events)
             retry == ~stopped /\ g.target # None
             h == [g EXCEPT !.pending = FALSE, !.listener = None,
                            !.armed = IF retry THEN @ + 1 ELSE @,
                            !.mapped = @ \/ retry,
                            !.server[s] = "free", !.events = Tail(@)]
  <2>1. g.listener = None /\ s \in Servers /\ Tail(g.events) = <<>>
    <3>1. gate[p].events # <<>> BY <1>6 DEF Refused
    <3>2. gate[p].listener = None /\ gate[p].target # None /\ ~stopped BY <3>1 DEF Exact
    <3>3. PICK x \in Servers : gate[p].events = <<x>> BY <3>1 DEF Exact
    <3>4. Head(<<x>>) = x /\ Tail(<<x>>) = <<>> OBVIOUS
    <3> QED BY <3>2, <3>3, <3>4
  <2>2. \A x \in Servers : g.server[x] # "open" BY <2>1, NoneIsNoServer DEF Exact
  <2>3. /\ h.listener = None /\ h.events = <<>>
        /\ h.server = [g.server EXCEPT ![s] = "free"]
    <3>1. g \in PortState BY <1>1
    <3> HIDE DEF g, s, retry
    <3> QED BY <2>1, <3>1 DEF PortState
  <2>4. \A x \in Servers : h.server[x] # "open"
    <3>1. g.server \in [Servers -> {"free", "bound", "refused", "open"}] BY <1>1 DEF PortState
    <3> QED BY <2>2, <2>3, <3>1
  <2>5. gate' = [gate EXCEPT ![p] = h] /\ stopped' = stopped BY <1>6 DEF Refused
  <2> HIDE DEF h
  <2>6. Exact(gate[p])' BY <1>2, <2>3, <2>4, <2>5 DEF Exact
  <2>7. \A q \in Ports \ {p} : Exact(gate[q])' BY <1>2, <2>5 DEF Exact
  <2> QED BY <1>0, <2>6, <2>7
<1>7. ASSUME NEW p \in Ports, Settled, RetryFires(p) PROVE PromptInv'
  <2> DEFINE g == [gate[p] EXCEPT !.armed = @ - 1, !.mapped = FALSE]
             h == IF g.listener = None THEN Listen(p, g) ELSE g
  <2>1. /\ Sound(gate[p]) /\ gate[p].armed > 0 /\ Unused(gate[p]) # {}
        /\ gate[p].events = <<>>
    BY <1>7 DEF RetryFires, GateInv, Settled
  <2>2. gate[p].armed - 1 \in Nat BY <2>1 DEF Sound, PortState
  <2>3. /\ g \in PortState /\ g.mapped = FALSE /\ g.listener = gate[p].listener
        /\ g.server = gate[p].server /\ g.target = gate[p].target /\ g.events = <<>>
    BY <2>1, <2>2 DEF Sound, PortState
  <2>4. gate' = [gate EXCEPT ![p] = h] /\ stopped' = stopped BY <1>7 DEF RetryFires
  <2> HIDE DEF g
  <2>5. Sound(g) /\ Unused(g) # {} /\ Exact(g) BY <2>1, <2>3 DEF Sound, Unused, Exact
  <2>6. Exact(h) BY <2>3, <2>5, ListenExact
  <2> HIDE DEF h
  <2>7. Exact(gate[p])' BY <1>2, <2>4, <2>6 DEF Exact
  <2>8. \A q \in Ports \ {p} : Exact(gate[q])' BY <1>2, <2>4 DEF Exact
  <2> QED BY <1>0, <2>7, <2>8
<1>8. ASSUME UNCHANGED <<gate, stopped>> PROVE PromptInv'
  BY <1>0, <1>8 DEF Exact
<1>9. \A p \in Ports : ForeignTakes(p) \/ ForeignLeaves(p) => UNCHANGED <<gate, stopped>>
  BY DEF ForeignTakes, ForeignLeaves
<1>10. UNCHANGED vars => UNCHANGED <<gate, stopped>> BY DEF vars
<1> QED
  BY <1>3, <1>4, <1>5, <1>6, <1>7, <1>8, <1>9, <1>10 DEF PromptNext, Event

\* Once no bind is under way, the ports open are the ports published and wanted.
THEOREM GateConverges == PromptSpec => []Converged
<1>1. PromptInv => Converged
  BY NoneIsNoServer DEF PromptInv, Exact, Converged
<1> QED BY <1>1, PromptInit, PromptStep, PTL DEF PromptSpec
===============================================================================
