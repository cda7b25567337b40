---------------------------- MODULE Deploy_proofs -----------------------------
(***************************************************************************)
(* What the parts that a deploy writes to promise, proved for any number   *)
(* of apps and any values of the constants: the table of public ports,     *)
(* the HTTP gate's routes, the assets and the data plane. In each the      *)
(* argument is one inductive invariant, the conjunction of a type and of   *)
(* what every step of the work under way has established so far.           *)
(***************************************************************************)
EXTENDS PublicPorts, Gateway, Assets, DataPlane, WellFoundedInduction, TLAPS

-------------------------------------------------------------------------------
(***************************************************************************)
(* PublicPorts. A deploy spreads over several writes, any of which may be  *)
(* the last: the invariant says what is claimed when its containers are    *)
(* stopped, and that while rows are written the container they are for     *)
(* runs and those already written lead to it.                              *)
(***************************************************************************)

\* What the deploy, refresh or prune under way has done so far.
Claimed ==
  /\ claim.pc # "idle" <=> claim.app \in Games
  /\ claim.pc \in {"claim", "stop"} => \A c \in claim.need \ claim.left : publicOf[claim.app][c] # 0
  /\ claim.pc = "stop" => claim.left = {}

\* The container whose rows are being written runs; what is not left to write leads to it.
Publishing ==
  claim.pc = "publish" =>
    /\ \A c \in claim.left : publicOf[claim.app][c] # 0
    /\ \E b \in Boxes :
         /\ claim.boxes = {b} /\ box[b].on /\ box[b].app = claim.app
         /\ \A c \in box[b].ports \ claim.left :
              publicOf[claim.app][c] # 0 => boundTo[claim.app][c] = b

BoxesKnown ==
  /\ \A b \in Boxes : box[b].app = NoGame => box[b] = NoBox
  /\ \A b \in writtenFor : box[b].on

PortsInv ==
  /\ PortsTypeOK /\ PublicPortsUnshared /\ Claimed /\ Publishing /\ BoxesKnown
  /\ DeclaredIsPublic /\ GoneIsExplained

\* A set of ports has a lowest.
LEMMA LeastOfNaturals ==
  ASSUME NEW S, S \subseteq Nat, S # {}
  PROVE  \E p \in S : \A q \in S : p <= q
<1> DEFINE Less == OpToRel(<, Nat)
<1>1. IsWellFoundedOn(Less, Nat) BY NatLessThanWellFounded
<1>2. \A x, y \in Nat : x < y => <<x, y>> \in Less BY DEF OpToRel
<1> HIDE DEF Less
<1>3. PICK p \in S : \A q \in S : <<q, p>> \notin Less BY <1>1, WFMin
<1>4. \A q \in S : ~(q < p) BY <1>2, <1>3
<1> QED BY <1>4

\* A fresh port is nobody's.
LEMMA AllocateFree ==
  ASSUME PortsTypeOK, NEW a \in Games, NEW c \in Exposed
  PROVE  /\ AllocateAppPort(a, c) \in 0..MaxPublic
         /\ publicOf[a][c] # 0 => AllocateAppPort(a, c) = publicOf[a][c]
         /\ publicOf[a][c] = 0 => \/ AllocateAppPort(a, c) = 0
                                  \/ \A b \in Games, d \in Exposed :
                                       publicOf[b][d] # AllocateAppPort(a, c)
<1>1. CASE publicOf[a][c] # 0
  BY <1>1 DEF AllocateAppPort, PortsTypeOK
<1>2. CASE publicOf[a][c] = 0 /\ FreePublic = {}
  BY <1>2, PublicPortsAssumption DEF AllocateAppPort
<1>3. CASE publicOf[a][c] = 0 /\ FreePublic # {}
  <2>1. FreePublic \subseteq Nat BY PublicPortsAssumption DEF FreePublic, PortsTypeOK
  <2>2. PICK p \in FreePublic : \A q \in FreePublic : p <= q
    BY <1>3, <2>1, LeastOfNaturals
  <2>3. AllocateAppPort(a, c) \in FreePublic BY <1>3, <2>2 DEF AllocateAppPort
  <2> QED
    BY <1>3, <2>3, PublicPortsAssumption DEF FreePublic, TakenPublic, PortsTypeOK
<1> QED BY <1>1, <1>2, <1>3

LEMMA PortsStart == PortsInit => PortsInv
<1> SUFFICES ASSUME PortsInit PROVE PortsInv OBVIOUS
<1> USE PublicPortsAssumption DEF PortsInit, NoClaim, NoBox
<1>1. MaxPublic \in 0..MaxPublic /\ 0 \in 0..MaxPublic OBVIOUS
<1>2. PortsTypeOK BY <1>1 DEF PortsTypeOK
<1>3. PublicPortsUnshared BY DEF PublicPortsUnshared
<1>4. Claimed /\ Publishing /\ BoxesKnown BY DEF Claimed, Publishing, BoxesKnown
<1>5. DeclaredIsPublic /\ GoneIsExplained BY DEF DeclaredIsPublic, GoneIsExplained
<1> QED BY <1>2, <1>3, <1>4, <1>5 DEF PortsInv

\* Steps after which the rows and the containers are what they were.
LEMMA RowsUntouched ==
  ASSUME PortsInv, UNCHANGED <<box, publicOf, boundTo, writtenFor, unrowed>>
  PROVE  PublicPortsUnshared' /\ BoxesKnown' /\ DeclaredIsPublic' /\ GoneIsExplained'
BY DEF PortsInv, PublicPortsUnshared, BoxesKnown, DeclaredIsPublic, GoneIsExplained

\* The work is over, and nothing else happens.
LEMMA EndKeepsPorts ==
  ASSUME PortsInv, claim' = NoClaim, UNCHANGED <<box, publicOf, boundTo, writtenFor, unrowed>>,
         rangeTop' \in 0..MaxPublic
  PROVE  PortsInv'
<1> USE PublicPortsAssumption DEF PortsInv
<1>1. PortsTypeOK' BY DEF PortsTypeOK, NoClaim
<1>2. Claimed' /\ Publishing' BY DEF Claimed, Publishing, NoClaim
<1> QED BY <1>1, <1>2, RowsUntouched

\* A container loses its loopback ports: the rows that led to it lead nowhere, and no others.
LEMMA LosesKeepsRows ==
  ASSUME PortsInv, NEW b \in Boxes, LosesPorts(b), UNCHANGED publicOf,
         \A d \in Boxes \ {b} : box'[d] = box[d],
         box' \in [Boxes -> [app : Games \cup {NoGame}, ports : SUBSET Exposed, on : BOOLEAN]],
         unrowed' \subseteq Boxes,
         \/ box'[b] = NoBox /\ unrowed' = unrowed \ {b}
         \/ box'[b].app = box[b].app /\ box'[b].ports = box[b].ports /\ unrowed' = unrowed
            /\ (box[b] # NoBox \/ box'[b] = box[b])
  PROVE  /\ boundTo' \in [Games -> [Exposed -> Boxes \cup {"null", "gone"}]]
         /\ \A a \in Games, c \in Exposed : publicOf'[a][c] = 0 => boundTo'[a][c] = "null"
         /\ writtenFor' \subseteq Boxes
         /\ PublicPortsUnshared' /\ BoxesKnown' /\ DeclaredIsPublic' /\ GoneIsExplained'
<1> USE PublicPortsAssumption DEF PortsInv
<1>1. /\ \A a \in Games, c \in Exposed :
           boundTo'[a][c] = IF boundTo[a][c] = b THEN "gone" ELSE boundTo[a][c]
      /\ writtenFor' = writtenFor \ {b}
  BY DEF LosesPorts
<1>2. boundTo' \in [Games -> [Exposed -> Boxes \cup {"null", "gone"}]]
  BY DEF LosesPorts, PortsTypeOK
<1>3. \A a \in Games, c \in Exposed : publicOf'[a][c] = 0 => boundTo'[a][c] = "null"
  BY <1>1 DEF PortsTypeOK
<1>4. writtenFor' \subseteq Boxes BY <1>1 DEF PortsTypeOK
<1>5. PublicPortsUnshared' BY DEF PublicPortsUnshared
<1>6. BoxesKnown'
  <2>1. \A d \in Boxes : box'[d].app = NoGame => box'[d] = NoBox
    BY DEF BoxesKnown
  <2>2. \A d \in writtenFor' : box'[d].on BY <1>1 DEF BoxesKnown, PortsTypeOK
  <2> QED BY <2>1, <2>2 DEF BoxesKnown
<1>7. DeclaredIsPublic'
  <2>1. ASSUME NEW d \in Boxes \ unrowed', NEW c \in Exposed,
               box'[d].app # NoGame, c \in box'[d].ports
        PROVE  publicOf'[box'[d].app][c] # 0
    <3>1. d \in Boxes \ unrowed /\ box'[d].app = box[d].app /\ box'[d].ports = box[d].ports
      BY <2>1 DEF NoBox
    <3> QED BY <2>1, <3>1 DEF DeclaredIsPublic
  <2>2. ASSUME NEW a \in Games, NEW c \in Exposed, boundTo'[a][c] \in Boxes
        PROVE  LET d == box'[boundTo'[a][c]] IN d.on /\ d.app = a /\ c \in d.ports
    <3>1. boundTo'[a][c] = boundTo[a][c] /\ boundTo[a][c] # b BY <1>1, <2>2
    <3>2. box'[boundTo[a][c]] = box[boundTo[a][c]] BY <2>2, <3>1
    <3> QED BY <2>2, <3>1, <3>2 DEF DeclaredIsPublic
  <2> QED BY <2>1, <2>2 DEF DeclaredIsPublic
<1>8. GoneIsExplained'
  <2> SUFFICES ASSUME NEW d \in writtenFor' \ unrowed', NEW c \in box'[d].ports
               PROVE  boundTo'[box'[d].app][c] = d
    BY DEF GoneIsExplained
  <2>1. /\ d # b /\ d \in Boxes /\ d \in writtenFor \ unrowed /\ box'[d] = box[d]
    BY <1>1 DEF PortsTypeOK
  <2>2. boundTo[box[d].app][c] = d BY <2>1 DEF GoneIsExplained
  <2>3. box[d].app \in Games /\ c \in Exposed
    BY <2>1 DEF BoxesKnown, NoBox, PortsTypeOK
  <2> QED BY <1>1, <2>1, <2>2, <2>3
<1> QED BY <1>2, <1>3, <1>4, <1>5, <1>6, <1>7, <1>8

\* A stop of a container that is listed, whatever comes of it.
LEMMA StopKeepsRows ==
  ASSUME PortsInv, NEW b \in Boxes, StopBox(b), UNCHANGED <<rangeTop, publicOf>>,
         NEW next \in {"stop", "forget"}, claim.pc = IF next = "stop" THEN "stop" ELSE "prune",
         claim' = [claim EXCEPT !.pc = next, !.boxes = @ \ {b}]
  PROVE  PortsInv'
<1> USE PublicPortsAssumption DEF PortsInv
<1>1. /\ claim' \in [pc : {"idle", "claim", "stop", "publish", "prune", "forget"},
                     app : Games \cup {NoGame}, need : SUBSET Exposed, left : SUBSET Exposed,
                     boxes : SUBSET Boxes]
      /\ claim'.app = claim.app /\ claim'.need = claim.need /\ claim'.left = claim.left
      /\ claim'.pc = next
  BY DEF PortsTypeOK
<1>2. Claimed' /\ Publishing' BY <1>1 DEF Claimed, Publishing
<1>3. CASE UNCHANGED <<box, boundTo, writtenFor, unrowed>>
  <2>1. PortsTypeOK' BY <1>1, <1>3 DEF PortsTypeOK
  <2> QED BY <1>2, <1>3, <2>1, RowsUntouched
<1>4. CASE /\ box' \in {[box EXCEPT ![b] = NoBox], [box EXCEPT ![b].on = FALSE]}
           /\ LosesPorts(b)
           /\ unrowed' = IF box'[b] = NoBox THEN unrowed \ {b} ELSE unrowed
  <2>1. NoBox \in [app : Games \cup {NoGame}, ports : SUBSET Exposed, on : BOOLEAN] BY DEF NoBox
  <2>2. /\ box' \in [Boxes -> [app : Games \cup {NoGame}, ports : SUBSET Exposed, on : BOOLEAN]]
        /\ \A d \in Boxes \ {b} : box'[d] = box[d]
        /\ \/ box'[b] = NoBox
           \/ box'[b] = [box[b] EXCEPT !.on = FALSE]
    <3>1. CASE box' = [box EXCEPT ![b] = NoBox] BY <2>1, <3>1 DEF PortsTypeOK
    <3>2. CASE box' = [box EXCEPT ![b].on = FALSE]
      <4>1. box' = [box EXCEPT ![b] = [box[b] EXCEPT !.on = FALSE]] BY <3>2
      <4>2. [box[b] EXCEPT !.on = FALSE] \in
              [app : Games \cup {NoGame}, ports : SUBSET Exposed, on : BOOLEAN]
        <5>1. box[b] \in [app : Games \cup {NoGame}, ports : SUBSET Exposed, on : BOOLEAN]
          BY DEF PortsTypeOK
        <5> QED BY <5>1
      <4> QED BY <4>1, <4>2 DEF PortsTypeOK
    <3> QED BY <1>4, <3>1, <3>2
  <2>3. unrowed' \subseteq Boxes BY <1>4 DEF PortsTypeOK
  <2>4. \/ box'[b] = NoBox /\ unrowed' = unrowed \ {b}
        \/ box'[b].app = box[b].app /\ box'[b].ports = box[b].ports /\ unrowed' = unrowed
           /\ (box[b] # NoBox \/ box'[b] = box[b])
    <3>1. CASE box'[b] = NoBox BY <1>4, <3>1
    <3>2. CASE box'[b] # NoBox
      <4>1. box[b] \in [app : Games \cup {NoGame}, ports : SUBSET Exposed, on : BOOLEAN]
        BY DEF PortsTypeOK
      <4>2. box'[b] = [box[b] EXCEPT !.on = FALSE] BY <2>2, <3>2
      <4>3. box'[b].app = box[b].app /\ box'[b].ports = box[b].ports BY <4>1, <4>2
      <4>4. box[b] # NoBox
        <5>1. ASSUME box[b] = NoBox PROVE FALSE
          <6>1. box'[b].app = NoGame /\ box'[b].ports = {} /\ box'[b].on = FALSE
            BY <4>1, <4>2, <5>1 DEF NoBox
          <6>2. box'[b] \in [app : Games \cup {NoGame}, ports : SUBSET Exposed, on : BOOLEAN]
            BY <2>2
          <6> QED BY <3>2, <6>1, <6>2 DEF NoBox
        <5> QED BY <5>1
      <4> QED BY <1>4, <3>2, <4>3, <4>4
    <3> QED BY <3>1, <3>2
  <2>5. /\ boundTo' \in [Games -> [Exposed -> Boxes \cup {"null", "gone"}]]
        /\ \A a \in Games, c \in Exposed : publicOf'[a][c] = 0 => boundTo'[a][c] = "null"
        /\ writtenFor' \subseteq Boxes
        /\ PublicPortsUnshared' /\ BoxesKnown' /\ DeclaredIsPublic' /\ GoneIsExplained'
    BY <1>4, <2>2, <2>3, <2>4, LosesKeepsRows
  <2>6. PortsTypeOK' BY <1>1, <2>2, <2>3, <2>5 DEF PortsTypeOK
  <2> QED BY <1>2, <2>5, <2>6
<1> QED BY <1>3, <1>4 DEF StopBox

LEMMA RestartKeepsPorts ==
  ASSUME PortsInv, NEW b \in Boxes, EngineRestartsBox(b) PROVE PortsInv'
<1> USE PublicPortsAssumption DEF PortsInv
<1>1. /\ box[b] # NoBox /\ box' = [box EXCEPT ![b].on = TRUE] /\ LosesPorts(b)
      /\ claim.pc = "publish" => b \notin claim.boxes
      /\ UNCHANGED <<rangeTop, publicOf, unrowed, claim>>
  BY DEF EngineRestartsBox
<1>2. /\ box' \in [Boxes -> [app : Games \cup {NoGame}, ports : SUBSET Exposed, on : BOOLEAN]]
      /\ \A d \in Boxes \ {b} : box'[d] = box[d]
      /\ box'[b].app = box[b].app /\ box'[b].ports = box[b].ports
  <2>1. box[b] \in [app : Games \cup {NoGame}, ports : SUBSET Exposed, on : BOOLEAN]
    BY DEF PortsTypeOK
  <2>2. box' = [box EXCEPT ![b] = [box[b] EXCEPT !.on = TRUE]] BY <1>1
  <2>3. [box[b] EXCEPT !.on = TRUE] \in
          [app : Games \cup {NoGame}, ports : SUBSET Exposed, on : BOOLEAN]
    BY <2>1
  <2> QED BY <2>1, <2>2, <2>3 DEF PortsTypeOK
<1>3. /\ boundTo' \in [Games -> [Exposed -> Boxes \cup {"null", "gone"}]]
      /\ \A a \in Games, c \in Exposed : publicOf'[a][c] = 0 => boundTo'[a][c] = "null"
      /\ writtenFor' \subseteq Boxes
      /\ PublicPortsUnshared' /\ BoxesKnown' /\ DeclaredIsPublic' /\ GoneIsExplained'
  <2>1. unrowed' \subseteq Boxes BY <1>1 DEF PortsTypeOK
  <2> QED BY <1>1, <1>2, <2>1, LosesKeepsRows
<1>4. PortsTypeOK' BY <1>1, <1>2, <1>3 DEF PortsTypeOK
<1>5. Claimed' BY <1>1 DEF Claimed
<1>6. Publishing'
  <2> SUFFICES ASSUME claim.pc = "publish" PROVE Publishing' BY <1>1 DEF Publishing
  <2>1. PICK d \in Boxes :
          /\ claim.boxes = {d} /\ box[d].on /\ box[d].app = claim.app
          /\ \A c \in box[d].ports \ claim.left :
               publicOf[claim.app][c] # 0 => boundTo[claim.app][c] = d
    BY DEF Publishing
  <2>2. d # b /\ box'[d] = box[d] BY <1>1, <1>2, <2>1
  <2>3. claim.app \in Games /\ box[d].ports \subseteq Exposed BY DEF Claimed, PortsTypeOK
  <2>4. \A c \in Exposed : boundTo[claim.app][c] = d => boundTo'[claim.app][c] = d
    BY <1>1, <2>2, <2>3 DEF LosesPorts
  <2>5. \A c \in claim.left : publicOf[claim.app][c] # 0 BY DEF Publishing
  <2> QED BY <1>1, <2>1, <2>2, <2>3, <2>4, <2>5 DEF Publishing
<1> QED BY <1>3, <1>4, <1>5, <1>6

\* A claim: the port is the one the app has, or a fresh one, or there is none.
LEMMA ClaimKeepsPorts == ASSUME PortsInv, ClaimPort PROVE PortsInv'
<1> USE PublicPortsAssumption DEF PortsInv
<1>1. PICK c \in claim.left :
        /\ publicOf' = [publicOf EXCEPT ![claim.app][c] = AllocateAppPort(claim.app, c)]
        /\ claim' = IF AllocateAppPort(claim.app, c) = 0 THEN NoClaim
                    ELSE [claim EXCEPT !.left = @ \ {c}]
  BY DEF ClaimPort
<1> DEFINE a == claim.app
           port == AllocateAppPort(a, c)
<1>2. a \in Games /\ c \in Exposed /\ claim.pc = "claim"
  BY DEF ClaimPort, Claimed, PortsTypeOK
<1>3. /\ port \in 0..MaxPublic
      /\ publicOf[a][c] # 0 => port = publicOf[a][c]
      /\ publicOf[a][c] = 0 => \/ port = 0
                               \/ \A b \in Games, d \in Exposed : publicOf[b][d] # port
  BY <1>2, AllocateFree
<1> HIDE DEF port
<1>4. publicOf' = [publicOf EXCEPT ![a][c] = port] BY <1>1 DEF port
<1>5. /\ publicOf'[a][c] = port
      /\ \A b \in Games, d \in Exposed : <<b, d>> # <<a, c>> => publicOf'[b][d] = publicOf[b][d]
  BY <1>2, <1>4 DEF PortsTypeOK
<1>6. claim' = IF port = 0 THEN NoClaim ELSE [claim EXCEPT !.left = @ \ {c}]
  BY <1>1 DEF port
<1>7. UNCHANGED <<rangeTop, box, boundTo, writtenFor, unrowed>> BY DEF ClaimPort
<1>8. \A b \in Games, d \in Exposed : publicOf[b][d] # 0 => publicOf'[b][d] = publicOf[b][d]
  BY <1>3, <1>5
<1>9. PortsTypeOK'
  <2>1. publicOf' \in [Games -> [Exposed -> 0..MaxPublic]] BY <1>2, <1>3, <1>4 DEF PortsTypeOK
  <2>2. \A b \in Games, d \in Exposed : publicOf'[b][d] = 0 => boundTo[b][d] = "null"
    BY <1>8 DEF PortsTypeOK
  <2>3. claim' \in [pc : {"idle", "claim", "stop", "publish", "prune", "forget"},
                    app : Games \cup {NoGame}, need : SUBSET Exposed, left : SUBSET Exposed,
                    boxes : SUBSET Boxes]
    BY <1>6 DEF NoClaim, PortsTypeOK
  <2> QED BY <1>7, <2>1, <2>2, <2>3 DEF PortsTypeOK
<1>10. PublicPortsUnshared' BY <1>3, <1>5 DEF PublicPortsUnshared
<1>11. Claimed'
  <2>1. CASE port = 0 BY <1>6, <2>1 DEF Claimed, NoClaim
  <2>2. CASE port # 0
    <3>1. /\ claim'.pc = "claim" /\ claim'.app = a /\ claim'.need = claim.need
          /\ claim'.left = claim.left \ {c}
      BY <1>2, <1>6, <2>2 DEF PortsTypeOK
    <3>2. \A d \in claim.need \ claim.left : publicOf[a][d] # 0 BY <1>2 DEF Claimed
    <3>3. claim.need \subseteq Exposed BY DEF PortsTypeOK
    <3>4. \A d \in claim'.need \ claim'.left : publicOf'[a][d] # 0
      BY <1>2, <1>5, <1>8, <2>2, <3>1, <3>2, <3>3
    <3> QED BY <1>2, <3>1, <3>4 DEF Claimed
  <2> QED BY <2>1, <2>2
<1>12. Publishing'
  <2>1. claim'.pc # "publish" BY <1>2, <1>6 DEF NoClaim, PortsTypeOK
  <2> QED BY <2>1 DEF Publishing
<1>13. BoxesKnown' /\ GoneIsExplained' BY <1>7 DEF BoxesKnown, GoneIsExplained
<1>14. DeclaredIsPublic'
  <2>1. \A b \in Boxes \ unrowed, d \in Exposed :
          box[b].app # NoGame /\ d \in box[b].ports => publicOf'[box[b].app][d] # 0
    BY <1>8 DEF DeclaredIsPublic, PortsTypeOK
  <2> QED BY <1>7, <2>1 DEF DeclaredIsPublic
<1> QED BY <1>9, <1>10, <1>11, <1>12, <1>13, <1>14

\* A container starts, on loopback ports that no row leads to yet.
LEMMA RunKeepsPorts == ASSUME PortsInv, RunGame PROVE PortsInv'
<1> USE PublicPortsAssumption DEF PortsInv
<1> DEFINE a == claim.app
<1>1. PICK b \in Boxes :
        /\ box[b] = NoBox
        /\ box' = [box EXCEPT ![b] = [app |-> a, ports |-> claim.need, on |-> TRUE]]
        /\ claim' \in {[claim EXCEPT !.pc = "publish", !.left = claim.need, !.boxes = {b}], NoClaim}
  BY DEF RunGame
<1>2. claim.pc = "stop" /\ UNCHANGED <<rangeTop, publicOf, boundTo, writtenFor, unrowed>>
  BY DEF RunGame
<1>3. a \in Games /\ \A c \in claim.need : publicOf[a][c] # 0 BY <1>2 DEF Claimed
<1>4. /\ box' \in [Boxes -> [app : Games \cup {NoGame}, ports : SUBSET Exposed, on : BOOLEAN]]
      /\ box'[b] = [app |-> a, ports |-> claim.need, on |-> TRUE]
      /\ \A d \in Boxes \ {b} : box'[d] = box[d]
  BY <1>1, <1>3 DEF PortsTypeOK
<1>5. /\ b \notin writtenFor
      /\ \A x \in Games, c \in Exposed : boundTo[x][c] # b
  BY <1>1 DEF BoxesKnown, DeclaredIsPublic, NoBox
<1>6. PortsTypeOK'
  <2>1. claim' \in [pc : {"idle", "claim", "stop", "publish", "prune", "forget"},
                    app : Games \cup {NoGame}, need : SUBSET Exposed, left : SUBSET Exposed,
                    boxes : SUBSET Boxes]
    <3>1. CASE claim' = NoClaim BY <3>1 DEF NoClaim
    <3>2. CASE claim' = [claim EXCEPT !.pc = "publish", !.left = claim.need, !.boxes = {b}]
      BY <3>2 DEF PortsTypeOK
    <3> QED BY <1>1, <3>1, <3>2
  <2> QED BY <1>2, <1>4, <2>1 DEF PortsTypeOK
<1>7. PublicPortsUnshared' BY <1>2 DEF PublicPortsUnshared
<1>8. Claimed' /\ Publishing'
  <2>1. CASE claim' = NoClaim BY <2>1 DEF NoClaim, Claimed, Publishing
  <2>2. CASE claim' = [claim EXCEPT !.pc = "publish", !.left = claim.need, !.boxes = {b}]
    <3>1. /\ claim'.pc = "publish" /\ claim'.app = a /\ claim'.left = claim.need
          /\ claim'.boxes = {b}
      BY <2>2 DEF PortsTypeOK
    <3> QED BY <1>2, <1>3, <1>4, <3>1 DEF Claimed, Publishing
  <2> QED BY <1>1, <2>1, <2>2
<1>9. BoxesKnown'
  <2>1. \A d \in Boxes : box'[d].app = NoGame => box'[d] = NoBox
    BY <1>3, <1>4 DEF BoxesKnown
  <2>2. \A d \in writtenFor : d \in Boxes \ {b} BY <1>5 DEF PortsTypeOK
  <2> QED BY <1>2, <1>4, <2>1, <2>2 DEF BoxesKnown
<1>10. DeclaredIsPublic'
  <2>1. \A d \in Boxes \ unrowed', c \in Exposed :
          box'[d].app # NoGame /\ c \in box'[d].ports => publicOf'[box'[d].app][c] # 0
    BY <1>2, <1>3, <1>4 DEF DeclaredIsPublic
  <2>2. ASSUME NEW x \in Games, NEW c \in Exposed, boundTo'[x][c] \in Boxes
        PROVE  LET d == box'[boundTo'[x][c]] IN d.on /\ d.app = x /\ c \in d.ports
    BY <1>2, <1>4, <1>5, <2>2 DEF DeclaredIsPublic
  <2> QED BY <2>1, <2>2 DEF DeclaredIsPublic
<1>11. GoneIsExplained'
  <2>1. \A d \in writtenFor : d \in Boxes \ {b} BY <1>5 DEF PortsTypeOK
  <2> QED BY <1>2, <1>4, <2>1 DEF GoneIsExplained
<1> QED BY <1>6, <1>7, <1>8, <1>9, <1>10, <1>11

\* A row is written for the container at hand.
LEMMA WriteRowKeepsPorts == ASSUME PortsInv, WriteRow PROVE PortsInv'
<1> USE PublicPortsAssumption DEF PortsInv
<1> DEFINE a == claim.app
<1>1. PICK c \in claim.left, b \in claim.boxes :
        /\ SetAppPortBinding(a, c, b)
        /\ claim' = [claim EXCEPT !.left = @ \ {c}]
  BY DEF WriteRow
<1>2. /\ claim.pc = "publish" /\ writtenFor' = writtenFor \ BoxesOf(a)
      /\ UNCHANGED <<rangeTop, box, publicOf, unrowed>>
  BY DEF WriteRow
<1>3. a \in Games /\ c \in Exposed BY <1>2 DEF Claimed, PortsTypeOK
<1>4. /\ b \in Boxes /\ claim.boxes = {b} /\ box[b].on /\ box[b].app = a
      /\ \A d \in box[b].ports \ claim.left : publicOf[a][d] # 0 => boundTo[a][d] = b
      /\ \A d \in claim.left : publicOf[a][d] # 0
  BY <1>2 DEF Publishing
<1>5. /\ boundTo' \in [Games -> [Exposed -> Boxes \cup {"null", "gone"}]]
      /\ boundTo'[a][c] = IF c \in box[b].ports THEN b ELSE "null"
      /\ \A x \in Games, d \in Exposed : <<x, d>> # <<a, c>> => boundTo'[x][d] = boundTo[x][d]
  BY <1>1, <1>3, <1>4 DEF SetAppPortBinding, PortsTypeOK
<1>6. /\ claim'.pc = "publish" /\ claim'.app = a /\ claim'.left = claim.left \ {c}
      /\ claim'.boxes = {b}
  BY <1>1, <1>2, <1>4 DEF PortsTypeOK
<1>7. PortsTypeOK'
  <2>1. \A x \in Games, d \in Exposed : publicOf[x][d] = 0 => boundTo'[x][d] = "null"
    BY <1>3, <1>4, <1>5 DEF PortsTypeOK
  <2>2. claim' \in [pc : {"idle", "claim", "stop", "publish", "prune", "forget"},
                    app : Games \cup {NoGame}, need : SUBSET Exposed, left : SUBSET Exposed,
                    boxes : SUBSET Boxes]
    BY <1>1 DEF PortsTypeOK
  <2> QED BY <1>2, <1>5, <2>1, <2>2 DEF PortsTypeOK
<1>8. PublicPortsUnshared' /\ BoxesKnown' BY <1>2 DEF PublicPortsUnshared, BoxesKnown
<1>9. Claimed' BY <1>3, <1>6 DEF Claimed
<1>10. Publishing'
  <2>1. box[b].ports \subseteq Exposed BY <1>4 DEF PortsTypeOK
  <2>2. \A d \in box[b].ports \ claim'.left : publicOf[a][d] # 0 => boundTo'[a][d] = b
    BY <1>3, <1>4, <1>5, <1>6, <2>1
  <2> QED BY <1>2, <1>4, <1>6, <2>2 DEF Publishing
<1>11. DeclaredIsPublic'
  <2>1. ASSUME NEW x \in Games, NEW d \in Exposed, boundTo'[x][d] \in Boxes
        PROVE  LET e == box[boundTo'[x][d]] IN e.on /\ e.app = x /\ d \in e.ports
    BY <1>3, <1>4, <1>5, <2>1 DEF DeclaredIsPublic
  <2> QED BY <1>2, <2>1 DEF DeclaredIsPublic
<1>12. GoneIsExplained'
  <2> SUFFICES ASSUME NEW d \in writtenFor' \ unrowed, NEW e \in box[d].ports
               PROVE  boundTo'[box[d].app][e] = d
    BY <1>2 DEF GoneIsExplained
  <2>1. d \in Boxes /\ d \in writtenFor \ unrowed /\ box[d].app # a
    BY <1>2 DEF BoxesOf, PortsTypeOK
  <2>2. box[d].app \in Games /\ e \in Exposed
    BY <2>1 DEF BoxesKnown, NoBox, PortsTypeOK
  <2> QED BY <1>5, <2>1, <2>2 DEF GoneIsExplained
<1> QED BY <1>7, <1>8, <1>9, <1>10, <1>11, <1>12

\* All rows are written: those of the ports that the container declares lead to it.
LEMMA WrittenKeepsPorts == ASSUME PortsInv, WrittenAll PROVE PortsInv'
<1> USE PublicPortsAssumption DEF PortsInv
<1> DEFINE a == claim.app
<1>1. /\ claim.pc = "publish" /\ claim.left = {} /\ claim' = NoClaim
      /\ writtenFor' = (writtenFor \ BoxesOf(a)) \cup claim.boxes
      /\ UNCHANGED <<rangeTop, box, publicOf, boundTo, unrowed>>
  BY DEF WrittenAll
<1>2. PICK b \in Boxes :
        /\ claim.boxes = {b} /\ box[b].on /\ box[b].app = a
        /\ \A c \in box[b].ports : publicOf[a][c] # 0 => boundTo[a][c] = b
  BY <1>1 DEF Publishing
<1>3. PortsTypeOK' BY <1>1, <1>2 DEF PortsTypeOK, NoClaim
<1>4. PublicPortsUnshared' /\ DeclaredIsPublic' BY <1>1 DEF PublicPortsUnshared, DeclaredIsPublic
<1>5. Claimed' /\ Publishing' BY <1>1 DEF Claimed, Publishing, NoClaim
<1>6. BoxesKnown' BY <1>1, <1>2 DEF BoxesKnown
<1>7. GoneIsExplained'
  <2>1. b \notin unrowed => \A c \in box[b].ports : publicOf[a][c] # 0
    <3>1. a \in Games /\ box[b].ports \subseteq Exposed BY <1>1 DEF Claimed, PortsTypeOK
    <3> QED BY <1>2, <3>1 DEF DeclaredIsPublic
  <2> QED BY <1>1, <1>2, <2>1 DEF GoneIsExplained
<1> QED BY <1>3, <1>4, <1>5, <1>6, <1>7

\* The rows of an app go; what runs of it is without rows.
LEMMA ForgetKeepsPorts == ASSUME PortsInv, ForgetGame PROVE PortsInv'
<1> USE PublicPortsAssumption DEF PortsInv
<1> DEFINE a == claim.app
<1>1. /\ claim.pc = "forget" /\ a \in Games
      /\ publicOf' = [publicOf EXCEPT ![a] = [c \in Exposed |-> 0]]
      /\ boundTo' = [boundTo EXCEPT ![a] = [c \in Exposed |-> "null"]]
      /\ writtenFor' = writtenFor \ BoxesOf(a) /\ unrowed' = unrowed \cup BoxesOf(a)
      /\ claim' = IF claim.boxes = {} THEN NoClaim ELSE [claim EXCEPT !.pc = "prune"]
      /\ UNCHANGED <<rangeTop, box>>
  BY DEF ForgetGame, DeleteAppPortsFor, Claimed
<1>2. /\ publicOf' \in [Games -> [Exposed -> 0..MaxPublic]]
      /\ boundTo' \in [Games -> [Exposed -> Boxes \cup {"null", "gone"}]]
      /\ \A c \in Exposed : publicOf'[a][c] = 0 /\ boundTo'[a][c] = "null"
      /\ \A x \in Games \ {a} : publicOf'[x] = publicOf[x] /\ boundTo'[x] = boundTo[x]
  BY <1>1 DEF PortsTypeOK
<1>3. PortsTypeOK'
  <2>1. claim' \in [pc : {"idle", "claim", "stop", "publish", "prune", "forget"},
                    app : Games \cup {NoGame}, need : SUBSET Exposed, left : SUBSET Exposed,
                    boxes : SUBSET Boxes]
    BY <1>1 DEF NoClaim, PortsTypeOK
  <2>2. writtenFor' \subseteq Boxes /\ unrowed' \subseteq Boxes BY <1>1 DEF BoxesOf, PortsTypeOK
  <2>3. \A x \in Games, c \in Exposed : publicOf'[x][c] = 0 => boundTo'[x][c] = "null"
    BY <1>2 DEF PortsTypeOK
  <2>4. rangeTop' \in 0..MaxPublic
        /\ box' \in [Boxes -> [app : Games \cup {NoGame}, ports : SUBSET Exposed, on : BOOLEAN]]
    BY <1>1 DEF PortsTypeOK
  <2> QED BY <1>2, <2>1, <2>2, <2>3, <2>4 DEF PortsTypeOK
<1>4. PublicPortsUnshared'
  <2>1. \A x \in Games, c \in Exposed :
          publicOf'[x][c] # 0 => x # a /\ publicOf'[x][c] = publicOf[x][c]
    BY <1>2
  <2> QED BY <2>1 DEF PublicPortsUnshared
<1>5. Claimed' /\ Publishing'
  <2>1. CASE claim' = NoClaim BY <2>1 DEF NoClaim, Claimed, Publishing
  <2>2. CASE claim' = [claim EXCEPT !.pc = "prune"]
    <3>1. claim'.pc = "prune" /\ claim'.app = a BY <2>2 DEF PortsTypeOK
    <3> QED BY <1>1, <3>1 DEF Claimed, Publishing
  <2> QED BY <1>1, <2>1, <2>2
<1>6. BoxesKnown' BY <1>1 DEF BoxesKnown
<1>7. DeclaredIsPublic'
  <2>1. \A d \in Boxes \ unrowed' : d \in Boxes \ unrowed /\ box[d].app # a
    BY <1>1 DEF BoxesOf
  <2>2. \A d \in Boxes \ unrowed', c \in Exposed :
          box[d].app # NoGame /\ c \in box[d].ports => publicOf'[box[d].app][c] # 0
    BY <1>2, <2>1 DEF DeclaredIsPublic, PortsTypeOK
  <2>3. ASSUME NEW x \in Games, NEW c \in Exposed, boundTo'[x][c] \in Boxes
        PROVE  x # a /\ boundTo'[x][c] = boundTo[x][c]
    BY <1>2, <2>3
  <2> QED BY <1>1, <2>2, <2>3 DEF DeclaredIsPublic
<1>8. GoneIsExplained'
  <2> SUFFICES ASSUME NEW d \in writtenFor' \ unrowed', NEW c \in box[d].ports
               PROVE  boundTo'[box[d].app][c] = d
    BY <1>1 DEF GoneIsExplained
  <2>1. d \in Boxes /\ d \in writtenFor \ unrowed /\ box[d].app # a
    BY <1>1 DEF BoxesOf, PortsTypeOK
  <2>2. box[d].app \in Games BY <2>1 DEF BoxesKnown, NoBox, PortsTypeOK
  <2> QED BY <1>2, <2>1, <2>2 DEF GoneIsExplained
<1> QED BY <1>3, <1>4, <1>5, <1>6, <1>7, <1>8

LEMMA PortsStep == ASSUME PortsInv, [PortsNext]_portsVars PROVE PortsInv'
<1> USE PublicPortsAssumption DEF PortsInv
<1>1. CASE MoveRange
  <2>1. UNCHANGED <<box, publicOf, boundTo, writtenFor, unrowed, claim>> /\ rangeTop' \in 0..MaxPublic
    BY <1>1 DEF MoveRange
  <2> QED BY <2>1, RowsUntouched DEF PortsTypeOK, Claimed, Publishing
<1>2. ASSUME NEW a \in Games,
             UNCHANGED <<rangeTop, box, publicOf, boundTo, writtenFor, unrowed>>,
             NEW need \in SUBSET Exposed, NEW left \in SUBSET Exposed, NEW boxes \in SUBSET Boxes,
             NEW pc \in {"claim", "prune"},
             claim' = [pc |-> pc, app |-> a, need |-> need, left |-> left, boxes |-> boxes],
             need \subseteq left
      PROVE  PortsInv'
  <2>1. PortsTypeOK' BY <1>2 DEF PortsTypeOK
  <2>2. Claimed' /\ Publishing' BY <1>2 DEF Claimed, Publishing
  <2> QED BY <1>2, <2>1, <2>2, RowsUntouched
<1>3. ASSUME NEW a \in Games, BeginClaims(a) PROVE PortsInv'
  <2>1. BoxesOf(a) \in SUBSET Boxes BY DEF BoxesOf
  <2> QED BY <1>2, <1>3, <2>1 DEF BeginClaims
<1>4. ASSUME NEW a \in Games, BeginPruneGame(a) PROVE PortsInv'
  <2>1. BoxesOf(a) \in SUBSET Boxes BY DEF BoxesOf
  <2>2. claim' = [pc |-> "prune", app |-> a, need |-> {}, left |-> {}, boxes |-> BoxesOf(a)]
    BY <1>4 DEF BeginPruneGame, NoClaim
  <2>3. {} \in SUBSET Exposed /\ {} \subseteq {} OBVIOUS
  <2>4. UNCHANGED <<rangeTop, box, publicOf, boundTo, writtenFor, unrowed>>
    BY <1>4 DEF BeginPruneGame
  <2> QED BY <1>2, <2>1, <2>2, <2>3, <2>4
<1>5. ASSUME NEW a \in Games, RefreshGame(a) PROVE PortsInv'
  <2> DEFINE rows == {c \in Exposed : publicOf[a][c] # 0}
  <2>1. PICK b \in BoxesOf(a) :
          /\ box[b].on
          /\ claim' = [pc |-> "publish", app |-> a, need |-> {}, boxes |-> {b}, left |-> rows]
    BY <1>5 DEF RefreshGame
  <2>2. UNCHANGED <<rangeTop, box, publicOf, boundTo, writtenFor, unrowed>>
    BY <1>5 DEF RefreshGame
  <2>3. b \in Boxes /\ box[b].app = a BY DEF BoxesOf
  <2>4. PortsTypeOK' BY <2>1, <2>2, <2>3 DEF PortsTypeOK
  <2>5. Claimed' BY <2>1 DEF Claimed
  <2>6. Publishing'
    <3>1. \A c \in box[b].ports \ rows : publicOf[a][c] = 0 BY <2>3 DEF PortsTypeOK
    <3> QED BY <2>1, <2>2, <2>3, <3>1 DEF Publishing
  <2> QED BY <2>2, <2>4, <2>5, <2>6, RowsUntouched
<1>6. CASE BuildGame
  <2>1. /\ claim.pc = "claim" /\ claim.left = {} /\ claim' = [claim EXCEPT !.pc = "stop"]
        /\ UNCHANGED <<rangeTop, box, publicOf, boundTo, writtenFor, unrowed>>
    BY <1>6 DEF BuildGame
  <2>2. PortsTypeOK' BY <2>1 DEF PortsTypeOK
  <2>3. Claimed' /\ Publishing' BY <2>1 DEF Claimed, Publishing, PortsTypeOK
  <2> QED BY <2>1, <2>2, <2>3, RowsUntouched
<1>7. CASE StopGame
  <2>1. PICK b \in claim.boxes : StopBox(b) /\ claim' = [claim EXCEPT !.boxes = @ \ {b}]
    BY <1>7 DEF StopGame
  <2>2. claim.pc = "stop" /\ UNCHANGED <<rangeTop, publicOf>> BY <1>7 DEF StopGame
  <2>3. /\ b \in Boxes /\ claim'.pc = "stop"
        /\ claim' = [claim EXCEPT !.pc = "stop", !.boxes = @ \ {b}]
    BY <2>1, <2>2 DEF PortsTypeOK
  <2> QED BY <2>1, <2>2, <2>3, StopKeepsRows
<1>8. CASE PruneGame
  <2>1. PICK b \in claim.boxes :
          StopBox(b) /\ claim' = [claim EXCEPT !.pc = "forget", !.boxes = @ \ {b}]
    BY <1>8 DEF PruneGame
  <2>2. claim.pc = "prune" /\ UNCHANGED <<rangeTop, publicOf>> BY <1>8 DEF PruneGame
  <2>3. /\ b \in Boxes /\ claim'.pc = "forget"
        /\ claim' = [claim EXCEPT !.pc = "forget", !.boxes = @ \ {b}]
    BY <2>1, <2>2 DEF PortsTypeOK
  <2> QED BY <2>1, <2>2, <2>3, StopKeepsRows
<1>9. CASE PassEnds BY <1>9, EndKeepsPorts DEF PassEnds, PortsTypeOK
<1>10. CASE UNCHANGED portsVars
  <2>1. UNCHANGED <<rangeTop, box, publicOf, boundTo, writtenFor, unrowed, claim>>
    BY <1>10 DEF portsVars
  <2> QED BY <2>1, RowsUntouched DEF PortsTypeOK, Claimed, Publishing
<1> QED
  BY <1>1, <1>3, <1>4, <1>5, <1>6, <1>7, <1>8, <1>9, <1>10, RestartKeepsPorts, ClaimKeepsPorts,
     RunKeepsPorts, WriteRowKeepsPorts, WrittenKeepsPorts, ForgetKeepsPorts DEF PortsNext

LEMMA PortsAlways == PortsSpec => []PortsInv
BY PortsStart, PortsStep, PTL DEF PortsSpec

\* Every variable of the table keeps its type; a row without a port has no binding.
THEOREM PortsTypes == PortsSpec => []PortsTypeOK
<1>1. PortsInv => PortsTypeOK BY DEF PortsInv
<1> QED BY <1>1, PortsAlways, PTL

\* No two apps share a public port, from whatever range and however cut short.
THEOREM PortsHaveOneOwner == PortsSpec => []PublicPortsUnshared
<1>1. PortsInv => PublicPortsUnshared BY DEF PortsInv
<1> QED BY <1>1, PortsAlways, PTL

\* What a container declares is public, unless a prune took the rows while it was there; and
\* what leads to a container is declared by it.
THEOREM PortsAreDeclared == PortsSpec => []DeclaredIsPublic
<1>1. PortsInv => DeclaredIsPublic BY DEF PortsInv
<1> QED BY <1>1, PortsAlways, PTL

\* Rows that were written for a container lead to it until it stops or they are written or
\* taken: no claim, failed stop or end of the daemon makes them lead elsewhere.
THEOREM GoneRowsExplained == PortsSpec => []GoneIsExplained
<1>1. PortsInv => GoneIsExplained BY DEF PortsInv
<1> QED BY <1>1, PortsAlways, PTL

\* A claim takes the port that the app has, if it has one.
LEMMA StickyStep ==
  ASSUME PortsInv, [PortsNext]_portsVars, NEW a \in Games, NEW p \in Exposed,
         publicOf[a][p] # 0, publicOf'[a][p] # publicOf[a][p]
  PROVE  claim.pc = "forget" /\ claim.app = a
<1>1. CASE ClaimPort
  <2>1. PICK c \in claim.left :
          publicOf' = [publicOf EXCEPT ![claim.app][c] = AllocateAppPort(claim.app, c)]
    BY <1>1 DEF ClaimPort
  <2>2. claim.app \in Games /\ c \in Exposed
    BY <1>1, <2>1 DEF ClaimPort, PortsInv, Claimed, PortsTypeOK
  <2>3. publicOf[claim.app][c] # 0 => AllocateAppPort(claim.app, c) = publicOf[claim.app][c]
    BY <2>2 DEF AllocateAppPort
  <2> QED BY <2>1, <2>2, <2>3 DEF PortsInv, PortsTypeOK
<1>2. CASE ForgetGame BY <1>2 DEF ForgetGame, DeleteAppPortsFor, PortsInv, PortsTypeOK
<1> QED
  BY <1>1, <1>2 DEF PortsNext, MoveRange, EngineRestartsBox, BeginClaims, RefreshGame,
     BeginPruneGame, PruneGame, BuildGame, StopGame, RunGame, WriteRow, WrittenAll, PassEnds,
     portsVars

\* An app keeps its public address until it is pruned.
THEOREM AddressesStick == PortsSpec => AddressIsSticky
<1>1. PortsInv /\ [PortsNext]_portsVars =>
        [\A a \in Games, c \in Exposed :
           publicOf[a][c] # 0 /\ publicOf'[a][c] # publicOf[a][c] =>
             claim.pc = "forget" /\ claim.app = a]_portsVars
  BY StickyStep
<1> QED BY <1>1, PortsAlways, PTL DEF PortsSpec, AddressIsSticky

\* All that the table of public ports promises.
THEOREM PortsAreHeld == PortsSpec => PortsHold
BY PortsHaveOneOwner, PortsAreDeclared, GoneRowsExplained, AddressesStick, PTL DEF PortsHold

-------------------------------------------------------------------------------
(***************************************************************************)
(* Gateway. A port that a container holds is nobody else's, and every step *)
(* that takes a port from a container marks the rows and the visit that    *)
(* lead there; a visit that is not stale follows a row of its own host.    *)
(***************************************************************************)

\* A deploy that is about to write a row has a container of its app in hand.
RouteDeploys ==
  /\ deployed.pc # "idle" => deployed.app \in Sites
  /\ deployed.pc = "publish" =>
       \E p \in Loopbacks : deployed.ports = {p} /\ heldBy[p] = deployed.app

RoutedHold == \A a \in Sites : routed[a] # 0 => heldBy[routed[a]] = a

\* The row that a visit is on its way with led to a container of its host's own app when it
\* was read, and does until the visit is stale.
VisitFollows ==
  /\ visit.pc = "resolving" =>
       /\ visit.row.app \in Sites /\ visit.row.port # 0
       /\ ~visit.stale => heldBy[visit.row.port] = visit.row.app
                          /\ hostOf[visit.row.app] = visit.host
  /\ AnswersAreOwn

GatewayInv ==
  /\ GatewayTypeOK /\ RouteDeploys /\ RoutedHold
  /\ RowsFollowContainers /\ HostHasRow /\ VisitFollows

VisitRecords ==
  [pc : {"idle", "resolving", "answered"}, host : Hosts \cup {NoSite},
   row : HostRows, by : Sites \cup {NoSite}, stale : BOOLEAN]

Deploys ==
  [pc : {"idle", "stop", "run", "publish", "prune", "forget"},
   app : Sites \cup {NoSite}, ports : SUBSET Loopbacks]

LEMMA NothingUnderWay == Undisturbed \in Deploys /\ NoRequest \in VisitRecords
BY GatewayAssumption
   DEF Undisturbed, NoRequest, NoHostRow, HostRows, Deploys, VisitRecords

LEMMA GatewayStart == GatewayInit => GatewayInv
<1> SUFFICES ASSUME GatewayInit PROVE GatewayInv OBVIOUS
<1> USE GatewayAssumption DEF GatewayInit
<1>1. GatewayTypeOK
  <2>1. NoHostRow \in HostRows BY DEF NoHostRow, HostRows
  <2> QED BY <2>1, NothingUnderWay DEF GatewayTypeOK, NoHostRow, Deploys, VisitRecords
<1>2. RouteDeploys /\ RoutedHold BY DEF RouteDeploys, RoutedHold, Undisturbed
<1>3. RowsFollowContainers /\ HostHasRow BY DEF RowsFollowContainers, HostHasRow, NoHostRow
<1>4. VisitFollows BY DEF VisitFollows, AnswersAreOwn, NoRequest
<1> QED BY <1>1, <1>2, <1>3, <1>4 DEF GatewayInv

\* Steps that leave the containers and the rows alone.
LEMMA RoutesUntouched ==
  ASSUME GatewayInv, UNCHANGED <<hostOf, heldBy, hostRow, loose, routed>>
  PROVE  RoutedHold' /\ RowsFollowContainers' /\ HostHasRow'
BY DEF GatewayInv, RoutedHold, RowsFollowContainers, HostHasRow, HostShared

\* A container lets go of its port, and may have got another one.
LEMMA LosesKeepsRoutes ==
  ASSUME GatewayInv, NEW p \in Loopbacks, Loses(p), UNCHANGED <<hostOf, hostRow>>,
         heldBy' \in [Loopbacks -> Sites \cup {NoSite}],
         \A r \in Loopbacks : r # p /\ heldBy[r] # NoSite => heldBy'[r] = heldBy[r]
  PROVE  /\ loose' \subseteq Hosts /\ routed' \in [Sites -> 0..MaxLoopback]
         /\ visit' \in VisitRecords
         /\ RoutedHold' /\ RowsFollowContainers' /\ HostHasRow' /\ VisitFollows'
<1> USE GatewayAssumption DEF GatewayInv
<1>1. /\ loose' = loose \cup {h \in Hosts : hostRow[h].port = p}
      /\ \A a \in Sites : routed'[a] = IF routed[a] = p THEN 0 ELSE routed[a]
      /\ visit' = [visit EXCEPT !.stale = visit.stale \/ (visit.pc = "resolving" /\ visit.row.port = p)]
  BY DEF Loses
<1>2. loose' \subseteq Hosts /\ routed' \in [Sites -> 0..MaxLoopback]
  BY DEF Loses, GatewayTypeOK
<1>3. /\ visit' \in VisitRecords
      /\ visit'.pc = visit.pc /\ visit'.host = visit.host /\ visit'.row = visit.row
      /\ visit'.by = visit.by
      /\ ~visit'.stale => ~visit.stale /\ ~(visit.pc = "resolving" /\ visit.row.port = p)
  BY <1>1 DEF GatewayTypeOK, VisitRecords
<1>4. \A a \in Sites : routed'[a] # 0 =>
        routed'[a] = routed[a] /\ routed[a] \in Loopbacks \ {p} /\ heldBy[routed[a]] = a
  BY <1>1 DEF RoutedHold, GatewayTypeOK, Loopbacks
<1>5. \A a \in Sites : routed'[a] # 0 => heldBy'[routed'[a]] = a BY <1>4
<1>6. RoutedHold' BY <1>5 DEF RoutedHold
<1>7. HostHasRow' BY <1>4, <1>5 DEF HostHasRow, HostShared
<1>8. RowsFollowContainers'
  <2> SUFFICES ASSUME NEW h \in Hosts, hostRow[h].app # NoSite, h \notin loose'
               PROVE  heldBy'[hostRow[h].port] = hostRow[h].app /\ hostOf[hostRow[h].app] = h
    BY DEF RowsFollowContainers
  <2>1. hostRow[h].port # p /\ h \notin loose BY <1>1
  <2>2. hostRow[h].port \in Loopbacks /\ hostRow[h].app \in Sites
    BY DEF GatewayTypeOK, HostRows, Loopbacks
  <2> QED BY <2>1, <2>2 DEF RowsFollowContainers
<1>9. VisitFollows'
  <2>1. AnswersAreOwn' BY <1>3 DEF AnswersAreOwn, VisitFollows
  <2>2. ASSUME visit.pc = "resolving", ~visit'.stale
        PROVE  heldBy'[visit.row.port] = visit.row.app /\ hostOf[visit.row.app] = visit.host
    <3>1. /\ visit.row.app \in Sites /\ visit.row.port \in Loopbacks \ {p}
          /\ heldBy[visit.row.port] = visit.row.app /\ hostOf[visit.row.app] = visit.host
      BY <1>3, <2>2 DEF VisitFollows, GatewayTypeOK, HostRows, Loopbacks
    <3> QED BY <3>1
  <2> QED BY <1>3, <2>1, <2>2 DEF VisitFollows
<1> QED BY <1>2, <1>3, <1>6, <1>7, <1>8, <1>9

LEMMA RestartKeepsRoutes ==
  ASSUME GatewayInv, NEW p \in Loopbacks, NEW q \in Loopbacks, EngineRestarts(p, q)
  PROVE  GatewayInv'
<1> USE GatewayAssumption DEF GatewayInv
<1>1. /\ heldBy[p] # NoSite /\ heldBy[q] = NoSite /\ p # q
      /\ heldBy' = [heldBy EXCEPT ![p] = NoSite, ![q] = heldBy[p]]
      /\ deployed.pc = "publish" => p \notin deployed.ports
      /\ Loses(p)
      /\ deployed' = [deployed EXCEPT !.ports = {IF r = p THEN q ELSE r : r \in deployed.ports}]
      /\ UNCHANGED <<hostOf, hostRow>>
  BY DEF EngineRestarts, Unheld
<1>2. /\ heldBy' \in [Loopbacks -> Sites \cup {NoSite}]
      /\ \A r \in Loopbacks : r # p /\ heldBy[r] # NoSite => heldBy'[r] = heldBy[r]
  BY <1>1 DEF GatewayTypeOK
<1>3. /\ loose' \subseteq Hosts /\ routed' \in [Sites -> 0..MaxLoopback]
      /\ visit' \in VisitRecords
      /\ RoutedHold' /\ RowsFollowContainers' /\ HostHasRow' /\ VisitFollows'
  BY <1>1, <1>2, LosesKeepsRoutes
<1>4. /\ deployed' \in Deploys /\ deployed'.pc = deployed.pc /\ deployed'.app = deployed.app
      /\ deployed'.ports = {IF r = p THEN q ELSE r : r \in deployed.ports}
  BY <1>1 DEF GatewayTypeOK, Deploys
<1>5. GatewayTypeOK' BY <1>1, <1>2, <1>3, <1>4 DEF GatewayTypeOK, Deploys, VisitRecords
<1>6. RouteDeploys'
  <2>1. ASSUME deployed.pc = "publish"
        PROVE  \E r \in Loopbacks : deployed'.ports = {r} /\ heldBy'[r] = deployed.app
    <3>1. PICK r \in Loopbacks : deployed.ports = {r} /\ heldBy[r] = deployed.app
      BY <2>1 DEF RouteDeploys
    <3>2. r # p /\ deployed.app \in Sites BY <1>1, <2>1, <3>1 DEF RouteDeploys
    <3>3. deployed'.ports = {r} BY <1>4, <3>1, <3>2
    <3>4. heldBy'[r] = deployed.app BY <1>2, <3>1, <3>2
    <3> QED BY <3>3, <3>4
  <2> QED BY <1>4, <2>1 DEF RouteDeploys
<1> QED BY <1>3, <1>5, <1>6

\* stopAndRemove, whatever comes of it.
LEMMA StopKeepsRoutes ==
  ASSUME GatewayInv, NEW p \in Loopbacks, NEW next \in {"stop", "forget"},
         deployed.pc # "idle", StopListed(p, next)
  PROVE  GatewayInv'
<1> USE GatewayAssumption DEF GatewayInv
<1>1. /\ deployed' = [deployed EXCEPT !.pc = next, !.ports = deployed.ports \ {p}]
      /\ UNCHANGED <<hostOf, hostRow>>
  BY DEF StopListed
<1>2. deployed' \in Deploys /\ deployed'.pc = next /\ deployed'.app = deployed.app
  BY <1>1 DEF GatewayTypeOK, Deploys
<1>3. RouteDeploys' BY <1>2 DEF RouteDeploys
<1>4. CASE heldBy' = [heldBy EXCEPT ![p] = NoSite] /\ Loses(p)
  <2>1. /\ heldBy' \in [Loopbacks -> Sites \cup {NoSite}]
        /\ \A r \in Loopbacks : r # p /\ heldBy[r] # NoSite => heldBy'[r] = heldBy[r]
    BY <1>4 DEF GatewayTypeOK
  <2>2. /\ loose' \subseteq Hosts /\ routed' \in [Sites -> 0..MaxLoopback]
        /\ visit' \in VisitRecords
        /\ RoutedHold' /\ RowsFollowContainers' /\ HostHasRow' /\ VisitFollows'
    BY <1>1, <1>4, <2>1, LosesKeepsRoutes
  <2>3. GatewayTypeOK' BY <1>1, <1>2, <2>1, <2>2 DEF GatewayTypeOK, Deploys, VisitRecords
  <2> QED BY <1>3, <2>2, <2>3
<1>5. CASE UNCHANGED <<heldBy, loose, routed, visit>>
  <2>1. GatewayTypeOK' BY <1>1, <1>2, <1>5 DEF GatewayTypeOK, Deploys
  <2>2. VisitFollows' BY <1>1, <1>5 DEF VisitFollows, AnswersAreOwn
  <2> QED BY <1>1, <1>3, <1>5, <2>1, <2>2, RoutesUntouched
<1> QED BY <1>4, <1>5 DEF StopListed

\* A container starts on a port that nobody holds, so that no row or visit is concerned.
LEMMA RunKeepsRoutes == ASSUME GatewayInv, RunSite PROVE GatewayInv'
<1> USE GatewayAssumption DEF GatewayInv
<1> DEFINE a == deployed.app
<1>1. /\ deployed.pc = "run" /\ a \in Sites
      /\ UNCHANGED <<hostOf, hostRow, loose, routed, visit>>
  BY DEF RunSite, RouteDeploys
<1>2. CASE deployed' = Undisturbed /\ UNCHANGED heldBy
  <2>1. GatewayTypeOK' BY <1>1, <1>2, NothingUnderWay DEF GatewayTypeOK, Deploys
  <2>2. RouteDeploys' BY <1>2 DEF RouteDeploys, Undisturbed
  <2>3. VisitFollows' BY <1>1, <1>2 DEF VisitFollows, AnswersAreOwn
  <2> QED BY <1>1, <1>2, <2>1, <2>2, <2>3, RoutesUntouched
<1>3. ASSUME NEW p \in Unheld, heldBy' = [heldBy EXCEPT ![p] = a],
             deployed' \in {[deployed EXCEPT !.pc = "publish", !.ports = {p}], Undisturbed}
      PROVE  GatewayInv'
  <2>1. p \in Loopbacks /\ heldBy[p] = NoSite BY DEF Unheld
  <2>2. /\ heldBy' \in [Loopbacks -> Sites \cup {NoSite}] /\ heldBy'[p] = a
        /\ \A r \in Loopbacks : heldBy[r] # NoSite => heldBy'[r] = heldBy[r]
    BY <1>1, <1>3, <2>1 DEF GatewayTypeOK
  <2>3. deployed' \in Deploys /\ RouteDeploys'
    <3>1. CASE deployed' = Undisturbed
      BY <3>1, NothingUnderWay DEF RouteDeploys, Undisturbed
    <3>2. CASE deployed' = [deployed EXCEPT !.pc = "publish", !.ports = {p}]
      <4>1. /\ deployed' \in Deploys /\ deployed'.pc = "publish" /\ deployed'.app = a
            /\ deployed'.ports = {p}
        BY <2>1, <3>2 DEF GatewayTypeOK, Deploys
      <4> QED BY <1>1, <2>1, <2>2, <4>1 DEF RouteDeploys
    <3> QED BY <1>3, <3>1, <3>2
  <2>4. GatewayTypeOK' BY <1>1, <2>2, <2>3 DEF GatewayTypeOK, Deploys
  <2>5. \A s \in Sites : routed[s] # 0 => heldBy'[routed[s]] = s
    <3>1. \A s \in Sites : routed[s] # 0 => routed[s] \in Loopbacks
      BY DEF GatewayTypeOK, Loopbacks
    <3> QED BY <2>2, <3>1 DEF RoutedHold
  <2>6. RoutedHold' /\ HostHasRow' BY <1>1, <2>5 DEF RoutedHold, HostHasRow, HostShared
  <2>7. RowsFollowContainers'
    <3>1. \A h \in Hosts : hostRow[h].app # NoSite =>
            hostRow[h].port \in Loopbacks /\ hostRow[h].app \in Sites
      BY DEF GatewayTypeOK, HostRows, Loopbacks
    <3> QED BY <1>1, <2>2, <3>1 DEF RowsFollowContainers
  <2>8. VisitFollows'
    <3>1. visit.pc = "resolving" => visit.row.port \in Loopbacks /\ visit.row.app # NoSite
      BY DEF VisitFollows, GatewayTypeOK, HostRows, Loopbacks
    <3> QED BY <1>1, <2>2, <3>1 DEF VisitFollows, AnswersAreOwn
  <2> QED BY <2>3, <2>4, <2>6, <2>7, <2>8
<1> QED BY <1>2, <1>3 DEF RunSite

\* A row is written for a container of its app.
LEMMA SetHostKeepsRoutes ==
  ASSUME GatewayInv, NEW a \in Sites, NEW p \in Loopbacks, heldBy[p] = a, SetHost(a, p),
         UNCHANGED <<hostOf, heldBy, visit>>,
         deployed' \in Deploys, deployed'.pc = "idle"
  PROVE  GatewayInv'
<1> USE GatewayAssumption DEF GatewayInv
<1>1. /\ hostOf[a] \in Hosts /\ a # NoSite /\ p # 0 /\ p \in 0..MaxLoopback
      /\ [app |-> a, port |-> p] \in HostRows
  BY DEF GatewayTypeOK, HostRows, Loopbacks
<1>2. /\ hostRow' \in [Hosts -> HostRows]
      /\ hostRow'[hostOf[a]] = [app |-> a, port |-> p]
      /\ \A h \in Hosts \ {hostOf[a]} : hostRow'[h] = hostRow[h]
      /\ loose' = loose \ {hostOf[a]}
      /\ routed' \in [Sites -> 0..MaxLoopback] /\ routed'[a] = p
      /\ \A b \in Sites \ {a} : routed'[b] = routed[b]
  BY <1>1 DEF SetHost, GatewayTypeOK
<1>3. GatewayTypeOK'
  <2>1. \A h \in Hosts : hostRow'[h].app = NoSite <=> hostRow'[h].port = 0
    BY <1>1, <1>2 DEF GatewayTypeOK
  <2> QED BY <1>2, <2>1 DEF GatewayTypeOK, Deploys
<1>4. RouteDeploys' BY DEF RouteDeploys
<1>5. RoutedHold' BY <1>2 DEF RoutedHold
<1>6. RowsFollowContainers' BY <1>2 DEF RowsFollowContainers
<1>7. HostHasRow'
  <2> SUFFICES ASSUME NEW b \in Sites, routed'[b] # 0, ~HostShared(b)
               PROVE  /\ hostRow'[hostOf[b]] = [app |-> b, port |-> routed'[b]]
                      /\ heldBy[routed'[b]] = b
    BY DEF HostHasRow, HostShared
  <2>1. CASE b = a BY <1>2, <2>1
  <2>2. CASE b # a
    <3>1. hostOf[b] # hostOf[a] /\ hostOf[b] \in Hosts BY <2>2 DEF HostShared, GatewayTypeOK
    <3> QED BY <1>2, <2>2, <3>1 DEF HostHasRow
  <2> QED BY <2>1, <2>2
<1>8. VisitFollows' BY DEF VisitFollows, AnswersAreOwn
<1> QED BY <1>3, <1>4, <1>5, <1>6, <1>7, <1>8

LEMMA ForgetKeepsRoutes == ASSUME GatewayInv, ForgetSite PROVE GatewayInv'
<1> USE GatewayAssumption DEF GatewayInv
<1> DEFINE a == deployed.app
<1>1. /\ deployed.pc = "forget" /\ a \in Sites
      /\ hostRow' = [h \in Hosts |-> IF hostRow[h].app = a THEN NoHostRow ELSE hostRow[h]]
      /\ loose' = {h \in loose : hostRow[h].app # a}
      /\ routed' = [routed EXCEPT ![a] = 0]
      /\ deployed' = IF deployed.ports = {} THEN Undisturbed ELSE [deployed EXCEPT !.pc = "prune"]
      /\ UNCHANGED <<hostOf, heldBy, visit>>
  BY DEF ForgetSite, DeleteHostsFor, RouteDeploys
<1>2. deployed' \in Deploys /\ RouteDeploys'
  <2>1. CASE deployed' = Undisturbed BY <2>1, NothingUnderWay DEF RouteDeploys, Undisturbed
  <2>2. CASE deployed' = [deployed EXCEPT !.pc = "prune"]
    <3>1. deployed' \in Deploys /\ deployed'.pc = "prune" /\ deployed'.app = a
      BY <2>2 DEF GatewayTypeOK, Deploys
    <3> QED BY <1>1, <3>1 DEF RouteDeploys
  <2> QED BY <1>1, <2>1, <2>2
<1>3. NoHostRow \in HostRows /\ NoHostRow.app = NoSite /\ NoHostRow.port = 0
  BY DEF NoHostRow, HostRows
<1>4. GatewayTypeOK'
  <2>1. hostRow' \in [Hosts -> HostRows] BY <1>1, <1>3 DEF GatewayTypeOK
  <2>2. \A h \in Hosts : hostRow'[h].app = NoSite <=> hostRow'[h].port = 0
    BY <1>1, <1>3 DEF GatewayTypeOK
  <2>3. loose' \subseteq Hosts /\ routed' \in [Sites -> 0..MaxLoopback]
    BY <1>1 DEF GatewayTypeOK
  <2> QED BY <1>1, <1>2, <2>1, <2>2, <2>3 DEF GatewayTypeOK, Deploys
<1>5. routed'[a] = 0 /\ \A b \in Sites \ {a} : routed'[b] = routed[b]
  BY <1>1 DEF GatewayTypeOK
<1>6. RoutedHold' BY <1>1, <1>5 DEF RoutedHold
<1>7. RowsFollowContainers'
  <2>1. \A h \in Hosts : hostRow'[h].app # NoSite =>
          hostRow'[h] = hostRow[h] /\ (h \notin loose' => h \notin loose)
    BY <1>1, <1>3
  <2> QED BY <1>1, <2>1 DEF RowsFollowContainers
<1>8. HostHasRow'
  <2> SUFFICES ASSUME NEW b \in Sites, routed'[b] # 0, ~HostShared(b)
               PROVE  /\ hostRow'[hostOf[b]] = [app |-> b, port |-> routed'[b]]
                      /\ heldBy[routed'[b]] = b
    BY <1>1 DEF HostHasRow, HostShared
  <2>1. b # a /\ routed'[b] = routed[b] BY <1>5
  <2>2. hostRow[hostOf[b]] = [app |-> b, port |-> routed[b]] /\ heldBy[routed[b]] = b
    BY <2>1 DEF HostHasRow
  <2>3. hostRow'[hostOf[b]] = hostRow[hostOf[b]]
    BY <1>1, <2>1, <2>2 DEF GatewayTypeOK
  <2> QED BY <2>1, <2>2, <2>3
<1>9. VisitFollows' BY <1>1 DEF VisitFollows, AnswersAreOwn
<1> QED BY <1>2, <1>4, <1>6, <1>7, <1>8, <1>9

\* A visit writes nothing else, and reads a row that leads to a container unless it is loose.
LEMMA VisitKeepsRoutes ==
  ASSUME GatewayInv, (\E h \in Hosts : GateReads(h)) \/ GateProxies
  PROVE  GatewayInv'
<1> USE GatewayAssumption DEF GatewayInv
<1>1. UNCHANGED <<hostOf, heldBy, hostRow, loose, routed, deployed>> BY DEF GateReads, GateProxies
<1>2. RouteDeploys' BY <1>1 DEF RouteDeploys
<1>3. SUFFICES visit' \in VisitRecords /\ VisitFollows'
  <2>1. ASSUME visit' \in VisitRecords PROVE GatewayTypeOK'
    BY <1>1, <2>1 DEF GatewayTypeOK, VisitRecords
  <2> QED BY <1>1, <1>2, <2>1, RoutesUntouched
<1>4. ASSUME NEW h \in Hosts, GateReads(h) PROVE visit' \in VisitRecords /\ VisitFollows'
  <2>1. /\ hostRow[h].app \in Sites /\ hostRow[h].port # 0 /\ hostRow[h] \in HostRows
        /\ h \notin loose => heldBy[hostRow[h].port] = hostRow[h].app /\ hostOf[hostRow[h].app] = h
    BY <1>4 DEF GateReads, RowsFollowContainers, GatewayTypeOK, HostRows
  <2>2. visit' = [pc |-> "resolving", host |-> h, row |-> hostRow[h], by |-> NoSite,
                  stale |-> h \in loose]
    BY <1>4 DEF GateReads
  <2>3. visit' \in VisitRecords BY <2>1, <2>2 DEF VisitRecords
  <2> QED BY <1>1, <2>1, <2>2, <2>3 DEF VisitFollows, AnswersAreOwn
<1>5. CASE GateProxies
  <2>1. /\ visit.pc = "resolving"
        /\ \E b \in {heldBy[visit.row.port], NoSite} :
             visit' = [visit EXCEPT !.pc = "answered", !.row = NoHostRow, !.by = b]
    BY <1>5 DEF GateProxies, Target
  <2>2. visit.row.port \in Loopbacks BY <2>1 DEF VisitFollows, GatewayTypeOK, HostRows, Loopbacks
  <2>3. heldBy[visit.row.port] \in Sites \cup {NoSite} BY <2>2 DEF GatewayTypeOK
  <2>4. NoHostRow \in HostRows BY DEF NoHostRow, HostRows
  <2>5. /\ visit' \in VisitRecords
        /\ visit'.pc = "answered" /\ visit'.host = visit.host /\ visit'.stale = visit.stale
        /\ visit'.by \in {heldBy[visit.row.port], NoSite}
    BY <2>1, <2>3, <2>4 DEF GatewayTypeOK, VisitRecords
  <2> QED BY <1>1, <2>1, <2>5 DEF VisitFollows, AnswersAreOwn
<1> QED BY <1>4, <1>5

\* What begins, goes on or ends without a container, a row or a visit being touched.
LEMMA WorkKeepsRoutes ==
  ASSUME GatewayInv, UNCHANGED <<hostOf, heldBy, hostRow, loose, routed>>,
         visit' = visit \/ visit' = NoRequest, deployed' \in Deploys,
         deployed'.pc # "idle" => deployed'.app \in Sites, deployed'.pc # "publish"
  PROVE  GatewayInv'
<1> USE DEF GatewayInv
<1>1. GatewayTypeOK' BY NothingUnderWay DEF GatewayTypeOK, Deploys, VisitRecords
<1>2. RouteDeploys' BY DEF RouteDeploys
<1>3. VisitFollows' BY DEF VisitFollows, AnswersAreOwn, NoRequest
<1> QED BY <1>1, <1>2, <1>3, RoutesUntouched

LEMMA GatewayStep == ASSUME GatewayInv, [GatewayNext]_gatewayVars PROVE GatewayInv'
<1> USE GatewayAssumption
<1>1. ASSUME NEW a \in Sites, NEW pc \in {"stop", "prune"},
             deployed' = [pc |-> pc, app |-> a, ports |-> Containers(a)],
             UNCHANGED <<hostOf, heldBy, hostRow, loose, routed, visit>>
      PROVE  GatewayInv'
  <2>1. deployed' \in Deploys BY <1>1 DEF Deploys, Containers
  <2> QED BY <1>1, <2>1, WorkKeepsRoutes
<1>2. ASSUME NEW a \in Sites, BeginDeploy(a) PROVE GatewayInv' BY <1>1, <1>2 DEF BeginDeploy
<1>3. ASSUME NEW a \in Sites, BeginPrune(a) PROVE GatewayInv' BY <1>1, <1>3 DEF BeginPrune
<1>4. CASE StopSite
  <2>1. deployed.pc = "stop" BY <1>4 DEF StopSite
  <2>2. ASSUME NEW p \in deployed.ports, StopListed(p, "stop") PROVE GatewayInv'
    BY <2>1, <2>2, StopKeepsRoutes DEF GatewayInv, GatewayTypeOK
  <2>3. ASSUME deployed' = [deployed EXCEPT !.pc = "run"],
               UNCHANGED <<hostOf, heldBy, hostRow, loose, routed, visit>>
        PROVE  GatewayInv'
    <3>1. /\ deployed' \in Deploys /\ deployed'.pc = "run" /\ deployed'.app = deployed.app
          /\ deployed.app \in Sites
      BY <2>1, <2>3 DEF GatewayInv, GatewayTypeOK, Deploys, RouteDeploys
    <3> QED BY <2>3, <3>1, WorkKeepsRoutes
  <2> QED BY <1>4, <2>2, <2>3 DEF StopSite
<1>5. CASE PruneSite
  <2>1. deployed.pc = "prune" BY <1>5 DEF PruneSite
  <2> QED BY <1>5, <2>1, StopKeepsRoutes DEF PruneSite, GatewayInv, GatewayTypeOK
<1>6. CASE PublishSite
  <2>1. /\ deployed.pc = "publish" /\ deployed.app \in Sites /\ deployed' = Undisturbed
        /\ UNCHANGED <<hostOf, heldBy, visit>>
    BY <1>6 DEF PublishSite, GatewayInv, RouteDeploys
  <2>2. PICK p \in Loopbacks : deployed.ports = {p} /\ heldBy[p] = deployed.app
    BY <2>1 DEF GatewayInv, RouteDeploys
  <2>3. SetHost(deployed.app, p) BY <1>6, <2>2 DEF PublishSite
  <2> QED BY <2>1, <2>2, <2>3, NothingUnderWay, SetHostKeepsRoutes DEF Undisturbed
<1>7. ASSUME NEW a \in Sites, RefreshSite(a) PROVE GatewayInv'
  <2>1. PICK p \in Containers(a) : SetHost(a, p) BY <1>7 DEF RefreshSite
  <2>2. p \in Loopbacks /\ heldBy[p] = a BY DEF Containers
  <2>3. deployed' \in Deploys /\ deployed'.pc = "idle" /\ UNCHANGED <<hostOf, heldBy, visit>>
    BY <1>7 DEF RefreshSite, GatewayInv, GatewayTypeOK, Deploys
  <2> QED BY <2>1, <2>2, <2>3, SetHostKeepsRoutes
<1>8. CASE DaemonDies
  BY <1>8, NothingUnderWay, WorkKeepsRoutes DEF DaemonDies, Undisturbed
<1>9. CASE UNCHANGED gatewayVars
  BY <1>9, RoutesUntouched
     DEF gatewayVars, GatewayInv, GatewayTypeOK, RouteDeploys, VisitFollows, AnswersAreOwn
<1> QED
  BY <1>2, <1>3, <1>4, <1>5, <1>6, <1>7, <1>8, <1>9, RestartKeepsRoutes, RunKeepsRoutes,
     ForgetKeepsRoutes, VisitKeepsRoutes DEF GatewayNext

LEMMA GatewayAlways == GatewaySpec => []GatewayInv
BY GatewayStart, GatewayStep, PTL DEF GatewaySpec

\* Every variable of the gate keeps its type.
THEOREM GatewayTypes == GatewaySpec => []GatewayTypeOK
<1>1. GatewayInv => GatewayTypeOK BY DEF GatewayInv
<1> QED BY <1>1, GatewayAlways, PTL

\* All that the gate promises: whatever loopback ports deploys, prunes and restarts recycle
\* while a visit's user is resolved, the row it read leads to its host's own app; and a host
\* that was given its row has it until its container loses the port or a prune takes it.
THEOREM GatewayIsSafe == GatewaySpec => []GatewaySafe
<1>1. GatewayInv => GatewaySafe BY DEF GatewayInv, VisitFollows, GatewaySafe
<1> QED BY <1>1, GatewayAlways, PTL

-------------------------------------------------------------------------------
(***************************************************************************)
(* Assets. What was fetched without a pin was fetched because the cache    *)
(* had nothing for the URL; what is placed is what is found under its      *)
(* hash.                                                                   *)
(***************************************************************************)

\* What a deploy knows of its asset: it fits the pin; what it fetches without one is not what
\* the URL is remembered for; and once placed, only the app itself can have rewritten it.
Fetched ==
  /\ fetching.pc \in {"keep", "index", "build", "place", "start"} =>
       fetching.pin \in {Nothing, fetching.got}
  /\ fetching.pc \in {"fetch", "keep", "index"} /\ fetching.pin = Nothing =>
       \/ urlIndex[fetching.link] = Nothing
       \/ cacheFile[urlIndex[fetching.link]] = Nothing
       \/ fetching.pc = "index" /\ urlIndex[fetching.link] = fetching.got
  /\ fetching.pc = "start" =>
       fetching.app \in playing \/ dataFile[fetching.app] = fetching.got

AssetsInv == AssetsTypeOK /\ CacheIsAddressed /\ Fetched

\* Between two deploys nothing is being fetched.
LEMMA RestIsIdle ==
  Rest \in [pc : {"idle"}, app : Players, link : Links, pin : {Nothing}, got : {Nothing},
            lingers : {FALSE}]
<1>1. PICK a \in Players, u \in Links : TRUE BY AssetsAssumption
<1>2. [pc |-> "idle", app |-> a, link |-> u, pin |-> Nothing, got |-> Nothing, lingers |-> FALSE]
        \in [pc : {"idle"}, app : Players, link : Links, pin : {Nothing}, got : {Nothing},
             lingers : {FALSE}]
  OBVIOUS
<1> QED BY <1>2 DEF Rest

LEMMA AssetsStart == AssetsInit => AssetsInv
<1> SUFFICES ASSUME AssetsInit PROVE AssetsInv OBVIOUS
<1> USE AssetsAssumption DEF AssetsInit
<1>1. (CHOOSE c \in Contents : TRUE) \in Contents OBVIOUS
<1>2. fetching.pc = "idle" BY RestIsIdle
<1>3. AssetsTypeOK
  <2>1. fetching \in [pc : {"idle", "resolve", "fetch", "keep", "index", "build", "place", "start"},
                      app : Players, link : Links, pin : Maybe, got : Maybe, lingers : BOOLEAN]
    BY RestIsIdle DEF Maybe
  <2> QED BY <1>1, <1>2, <2>1 DEF AssetsTypeOK, Maybe
<1>4. CacheIsAddressed BY DEF CacheIsAddressed
<1>5. Fetched BY <1>2 DEF Fetched
<1> QED BY <1>3, <1>4, <1>5 DEF AssetsInv

\* A deploy ends, and with it all that it knew.
LEMMA EndKeepsAssets ==
  ASSUME AssetsInv, fetching' = Rest, UNCHANGED <<origin, cacheFile, dataFile>>,
         urlIndex' \in [Links -> Maybe], playing' \subseteq Players
  PROVE  AssetsInv'
<1> USE RestIsIdle DEF AssetsInv
<1>1. AssetsTypeOK' BY DEF AssetsTypeOK, Maybe
<1>2. CacheIsAddressed' BY DEF CacheIsAddressed
<1>3. Fetched' BY DEF Fetched
<1> QED BY <1>1, <1>2, <1>3

LEMMA AssetsStep == AssetsInv /\ [AssetsNext]_assetsVars => AssetsInv'
<1> SUFFICES ASSUME AssetsInv, [AssetsNext]_assetsVars PROVE AssetsInv' OBVIOUS
<1> USE AssetsAssumption DEF AssetsInv, Maybe
<1>1. CASE Republish
  <2>1. AssetsTypeOK' BY <1>1 DEF Republish, AssetsTypeOK
  <2>2. CacheIsAddressed' /\ Fetched' BY <1>1 DEF Republish, CacheIsAddressed, Fetched
  <2> QED BY <2>1, <2>2
<1>2. CASE Evict
  <2>1. AssetsTypeOK' BY <1>2 DEF Evict, AssetsTypeOK
  <2>2. CacheIsAddressed' /\ Fetched' BY <1>2 DEF Evict, CacheIsAddressed, Fetched, AssetsTypeOK
  <2> QED BY <2>1, <2>2
<1>3. CASE AppRewrites
  <2>1. AssetsTypeOK' BY <1>3 DEF AppRewrites, AssetsTypeOK
  <2>2. CacheIsAddressed' /\ Fetched'
    BY <1>3 DEF AppRewrites, CacheIsAddressed, Fetched, AssetsTypeOK
  <2> QED BY <2>1, <2>2
<1>4. CASE StartFetching
  <2>1. PICK a \in Players, u \in Links, pin \in Maybe :
          fetching' = [Rest EXCEPT !.pc = "resolve", !.app = a, !.link = u, !.pin = pin]
    BY <1>4 DEF StartFetching
  <2>2. /\ fetching'.pc = "resolve"
        /\ fetching' \in [pc : {"resolve"}, app : Players, link : Links, pin : Maybe, got : Maybe,
                          lingers : BOOLEAN]
    BY <2>1, RestIsIdle
  <2>3. UNCHANGED <<origin, cacheFile, urlIndex, dataFile, playing>> BY <1>4 DEF StartFetching
  <2>4. AssetsTypeOK' BY <2>2, <2>3 DEF AssetsTypeOK
  <2> QED BY <2>2, <2>3, <2>4 DEF CacheIsAddressed, Fetched
<1>5. CASE Resolve
  <2>1. AssetsTypeOK' BY <1>5 DEF Resolve, Expected, AssetsTypeOK
  <2>2. CacheIsAddressed' BY <1>5 DEF Resolve, CacheIsAddressed
  <2>3. Fetched' BY <1>5 DEF Resolve, Expected, Fetched, AssetsTypeOK
  <2> QED BY <2>1, <2>2, <2>3
<1>6. CASE Download
  <2>1. CASE FetchFails BY <1>6, <2>1, EndKeepsAssets DEF Download, FetchFails, AssetsTypeOK
  <2>2. CASE ~FetchFails
    <3>1. AssetsTypeOK'
      <4>1. /\ fetching' = [fetching EXCEPT !.pc = "keep", !.got = origin[fetching.link]]
            /\ UNCHANGED <<origin, cacheFile, urlIndex, dataFile, playing>>
        BY <1>6, <2>2 DEF Download
      <4>2. origin[fetching.link] \in Contents BY DEF AssetsTypeOK
      <4> QED BY <4>1, <4>2 DEF AssetsTypeOK
    <3>2. CacheIsAddressed' BY <1>6 DEF Download, CacheIsAddressed
    <3>3. Fetched' BY <1>6, <2>2 DEF Download, Fetched, AssetsTypeOK
    <3> QED BY <3>1, <3>2, <3>3
  <2> QED BY <2>1, <2>2
<1>7. CASE KeepFile
  <2>1. AssetsTypeOK' BY <1>7 DEF KeepFile, AssetsTypeOK
  <2>2. CacheIsAddressed' BY <1>7 DEF KeepFile, CacheIsAddressed, AssetsTypeOK
  <2>3. Fetched' BY <1>7 DEF KeepFile, Fetched, AssetsTypeOK
  <2> QED BY <2>1, <2>2, <2>3
<1>8. CASE RememberUrl
  <2>1. AssetsTypeOK' BY <1>8 DEF RememberUrl, AssetsTypeOK
  <2>2. CacheIsAddressed' /\ Fetched'
    BY <1>8 DEF RememberUrl, CacheIsAddressed, Fetched, AssetsTypeOK
  <2> QED BY <2>1, <2>2
<1>9. CASE BuildAndStop
  <2>1. CASE FetchFails BY <1>9, <2>1, EndKeepsAssets DEF BuildAndStop, FetchFails, AssetsTypeOK
  <2>2. CASE ~FetchFails
    <3>1. AssetsTypeOK' BY <1>9, <2>2 DEF BuildAndStop, AssetsTypeOK
    <3>2. CacheIsAddressed' BY <1>9 DEF BuildAndStop, CacheIsAddressed
    <3>3. Fetched' BY <1>9, <2>2 DEF BuildAndStop, Fetched, AssetsTypeOK
    <3> QED BY <3>1, <3>2, <3>3
  <2> QED BY <2>1, <2>2
<1>10. CASE PlaceFile
  <2>1. CASE FetchFails /\ UNCHANGED dataFile
    BY <1>10, <2>1, EndKeepsAssets DEF PlaceFile, FetchFails, AssetsTypeOK
  <2>2. CASE ~(FetchFails /\ UNCHANGED dataFile)
    <3>1. /\ fetching.pc = "place" /\ fetching' = [fetching EXCEPT !.pc = "start"]
          /\ fetching.got \in Contents
          /\ dataFile' = [dataFile EXCEPT ![fetching.app] = fetching.got]
          /\ UNCHANGED <<origin, cacheFile, urlIndex, playing>>
      BY <1>10, <2>2 DEF PlaceFile, InPlace, AssetsTypeOK, CacheIsAddressed
    <3>2. AssetsTypeOK' BY <3>1 DEF AssetsTypeOK
    <3>3. CacheIsAddressed' /\ Fetched' BY <3>1 DEF CacheIsAddressed, Fetched, AssetsTypeOK
    <3> QED BY <3>2, <3>3
  <2> QED BY <2>1, <2>2
<1>11. CASE StartPlayer
  <2>1. playing' \subseteq Players BY <1>11 DEF StartPlayer, AssetsTypeOK
  <2> QED BY <1>11, <2>1, EndKeepsAssets DEF StartPlayer, AssetsTypeOK
<1>12. CASE FetcherDies BY <1>12, EndKeepsAssets DEF FetcherDies, AssetsTypeOK
<1>13. CASE UNCHANGED assetsVars
  BY <1>13 DEF assetsVars, AssetsTypeOK, CacheIsAddressed, Fetched
<1> QED BY <1>1, <1>2, <1>3, <1>4, <1>5, <1>6, <1>7, <1>8, <1>9, <1>10, <1>11, <1>12, <1>13
        DEF AssetsNext

LEMMA AssetsAlways == AssetsSpec => []AssetsInv
BY AssetsStart, AssetsStep, PTL DEF AssetsSpec

\* An app that wakes has what its deploy resolved in place.
LEMMA WakeStep ==
  ASSUME AssetsInv, [AssetsNext]_assetsVars, NEW a \in playing' \ playing
  PROVE  dataFile[a] = fetching.got /\ fetching.pin \in {Nothing, fetching.got}
<1>1. CASE StartPlayer BY <1>1 DEF StartPlayer, AssetsInv, Fetched
<1>2. CASE BuildAndStop BY <1>2 DEF BuildAndStop
<1> QED BY <1>1, <1>2 DEF AssetsNext, assetsVars, Republish, Evict, AppRewrites, StartFetching,
     Resolve, Download, KeepFile, RememberUrl, PlaceFile, FetcherDies

\* Only a deploy that fetched writes the index, and it fetched because the cache had nothing.
LEMMA FirstUseStep ==
  ASSUME AssetsInv, [AssetsNext]_assetsVars, NEW u \in Links,
         urlIndex[u] # Nothing, urlIndex'[u] \notin {urlIndex[u], Nothing}
  PROVE  fetching.pin # Nothing \/ cacheFile[urlIndex[u]] = Nothing
<1>1. CASE RememberUrl BY <1>1 DEF RememberUrl, AssetsInv, AssetsTypeOK, Fetched
<1>2. CASE FetcherDies BY <1>2 DEF FetcherDies, AssetsInv, AssetsTypeOK
<1> QED BY <1>1, <1>2 DEF AssetsNext, assetsVars, Republish, Evict, AppRewrites, StartFetching,
     Resolve, Download, KeepFile, BuildAndStop, PlaceFile, StartPlayer

\* Every part of the assets' state keeps its type, and a deploy that is past its fetch has content.
THEOREM AssetsTypes == AssetsSpec => []AssetsTypeOK
<1>1. AssetsInv => AssetsTypeOK BY DEF AssetsInv
<1> QED BY <1>1, AssetsAlways, PTL

\* For any number of apps, URLs and contents, with origins that change, files cleared from the
\* cache, apps that rewrite their copies and a daemon that dies at any step: content is found
\* under its own hash, an app wakes with what its deploy resolved, and a URL keeps its first
\* content while that is cached.
THEOREM AssetsAreHeld == AssetsSpec => AssetsHold
<1>1. AssetsInv => CacheIsAddressed BY DEF AssetsInv
<1>2. AssetsInv /\ [AssetsNext]_assetsVars =>
        [\A a \in playing' \ playing :
           dataFile[a] = fetching.got /\ fetching.pin \in {Nothing, fetching.got}]_assetsVars
  BY WakeStep
<1>3. AssetsInv /\ [AssetsNext]_assetsVars =>
        [\A u \in Links :
           urlIndex[u] # Nothing /\ urlIndex'[u] \notin {urlIndex[u], Nothing}
             => fetching.pin # Nothing \/ cacheFile[urlIndex[u]] = Nothing]_assetsVars
  BY FirstUseStep
<1> QED BY <1>1, <1>2, <1>3, AssetsAlways, PTL
        DEF AssetsSpec, AssetsHold, WakesWithItsAsset, FirstUseSticks

-------------------------------------------------------------------------------
(***************************************************************************)
(* DataPlane. A snapshot's directory is where its call has got to, unless  *)
(* two calls share it; a branch is whole whenever no copy fills it; an     *)
(* import's order says when the live directory can be half there.          *)
(***************************************************************************)

Took(s) == InFlight(s) \/ snapper[s].pc = "done"

\* How far the directory of a call is, unless two calls share it or an import wrote under it.
SnapsHeld ==
  /\ \A s \in Snappers :
       /\ Took(s) => snapper[s].id \in SnapIds
       /\ snapper[s].id \notin overlapped =>
            /\ snapper[s].pc = "clone" => snapDir[snapper[s].id] = "absent"
            /\ snapper[s].pc = "copying" => snapDir[snapper[s].id] = "partial"
            /\ snapper[s].pc = "verify" => snapDir[snapper[s].id] \in {"unverified", "torn"}
            /\ snapper[s].pc = "done" => snapDir[snapper[s].id] = "whole"
  /\ \A s, t \in Snappers :
       Took(s) /\ Took(t) /\ snapper[s].id = snapper[t].id /\ s # t =>
         snapper[s].id \in overlapped

HalfBranch == {<<"branch", 0>>, <<"live", 0>>} \cap halfDone # {}

\* A branch that no copy is filling is whole, and no preview has it before.
BranchKept ==
  /\ branchPc = "copying" => ~handedOut /\ branchDir # "absent" /\ live # "absent" /\ "spec" \in imported
  /\ handedOut => branchDir # "absent"
  /\ branchPc = "idle" /\ branchDir # "absent" /\ ~HalfBranch =>
       branchDir = "whole" \/ (copyOnWrite /\ branchDir = "torn")

\* What an import has put in place by each of its steps; live data is half there only
\* during one, or after one that was cut short.
ImportOrdered ==
  /\ importPc \in {"row", "data", "copying", "verify", "spec", "done"} => "repo" \in imported
  /\ importPc \in {"data", "copying", "verify", "spec", "done"} => "row" \in imported
  /\ importPc \in {"off", "bundle", "row"} => "row" \notin imported
  /\ importPc \in {"made", "done"} => "spec" \in imported
  /\ "spec" \in imported => importPc \in {"made", "done"}
  /\ importPc \in {"copying", "verify"} => live = "partial"
  /\ importPc \in {"off", "bundle", "row", "data"} => "data" \notin imported
  /\ "data" \in imported => "row" \in imported
  /\ importPc \in {"spec", "done"} /\ "data" \in imported =>
       live = "whole" \/ <<"live", 0>> \in halfDone
  /\ live = "partial" => importPc \in {"copying", "verify"} \/ <<"live", 0>> \in halfDone

DataInv ==
  DataTypeOK /\ SnapsHeld /\ ListedSnapshotsWhole /\ BranchKept /\ ImportOrdered

LEMMA DataStart == DataInit => DataInv
<1> SUFFICES ASSUME DataInit PROVE DataInv OBVIOUS
<1> USE DataAssumption DEF DataInit
<1>1. DataTypeOK
  <2>1. /\ live \in {"absent", "partial", "whole"} /\ appUp \in BOOLEAN
        /\ importPc \in ImportPcs /\ imported \subseteq {"repo", "row", "data", "spec"}
    BY DEF ImportPcs
  <2>2. snapper \in [Snappers -> [pc : SnapPcs, id : 0..MaxClock]] BY DEF SnapPcs
  <2>3. clock \in SnapIds /\ snapDir \in [SnapIds -> {"absent", "partial", "unverified", "torn", "mixed", "whole"}]
    BY DEF SnapIds
  <2>4. pages \in [1..2 -> 0..MaxWrites] /\ wal \in 0..MaxWrites OBVIOUS
  <2>5. /\ branchDir \in {"absent", "partial", "torn", "whole"} /\ branchPc \in {"idle", "copying"}
        /\ dataKills \in 0..MaxDataKills
    OBVIOUS
  <2>8. handedOut \in BOOLEAN /\ copyOnWrite \in BOOLEAN OBVIOUS
  <2>6. overlapped \subseteq SnapIds OBVIOUS
  <2>7. halfDone \subseteq {<<"live", 0>>, <<"branch", 0>>} \cup ({"snap"} \X SnapIds) OBVIOUS
  <2> HIDE DEF DataInit
  <2> QED BY <2>1, <2>2, <2>3, <2>4, <2>5, <2>6, <2>7, <2>8 DEF DataTypeOK
<1>2. SnapsHeld BY DEF SnapsHeld, Took, InFlight
<1>3. ListedSnapshotsWhole BY DEF ListedSnapshotsWhole
<1>4. BranchKept BY DEF BranchKept
<1>5. ImportOrdered BY DEF ImportOrdered
<1> QED BY <1>1, <1>2, <1>3, <1>4, <1>5 DEF DataInv

LEMMA CommitKeepsData == ASSUME DataInv, Commit PROVE DataInv'
<1> USE DataAssumption DEF DataInv, DataTypeOK, Commit, liveVars, snapVars, branchVars, importVars, SnapIds, SnapPcs, ImportPcs
<1>1. DataTypeOK' OBVIOUS
<1>2. SnapsHeld' BY DEF SnapsHeld, Took, InFlight
<1>3. ListedSnapshotsWhole' BY DEF ListedSnapshotsWhole, SnapsHeld, Took, InFlight
<1>4. BranchKept' BY DEF BranchKept, ImportOrdered, HalfBranch
<1>5. ImportOrdered' BY DEF ImportOrdered
<1> QED BY <1>1, <1>2, <1>3, <1>4, <1>5

LEMMA AppCheckpointKeepsData == ASSUME DataInv, AppCheckpoint PROVE DataInv'
<1> USE DataAssumption DEF DataInv, DataTypeOK, AppCheckpoint, liveVars, snapVars, branchVars, importVars, SnapIds, SnapPcs, ImportPcs
<1>1. DataTypeOK' OBVIOUS
<1>2. SnapsHeld' BY DEF SnapsHeld, Took, InFlight
<1>3. ListedSnapshotsWhole' BY DEF ListedSnapshotsWhole, SnapsHeld, Took, InFlight
<1>4. BranchKept' BY DEF BranchKept, ImportOrdered, HalfBranch
<1>5. ImportOrdered' BY DEF ImportOrdered
<1> QED BY <1>1, <1>2, <1>3, <1>4, <1>5

LEMMA DeployAppKeepsData == ASSUME DataInv, DeployApp PROVE DataInv'
<1> USE DataAssumption DEF DataInv, DataTypeOK, DeployApp, liveVars, snapVars, branchVars, importVars, SnapIds, SnapPcs, ImportPcs
<1>1. DataTypeOK' OBVIOUS
<1>2. SnapsHeld' BY DEF SnapsHeld, Took, InFlight
<1>3. ListedSnapshotsWhole' BY DEF ListedSnapshotsWhole, SnapsHeld, Took, InFlight
<1>4. BranchKept' BY DEF BranchKept, ImportOrdered, HalfBranch
<1>5. ImportOrdered' BY DEF ImportOrdered
<1> QED BY <1>1, <1>2, <1>3, <1>4, <1>5

LEMMA ClockTicksKeepsData == ASSUME DataInv, ClockTicks PROVE DataInv'
<1> USE DataAssumption DEF DataInv, DataTypeOK, ClockTicks, liveVars, snapVars, branchVars, importVars, SnapIds, SnapPcs, ImportPcs
<1>1. DataTypeOK' OBVIOUS
<1>2. SnapsHeld' BY DEF SnapsHeld, Took, InFlight
<1>3. ListedSnapshotsWhole' BY DEF ListedSnapshotsWhole, SnapsHeld, Took, InFlight
<1>4. BranchKept' BY DEF BranchKept, ImportOrdered, HalfBranch
<1>5. ImportOrdered' BY DEF ImportOrdered
<1> QED BY <1>1, <1>2, <1>3, <1>4, <1>5

LEMMA SnapshotBeginsKeepsData == ASSUME DataInv, NEW s \in Snappers, SnapshotBegins(s) PROVE DataInv'
<1> USE DataAssumption DEF DataInv, DataTypeOK, SnapshotBegins, liveVars, snapVars, branchVars, importVars, SnapIds, SnapPcs, ImportPcs, Checkpoint, FreeIds
<1>1. DataTypeOK'
  <2>1. pages' \in [1..2 -> 0..MaxWrites] OBVIOUS
  <2>2. PICK id \in FreeIds :
          /\ snapper' = [snapper EXCEPT ![s] = [pc |-> "clone", id |-> id]]
          /\ overlapped' = overlapped \cup
               {i \in {id} : \E t \in Snappers : InFlight(t) /\ snapper[t].id = i}
    OBVIOUS
  <2>3. id \in SnapIds /\ id \in 0..MaxClock OBVIOUS
  <2>4. snapper' \in [Snappers -> [pc : SnapPcs, id : 0..MaxClock]] BY <2>2, <2>3
  <2>5. overlapped' \subseteq SnapIds BY <2>2, <2>3
  <2> QED BY <2>1, <2>4, <2>5
<1>2. SnapsHeld' BY DEF SnapsHeld, Took, InFlight
<1>3. ListedSnapshotsWhole' BY DEF ListedSnapshotsWhole, SnapsHeld, Took, InFlight
<1>4. BranchKept' BY DEF BranchKept, ImportOrdered, HalfBranch
<1>5. ImportOrdered' BY DEF ImportOrdered
<1> QED BY <1>1, <1>2, <1>3, <1>4, <1>5

LEMMA CloneBeginsKeepsData == ASSUME DataInv, NEW s \in Snappers, CloneBegins(s) PROVE DataInv'
<1> USE DataAssumption DEF DataInv, DataTypeOK, CloneBegins, liveVars, snapVars, branchVars, importVars, SnapIds, SnapPcs, ImportPcs
<1>1. DataTypeOK' OBVIOUS
<1>2. SnapsHeld' BY DEF SnapsHeld, Took, InFlight
<1>3. ListedSnapshotsWhole' BY DEF ListedSnapshotsWhole, SnapsHeld, Took, InFlight
<1>4. BranchKept' BY DEF BranchKept, ImportOrdered, HalfBranch
<1>5. ImportOrdered' BY DEF ImportOrdered
<1> QED BY <1>1, <1>2, <1>3, <1>4, <1>5

LEMMA CloneEndsKeepsData == ASSUME DataInv, NEW s \in Snappers, CloneEnds(s) PROVE DataInv'
<1> USE DataAssumption DEF DataInv, DataTypeOK, CloneEnds, liveVars, snapVars, branchVars, importVars, SnapIds, SnapPcs, ImportPcs, Copied
<1>1. DataTypeOK'
  <2>1. snapper[s].id \in SnapIds BY DEF SnapsHeld, Took, InFlight
  <2>2. snapDir' \in [SnapIds -> {"absent", "partial", "unverified", "torn", "mixed", "whole"}]
    BY <2>1
  <2>3. overlapped' \subseteq SnapIds BY <2>1
  <2>4. snapper' \in [Snappers -> [pc : SnapPcs, id : 0..MaxClock]] OBVIOUS
  <2> QED BY <2>2, <2>3, <2>4
<1>2. SnapsHeld' BY DEF SnapsHeld, Took, InFlight
<1>3. ListedSnapshotsWhole' BY DEF ListedSnapshotsWhole, SnapsHeld, Took, InFlight
<1>4. BranchKept' BY DEF BranchKept, ImportOrdered, HalfBranch
<1>5. ImportOrdered' BY DEF ImportOrdered
<1> QED BY <1>1, <1>2, <1>3, <1>4, <1>5

LEMMA SnapshotEndsKeepsData == ASSUME DataInv, NEW s \in Snappers, SnapshotEnds(s) PROVE DataInv'
<1> USE DataAssumption DEF DataInv, DataTypeOK, SnapshotEnds, liveVars, snapVars, branchVars, importVars, SnapIds, SnapPcs, ImportPcs, Verified
<1>1. DataTypeOK' OBVIOUS
<1>2. SnapsHeld' BY DEF SnapsHeld, Took, InFlight
<1>3. ListedSnapshotsWhole' BY DEF ListedSnapshotsWhole, SnapsHeld, Took, InFlight
<1>4. BranchKept' BY DEF BranchKept, ImportOrdered, HalfBranch
<1>5. ImportOrdered' BY DEF ImportOrdered
<1> QED BY <1>1, <1>2, <1>3, <1>4, <1>5

LEMMA SnapshotFailsKeepsData == ASSUME DataInv, NEW s \in Snappers, SnapshotFails(s) PROVE DataInv'
<1> USE DataAssumption DEF DataInv, DataTypeOK, SnapshotFails, liveVars, snapVars, branchVars, importVars, SnapIds, SnapPcs, ImportPcs
<1>1. DataTypeOK' OBVIOUS
<1>2. SnapsHeld' BY DEF SnapsHeld, Took, InFlight
<1>3. ListedSnapshotsWhole' BY DEF ListedSnapshotsWhole, SnapsHeld, Took, InFlight
<1>4. BranchKept' BY DEF BranchKept, ImportOrdered, HalfBranch
<1>5. ImportOrdered' BY DEF ImportOrdered
<1> QED BY <1>1, <1>2, <1>3, <1>4, <1>5

LEMMA BranchReusedKeepsData == ASSUME DataInv, BranchReused PROVE DataInv'
<1> USE DataAssumption DEF DataInv, DataTypeOK, BranchReused, liveVars, snapVars, branchVars, importVars, SnapIds, SnapPcs, ImportPcs
<1>1. DataTypeOK' OBVIOUS
<1>2. SnapsHeld' BY DEF SnapsHeld, Took, InFlight
<1>3. ListedSnapshotsWhole' BY DEF ListedSnapshotsWhole, SnapsHeld, Took, InFlight
<1>4. BranchKept' BY DEF BranchKept, ImportOrdered, HalfBranch
<1>5. ImportOrdered' BY DEF ImportOrdered
<1> QED BY <1>1, <1>2, <1>3, <1>4, <1>5

LEMMA BranchBeginsKeepsData == ASSUME DataInv, BranchBegins PROVE DataInv'
<1> USE DataAssumption DEF DataInv, DataTypeOK, BranchBegins, liveVars, snapVars, branchVars, importVars, SnapIds, SnapPcs, ImportPcs, Checkpoint
<1>1. DataTypeOK' OBVIOUS
<1>2. SnapsHeld' BY DEF SnapsHeld, Took, InFlight
<1>3. ListedSnapshotsWhole' BY DEF ListedSnapshotsWhole, SnapsHeld, Took, InFlight
<1>4. BranchKept' BY DEF BranchKept, ImportOrdered, HalfBranch
<1>5. ImportOrdered' BY DEF ImportOrdered
<1> QED BY <1>1, <1>2, <1>3, <1>4, <1>5

LEMMA BranchEndsKeepsData == ASSUME DataInv, BranchEnds PROVE DataInv'
<1> USE DataAssumption DEF DataInv, DataTypeOK, BranchEnds, liveVars, snapVars, branchVars, importVars, SnapIds, SnapPcs, ImportPcs, Copied
<1>1. DataTypeOK' OBVIOUS
<1>2. SnapsHeld' BY DEF SnapsHeld, Took, InFlight
<1>3. ListedSnapshotsWhole' BY DEF ListedSnapshotsWhole, SnapsHeld, Took, InFlight
<1>4. BranchKept' BY DEF BranchKept, ImportOrdered, HalfBranch
<1>5. ImportOrdered' BY DEF ImportOrdered
<1> QED BY <1>1, <1>2, <1>3, <1>4, <1>5

LEMMA BranchFailsKeepsData == ASSUME DataInv, BranchFails PROVE DataInv'
<1> USE DataAssumption DEF DataInv, DataTypeOK, BranchFails, liveVars, snapVars, branchVars, importVars, SnapIds, SnapPcs, ImportPcs
<1>1. DataTypeOK' OBVIOUS
<1>2. SnapsHeld' BY DEF SnapsHeld, Took, InFlight
<1>3. ListedSnapshotsWhole' BY DEF ListedSnapshotsWhole, SnapsHeld, Took, InFlight
<1>4. BranchKept' BY DEF BranchKept, ImportOrdered, HalfBranch
<1>5. ImportOrdered' BY DEF ImportOrdered
<1> QED BY <1>1, <1>2, <1>3, <1>4, <1>5

LEMMA DeleteBranchKeepsData == ASSUME DataInv, DeleteBranch PROVE DataInv'
<1> USE DataAssumption DEF DataInv, DataTypeOK, DeleteBranch, liveVars, snapVars, branchVars, importVars, SnapIds, SnapPcs, ImportPcs
<1>1. DataTypeOK' OBVIOUS
<1>2. SnapsHeld' BY DEF SnapsHeld, Took, InFlight
<1>3. ListedSnapshotsWhole' BY DEF ListedSnapshotsWhole, SnapsHeld, Took, InFlight
<1>4. BranchKept' BY DEF BranchKept, ImportOrdered, HalfBranch
<1>5. ImportOrdered' BY DEF ImportOrdered
<1> QED BY <1>1, <1>2, <1>3, <1>4, <1>5

LEMMA ImportBeginsKeepsData == ASSUME DataInv, ImportBegins PROVE DataInv'
<1> USE DataAssumption DEF DataInv, DataTypeOK, ImportBegins, liveVars, snapVars, branchVars, importVars, SnapIds, SnapPcs, ImportPcs, ImportGoto
<1>1. DataTypeOK' OBVIOUS
<1>2. SnapsHeld' BY DEF SnapsHeld, Took, InFlight
<1>3. ListedSnapshotsWhole' BY DEF ListedSnapshotsWhole, SnapsHeld, Took, InFlight
<1>4. BranchKept' BY DEF BranchKept, ImportOrdered, HalfBranch
<1>5. ImportOrdered' BY DEF ImportOrdered
<1> QED BY <1>1, <1>2, <1>3, <1>4, <1>5

LEMMA ImportBundleKeepsData == ASSUME DataInv, ImportBundle PROVE DataInv'
<1> USE DataAssumption DEF DataInv, DataTypeOK, ImportBundle, liveVars, snapVars, branchVars, importVars, SnapIds, SnapPcs, ImportPcs, ImportGoto
<1>1. DataTypeOK' OBVIOUS
<1>2. SnapsHeld' BY DEF SnapsHeld, Took, InFlight
<1>3. ListedSnapshotsWhole' BY DEF ListedSnapshotsWhole, SnapsHeld, Took, InFlight
<1>4. BranchKept' BY DEF BranchKept, ImportOrdered, HalfBranch
<1>5. ImportOrdered' BY DEF ImportOrdered
<1> QED BY <1>1, <1>2, <1>3, <1>4, <1>5

LEMMA ImportRowKeepsData == ASSUME DataInv, ImportRow PROVE DataInv'
<1> USE DataAssumption DEF DataInv, DataTypeOK, ImportRow, liveVars, snapVars, branchVars, importVars, SnapIds, SnapPcs, ImportPcs, ImportGoto
<1>1. DataTypeOK' OBVIOUS
<1>2. SnapsHeld' BY DEF SnapsHeld, Took, InFlight
<1>3. ListedSnapshotsWhole' BY DEF ListedSnapshotsWhole, SnapsHeld, Took, InFlight
<1>4. BranchKept' BY DEF BranchKept, ImportOrdered, HalfBranch
<1>5. ImportOrdered' BY DEF ImportOrdered
<1> QED BY <1>1, <1>2, <1>3, <1>4, <1>5

LEMMA ImportDataKeepsData == ASSUME DataInv, ImportData PROVE DataInv'
<1> USE DataAssumption DEF DataInv, DataTypeOK, ImportData, liveVars, snapVars, branchVars, importVars, SnapIds, SnapPcs, ImportPcs, ImportGoto, MayImportData
<1>1. DataTypeOK' OBVIOUS
<1>2. SnapsHeld' BY DEF SnapsHeld, Took, InFlight
<1>3. ListedSnapshotsWhole' BY DEF ListedSnapshotsWhole, SnapsHeld, Took, InFlight
<1>4. BranchKept' BY DEF BranchKept, ImportOrdered, HalfBranch
<1>5. ImportOrdered' BY DEF ImportOrdered
<1> QED BY <1>1, <1>2, <1>3, <1>4, <1>5

LEMMA ImportCopiedKeepsData == ASSUME DataInv, ImportCopied PROVE DataInv'
<1> USE DataAssumption DEF DataInv, DataTypeOK, ImportCopied, liveVars, snapVars, branchVars, importVars, SnapIds, SnapPcs, ImportPcs, ImportGoto
<1>1. DataTypeOK' OBVIOUS
<1>2. SnapsHeld' BY DEF SnapsHeld, Took, InFlight
<1>3. ListedSnapshotsWhole' BY DEF ListedSnapshotsWhole, SnapsHeld, Took, InFlight
<1>4. BranchKept' BY DEF BranchKept, ImportOrdered, HalfBranch
<1>5. ImportOrdered' BY DEF ImportOrdered
<1> QED BY <1>1, <1>2, <1>3, <1>4, <1>5

LEMMA ImportVerifiedKeepsData == ASSUME DataInv, ImportVerified PROVE DataInv'
<1> USE DataAssumption DEF DataInv, DataTypeOK, ImportVerified, liveVars, snapVars, branchVars, importVars, SnapIds, SnapPcs, ImportPcs, ImportGoto
<1>1. DataTypeOK' OBVIOUS
<1>2. SnapsHeld' BY DEF SnapsHeld, Took, InFlight
<1>3. ListedSnapshotsWhole' BY DEF ListedSnapshotsWhole, SnapsHeld, Took, InFlight
<1>4. BranchKept' BY DEF BranchKept, ImportOrdered, HalfBranch
<1>5. ImportOrdered' BY DEF ImportOrdered
<1> QED BY <1>1, <1>2, <1>3, <1>4, <1>5

LEMMA ImportNoDataKeepsData == ASSUME DataInv, ImportNoData PROVE DataInv'
<1> USE DataAssumption DEF DataInv, DataTypeOK, ImportNoData, liveVars, snapVars, branchVars, importVars, SnapIds, SnapPcs, ImportPcs, ImportGoto
<1>1. DataTypeOK' OBVIOUS
<1>2. SnapsHeld' BY DEF SnapsHeld, Took, InFlight
<1>3. ListedSnapshotsWhole' BY DEF ListedSnapshotsWhole, SnapsHeld, Took, InFlight
<1>4. BranchKept' BY DEF BranchKept, ImportOrdered, HalfBranch
<1>5. ImportOrdered' BY DEF ImportOrdered
<1> QED BY <1>1, <1>2, <1>3, <1>4, <1>5

LEMMA ImportSpecKeepsData == ASSUME DataInv, ImportSpec PROVE DataInv'
<1> USE DataAssumption DEF DataInv, DataTypeOK, ImportSpec, liveVars, snapVars, branchVars, importVars, SnapIds, SnapPcs, ImportPcs, ImportGoto
<1>1. DataTypeOK' OBVIOUS
<1>2. SnapsHeld' BY DEF SnapsHeld, Took, InFlight
<1>3. ListedSnapshotsWhole' BY DEF ListedSnapshotsWhole, SnapsHeld, Took, InFlight
<1>4. BranchKept' BY DEF BranchKept, ImportOrdered, HalfBranch
<1>5. ImportOrdered' BY DEF ImportOrdered
<1> QED BY <1>1, <1>2, <1>3, <1>4, <1>5

LEMMA DataKillKeepsData == ASSUME DataInv, DataKill PROVE DataInv'
<1> USE DataAssumption DEF DataInv, DataTypeOK, DataKill, liveVars, snapVars, branchVars, importVars, SnapIds, SnapPcs, ImportPcs
<1>1. DataTypeOK'
  <2>1. \A s \in Snappers : InFlight(s) => snapper[s].id \in SnapIds BY DEF SnapsHeld, Took
  <2>2. halfDone' \subseteq {<<"live", 0>>, <<"branch", 0>>} \cup ({"snap"} \X SnapIds) BY <2>1
  <2>3. snapper' \in [Snappers -> [pc : SnapPcs, id : 0..MaxClock]] BY DEF InFlight
  <2>4. dataKills' \in 0..MaxDataKills OBVIOUS
  <2> QED BY <2>2, <2>3, <2>4
<1>2. SnapsHeld' BY DEF SnapsHeld, Took, InFlight
<1>3. ListedSnapshotsWhole' BY DEF ListedSnapshotsWhole, SnapsHeld, Took, InFlight
<1>4. BranchKept' BY DEF BranchKept, ImportOrdered, HalfBranch
<1>5. ImportOrdered' BY DEF ImportOrdered
<1> QED BY <1>1, <1>2, <1>3, <1>4, <1>5

LEMMA DataStep == DataInv /\ [DataNext]_dataVars => DataInv'
<1> SUFFICES ASSUME DataInv, [DataNext]_dataVars PROVE DataInv' OBVIOUS
<1>1. CASE UNCHANGED dataVars
  <2> USE <1>1 DEF dataVars, DataInv
  <2>1. DataTypeOK' BY DEF DataTypeOK
  <2>2. SnapsHeld' /\ ListedSnapshotsWhole' BY DEF SnapsHeld, ListedSnapshotsWhole, Took, InFlight
  <2>3. BranchKept' /\ ImportOrdered' BY DEF BranchKept, ImportOrdered, HalfBranch
  <2> QED BY <2>1, <2>2, <2>3
<1>2. CASE Commit \/ AppCheckpoint \/ DeployApp \/ ClockTicks
  BY <1>2, CommitKeepsData, AppCheckpointKeepsData, DeployAppKeepsData, ClockTicksKeepsData
<1>3. ASSUME NEW s \in Snappers,
             SnapshotBegins(s) \/ CloneBegins(s) \/ CloneEnds(s) \/ SnapshotEnds(s)
             \/ SnapshotFails(s)
      PROVE  DataInv'
  BY <1>3, SnapshotBeginsKeepsData, CloneBeginsKeepsData, CloneEndsKeepsData,
     SnapshotEndsKeepsData, SnapshotFailsKeepsData
<1>4. CASE BranchReused \/ BranchBegins \/ BranchEnds \/ BranchFails \/ DeleteBranch
  BY <1>4, BranchReusedKeepsData, BranchBeginsKeepsData, BranchEndsKeepsData,
     BranchFailsKeepsData, DeleteBranchKeepsData
<1>5. CASE ImportBegins \/ ImportBundle \/ ImportRow \/ ImportData \/ ImportCopied
           \/ ImportVerified \/ ImportNoData \/ ImportSpec
  BY <1>5, ImportBeginsKeepsData, ImportBundleKeepsData, ImportRowKeepsData, ImportDataKeepsData,
     ImportCopiedKeepsData, ImportVerifiedKeepsData, ImportNoDataKeepsData, ImportSpecKeepsData
<1>6. CASE DataKill BY <1>6, DataKillKeepsData
<1> QED BY <1>1, <1>2, <1>3, <1>4, <1>5, <1>6 DEF DataNext

LEMMA DataAlways == DataSpec => []DataInv
BY DataStart, DataStep, PTL DEF DataSpec

\* Live data is only written while an import fills a directory that was not there.
LEMMA LiveKept ==
  ASSUME DataInv, [DataNext]_dataVars, live = "whole" PROVE live' = "whole"
<1> QED BY DEF DataNext, dataVars, liveVars, DataInv, ImportOrdered, Commit, AppCheckpoint,
     DeployApp, ClockTicks, SnapshotBegins, CloneBegins, CloneEnds, SnapshotEnds, SnapshotFails,
     BranchReused, BranchBegins, BranchEnds, BranchFails, DeleteBranch, ImportBegins, ImportBundle,
     ImportRow, ImportData, MayImportData, ImportCopied, ImportVerified, ImportNoData, ImportSpec,
     DataKill

\* Every part of the data plane's state keeps its type.
THEOREM DataTypes == DataSpec => []DataTypeOK
<1>1. DataInv => DataTypeOK BY DEF DataInv
<1> QED BY <1>1, DataAlways, PTL

\* For any number of calls, transactions and deaths of the daemon: a snapshot that is listed or
\* was answered is a whole copy, a preview is never handed a half-copied branch, an import that
\* is done left the repository, the row and the data in place, and none writes over data; with
\* the exceptions that each of these properties names.
THEOREM DataStaysWhole == DataSpec => DataIsWhole
<1>1. DataInv => ListedSnapshotsWhole BY DEF DataInv
<1>2. DataInv => AnsweredSnapshotsStay BY DEF DataInv, SnapsHeld, AnsweredSnapshotsStay
<1>3. DataInv => BranchesWhole
  BY DEF DataInv, DataTypeOK, BranchKept, HalfBranch, BranchesWhole
<1>4. DataInv => ImportedIsWhole BY DEF DataInv, DataTypeOK, ImportOrdered, ImportedIsWhole
<1>5. DataInv /\ [DataNext]_dataVars => [live = "whole" => live' = "whole"]_dataVars
  BY LiveKept
<1> QED BY <1>1, <1>2, <1>3, <1>4, <1>5, DataAlways, PTL DEF DataSpec, DataIsWhole, NoClobber
===============================================================================
