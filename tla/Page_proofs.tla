------------------------------ MODULE Page_proofs ------------------------------
(***************************************************************************)
(* The parts of a console page: each keeps its types, and the subscription,*)
(* the map and the tile keep what must hold of them.  At the end the page  *)
(* as a whole, whatever part a behaviour is about.                         *)
(*                                                                         *)
(* Where the types alone are not inductive, a part's invariant (MenuInv,   *)
(* BallInv, SaveInv, ViewInv) says why its queues stay within their bounds.*)
(***************************************************************************)
EXTENDS MCPage, SequenceTheorems, FiniteSetTheorems, TLAPS

(***************************************************************************)
(* Queues: a last element, a first one, another one.                       *)
(***************************************************************************)
LEMMA AppendLast ==
  ASSUME NEW S, NEW s \in Seq(S), NEW e \in S
  PROVE  /\ Append(s, e) \in Seq(S) /\ Append(s, e) # <<>>
         /\ Append(s, e)[Len(Append(s, e))] = e
<1>1. Len(Append(s, e)) = Len(s) + 1 /\ Len(s) \in Nat
  BY AppendProperties, LenProperties
<1>2. Append(s, e)[Len(s) + 1] = e /\ Append(s, e) # <<>> /\ Append(s, e) \in Seq(S)
  BY AppendProperties
<1> QED
  BY <1>1, <1>2

LEMMA LastOfTail ==
  ASSUME NEW S, NEW s \in Seq(S), s # <<>>
  PROVE  /\ Tail(s) \in Seq(S)
         /\ Tail(s) = <<>> => Head(s) = s[Len(s)]
         /\ Tail(s) # <<>> => Tail(s)[Len(Tail(s))] = s[Len(s)]
<1>1. Len(s) \in Nat \ {0} /\ Head(s) = s[1]
  BY EmptySeq
<1>2. /\ Tail(s) \in Seq(S) /\ Len(Tail(s)) = Len(s) - 1
      /\ \A i \in 1..Len(Tail(s)) : Tail(s)[i] = s[i + 1]
  BY HeadTailProperties
<1>3. CASE Tail(s) = <<>>
  <2>1. Len(Tail(s)) = 0
    BY <1>2, <1>3, EmptySeq
  <2>2. \A n \in Nat : n - 1 = 0 => n = 1
    OBVIOUS
  <2>3. Len(s) = 1
    BY ONLY <1>1, <1>2, <2>1, <2>2
  <2> QED
    BY <1>1, <1>2, <1>3, <2>3
<1>4. CASE Tail(s) # <<>>
  <2>1. Len(Tail(s)) \in Nat \ {0}
    BY <1>2, <1>4, EmptySeq
  <2>2. Tail(s)[Len(Tail(s))] = s[Len(Tail(s)) + 1]
    BY <1>2, <2>1
  <2>3. Len(Tail(s)) + 1 = Len(s)
    BY <1>1, <1>2
  <2> QED
    BY <1>2, <1>4, <2>2, <2>3
<1> QED
  BY <1>3, <1>4

LEMMA TailIn ==
  ASSUME NEW S, NEW s \in Seq(S), s # <<>>
  PROVE  /\ Tail(s) \in Seq(S) /\ Head(s) \in S
         /\ Len(s) \in Nat /\ Len(s) > 0 /\ Len(Tail(s)) = Len(s) - 1
  OBVIOUS

LEMMA AppendIn ==
  ASSUME NEW S, NEW s \in Seq(S), NEW e \in S
  PROVE  /\ Append(s, e) \in Seq(S)
         /\ Len(s) \in Nat /\ Len(Append(s, e)) = Len(s) + 1
  OBVIOUS

LEMMA JoinIn ==
  ASSUME NEW S, NEW s \in Seq(S), NEW t \in Seq(S)
  PROVE  /\ s \o t \in Seq(S) /\ Len(s \o t) = Len(s) + Len(t)
         /\ Len(s) \in Nat /\ Len(t) \in Nat
  OBVIOUS

LEMMA EmptyIn ==
  ASSUME NEW S
  PROVE  <<>> \in Seq(S) /\ Len(<<>>) = 0
  OBVIOUS

LEMMA OneIn ==
  ASSUME NEW S, NEW e \in S
  PROVE  <<e>> \in Seq(S) /\ Len(<<e>>) = 1
  OBVIOUS

-------------------------------------------------------------------------------
(***************************************************************************)
(* The subscription: types.  Requests and reports share the socket's room. *)
(***************************************************************************)
OnSocket(u, d) ==
  /\ u \in Seq(Requests) /\ d \in Seq(Status \cup {NoCloud, Frame})
  /\ Len(u) + Len(d) <= MaxPending

SubFlags == /\ ready \in BOOLEAN /\ wanted \in BOOLEAN /\ subscribed \in BOOLEAN
            /\ link \in BOOLEAN /\ enabled \in BOOLEAN
SubGateway == mine \in BOOLEAN /\ others \in BOOLEAN /\ hand \in BOOLEAN
SubLink == (~link => up = <<>> /\ down = <<>> /\ ~mine /\ ~hand)
           /\ drops \in 0..MaxDrops

LEMMA SubTypes == TypeOK <=> SubFlags /\ SubGateway /\ SubLink /\ OnSocket(up, down)
  BY DEF TypeOK, SubFlags, SubGateway, SubLink, OnSocket

LEMMA StatusTypes ==
  /\ \A b \in BOOLEAN : StatusJson(b) \in Status
  /\ NoCloud \in Status \cup {NoCloud, Frame}
  /\ Frame \in Status \cup {NoCloud, Frame}
  BY DEF StatusJson, Status

LEMMA RequestFits ==
  ASSUME OnSocket(up, down), Room, NEW m \in Requests, send(m), down' = down
  PROVE  OnSocket(up', down')
  BY CloudAssumption, AppendIn DEF OnSocket, Room, send, CloudAssumption

LEMMA ReportFits ==
  ASSUME OnSocket(up, down), Room, NEW m \in Status \cup {NoCloud, Frame},
         down' = Append(down, m), up' = up
  PROVE  OnSocket(up', down')
  BY CloudAssumption, AppendIn DEF OnSocket, Room, CloudAssumption

LEMMA AnswerTakesPlace ==
  ASSUME OnSocket(up, down), up # <<>>, NEW m \in Status \cup {NoCloud, Frame},
         down' = Append(down, m), up' = Tail(up)
  PROVE  OnSocket(up', down')
  BY CloudAssumption, AppendIn, TailIn DEF OnSocket, CloudAssumption

LEMMA HearingFits ==
  ASSUME OnSocket(up, down), down # <<>>, down' = Tail(down),
         up' = up \/ \E m \in Requests : up' = Append(up, m)
  PROVE  OnSocket(up', down')
<1>1. CASE up' = up
  BY <1>1, CloudAssumption, TailIn DEF OnSocket, CloudAssumption
<1>2. CASE \E m \in Requests : up' = Append(up, m)
  BY <1>2, CloudAssumption, AppendIn, TailIn DEF OnSocket, CloudAssumption
<1> QED
  BY <1>1, <1>2

LEMMA SubscriptionKeepsTypes ==
  ASSUME TypeOK, [Next]_vars
  PROVE  TypeOK'
<1> SUFFICES SubFlags' /\ SubGateway' /\ SubLink' /\ OnSocket(up', down')
  BY DEF TypeOK, SubFlags, SubGateway, SubLink, OnSocket
<1> USE CloudAssumption DEF CloudAssumption
<1>1. SubFlags /\ SubGateway /\ SubLink /\ OnSocket(up, down)
  BY SubTypes
<1>a. ASSUME NEW want \in BOOLEAN, applyWanted(want), Room, down' = down,
             UNCHANGED <<gateway, link, drops>>, ready' \in BOOLEAN, wanted' \in BOOLEAN
      PROVE  SubFlags' /\ SubGateway' /\ SubLink' /\ OnSocket(up', down')
  <2>1. subscribed' \in BOOLEAN
    BY <1>1, <1>a DEF applyWanted, SubFlags
  <2>2. OnSocket(up', down')
    BY <1>1, <1>a, RequestFits DEF applyWanted, Requests
  <2>3. ~link => up' = up
    BY <1>a DEF applyWanted, send
  <2> QED
    BY <1>1, <1>a, <2>1, <2>2, <2>3 DEF SubFlags, SubGateway, SubLink, gateway
<1>2. CASE \E want \in BOOLEAN : applyLayout(want)
  BY <1>1, <1>2, <1>a
  DEF applyLayout, setWanted, SubFlags, SubGateway, SubLink, gateway
<1>3. CASE initCloud
  BY <1>1, <1>3, <1>a DEF initCloud, SubFlags
<1>4. CASE onWsOpen
  <2>1. /\ up' = <<>> \/ up' = <<"cloud_sub">>
        /\ down' = <<>>
    BY <1>1, <1>4 DEF onWsOpen, SubLink, resubscribe
  <2>2. <<"cloud_sub">> \in Seq(Requests) /\ Len(<<"cloud_sub">>) = 1
    BY DEF Requests
  <2>3. OnSocket(up', down')
    <3>1. OnSocket(<<>>, <<>>)
      BY EmptyIn DEF OnSocket
    <3>2. OnSocket(<<"cloud_sub">>, <<>>)
      BY <2>2, EmptyIn DEF OnSocket
    <3> QED
      BY <2>1, <3>1, <3>2
  <2> QED
    BY <1>1, <1>4, <2>3 DEF onWsOpen, SubFlags, SubGateway, SubLink, page, gateway
<1>5. CASE onWsClose
  <2>1. OnSocket(up', down')
    BY <1>5, EmptyIn DEF onWsClose, OnSocket
  <2>2. drops' \in 0..MaxDrops
    BY <1>1, <1>5 DEF onWsClose, SubLink
  <2> QED
    BY <1>1, <1>5, <2>1, <2>2 DEF onWsClose, SubFlags, SubGateway, SubLink, page
<1>6. CASE DispatchMessage
  <2>0. /\ up # <<>> /\ link /\ (mine' \/ others) \in BOOLEAN /\ mine' \in BOOLEAN
        /\ up' = Tail(up)
    BY <1>1, <1>6 DEF DispatchMessage, SubLink, SubGateway
  <2>1. OnSocket(up', down')
    BY <1>1, <1>6, <2>0, AnswerTakesPlace, StatusTypes DEF DispatchMessage
  <2> QED
    BY <1>1, <1>6, <2>0, <2>1
    DEF DispatchMessage, SubFlags, SubGateway, SubLink, page
<1>7. CASE StateLoop
  <2>1. OnSocket(up', down')
    BY <1>1, <1>7, ReportFits, StatusTypes DEF StateLoop, SubGateway
  <2> QED
    BY <1>1, <1>7, <2>1
    DEF StateLoop, SubFlags, SubGateway, SubLink, page, gateway
<1>8. CASE EmitSend
  <2>1. OnSocket(up', down')
    BY <1>1, <1>8, ReportFits, StatusTypes DEF EmitSend, SubGateway
  <2> QED
    BY <1>1, <1>8, <2>1 DEF EmitSend, SubFlags, SubGateway, SubLink, page, gateway
<1>9. CASE EmitTargets \/ OtherConsole
  <2>1. UNCHANGED <<page, enabled, mine, socket>>
    BY <1>9 DEF EmitTargets, OtherConsole
  <2>2. SubFlags' /\ SubGateway'
    BY <1>1, <1>9, <2>1
    DEF EmitTargets, OtherConsole, SubFlags, SubGateway, page, socket
  <2>3. SubLink'
    BY <1>1, <1>9, <2>1 DEF EmitTargets, OtherConsole, SubLink, socket
  <2> QED
    BY <1>1, <2>1, <2>2, <2>3 DEF socket
<1>10. CASE FromGateway
  <2>1. /\ down # <<>> /\ down' = Tail(down) /\ link
        /\ up' = up \/ \E m \in Requests : up' = Append(up, m)
    BY <1>1, <1>10
    DEF FromGateway, onCloudFrame, onCloudStatus, onDenied, Arrives, SubLink,
        send, Requests
  <2>2. OnSocket(up', down')
    BY <1>1, <2>1, HearingFits
  <2> QED
    BY <1>1, <1>10, <2>1, <2>2
    DEF FromGateway, onCloudFrame, onCloudStatus, onDenied, SubFlags, SubGateway,
        SubLink, page, gateway
<1>11. CASE UNCHANGED vars
  BY <1>1, <1>11
  DEF vars, SubFlags, SubGateway, SubLink, page, gateway, socket, OnSocket
<1> QED
  BY <1>2, <1>3, <1>4, <1>5, <1>6, <1>7, <1>8, <1>9, <1>10, <1>11
  DEF Next, ShowCloud, HideCloud

(***************************************************************************)
(* What the gateway will hold once it has read all that is on its way: the *)
(* last request decides.                                                   *)
(***************************************************************************)
Ends == IF up = <<>> THEN mine ELSE up[Len(up)] = "cloud_sub"

Reports == Status \cup {NoCloud, Frame}

Wires == /\ up \in Seq(Requests) /\ down \in Seq(Reports)
         /\ ~link => up = <<>> /\ down = <<>> /\ ~mine /\ ~hand

(***************************************************************************)
(* A gateway without a CloudBridge has no subscribers, and only such a     *)
(* gateway says so.                                                        *)
(***************************************************************************)
Denials == /\ mine => enabled
           /\ \A i \in 1..Len(down) : down[i].t = "no_cloud" => ~enabled

Settled == enabled /\ ~subscribed => ~Ends

SubInv == Wires /\ Denials /\ Settled

(***************************************************************************)
(* Every request that is sent, and every change of mind, keeps it so.      *)
(***************************************************************************)
LEMMA RequestSettles ==
  ASSUME SubInv, NEW m \in Requests, send(m), UNCHANGED <<link, mine>>,
         subscribed' \/ m = "cloud_unsub"
  PROVE  /\ up' \in Seq(Requests) /\ (~link => up' = <<>>)
         /\ ~subscribed' => ~Ends'
<1>1. CASE link
  <2>1. up' = Append(up, m)
    BY <1>1 DEF send
  <2>2. up' \in Seq(Requests) /\ up' # <<>> /\ up'[Len(up')] = m
    BY <2>1, AppendLast DEF SubInv, Wires
  <2> QED
    BY <1>1, <2>2 DEF Ends
<1>2. CASE ~link
  BY <1>2 DEF send, SubInv, Wires, Ends
<1> QED
  BY <1>1, <1>2

LEMMA WantingSettles ==
  ASSUME SubInv, NEW want, applyWanted(want),
         UNCHANGED <<enabled, mine, hand, link, down>>
  PROVE  SubInv'
<1>1. CASE want # subscribed
  <2>1. PICK m \in Requests : /\ send(m)
                              /\ want \/ m = "cloud_unsub"
    BY <1>1 DEF applyWanted, Requests
  <2>2. subscribed' = want
    BY <1>1 DEF applyWanted
  <2>3. /\ up' \in Seq(Requests) /\ (~link => up' = <<>>)
        /\ ~subscribed' => ~Ends'
    BY <2>1, <2>2, RequestSettles
  <2> QED
    BY <2>3 DEF SubInv, Wires, Denials, Settled
<1>2. CASE want = subscribed
  BY <1>2 DEF applyWanted, SubInv, Wires, Denials, Settled, Ends
<1> QED
  BY <1>1, <1>2

(***************************************************************************)
(* What the gateway sends.                                                 *)
(***************************************************************************)
LEMMA SendingKeepsDenials ==
  ASSUME down \in Seq(Reports), NEW r \in Reports, down' = Append(down, r),
         UNCHANGED enabled, r.t = "no_cloud" => ~enabled,
         \A i \in 1..Len(down) : down[i].t = "no_cloud" => ~enabled
  PROVE  /\ down' \in Seq(Reports)
         /\ \A i \in 1..Len(down') : down'[i].t = "no_cloud" => ~enabled'
<1>1. /\ Len(down') = Len(down) + 1 /\ down'[Len(down) + 1] = r
      /\ \A i \in 1..Len(down) : down'[i] = down[i]
      /\ down' \in Seq(Reports)
  BY AppendProperties
<1>2. Len(down) \in Nat
  BY LenProperties
<1>3. \A i \in 1..Len(down') : i \in 1..Len(down) \/ i = Len(down) + 1
  BY <1>1, <1>2
<1> QED
  BY <1>1, <1>3

(***************************************************************************)
(* What the page takes from the wire.                                      *)
(***************************************************************************)
LEMMA HearingKeepsDenials ==
  ASSUME down \in Seq(Reports), down # <<>>, down' = Tail(down),
         UNCHANGED enabled,
         \A i \in 1..Len(down) : down[i].t = "no_cloud" => ~enabled
  PROVE  /\ down' \in Seq(Reports)
         /\ \A i \in 1..Len(down') : down'[i].t = "no_cloud" => ~enabled'
         /\ Head(down).t = "no_cloud" => ~enabled
<1>1. /\ Len(down') = Len(down) - 1 /\ down' \in Seq(Reports)
      /\ \A i \in 1..Len(down') : down'[i] = down[i + 1]
  BY HeadTailProperties
<1>2. Len(down) \in Nat \ {0} /\ Head(down) = down[1]
  BY EmptySeq
<1>3. \A i \in 1..Len(down') : i + 1 \in 1..Len(down)
  BY <1>1, <1>2
<1> QED
  BY <1>1, <1>2, <1>3

LEMMA SilentBySubInv == SubInv => UnsubscribedIsSilent
  BY DEF SubInv, Denials, Settled, Ends, UnsubscribedIsSilent

LEMMA SubscriptionBegins == Init => SubInv
  BY EmptySeq DEF Init, SubInv, Wires, Denials, Settled, Ends

(***************************************************************************)
(* Every step of page, socket and gateway keeps it.                        *)
(***************************************************************************)
LEMMA SubscriptionSettles ==
  ASSUME SubInv, [Next]_vars
  PROVE  SubInv'
<1> USE DEF SubInv, Wires, Denials, Settled
<1>1. CASE ShowCloud \/ HideCloud
  <2>1. PICK want \in BOOLEAN : applyLayout(want)
    BY <1>1 DEF ShowCloud, HideCloud
  <2>2. CASE ready
    BY <2>1, <2>2, WantingSettles DEF applyLayout, setWanted, gateway
  <2>3. CASE ~ready
    BY <2>1, <2>3 DEF applyLayout, setWanted, gateway, Ends
  <2> QED
    BY <2>2, <2>3
<1>2. CASE initCloud
  <2>1. applyWanted(wanted) /\ UNCHANGED <<enabled, mine, hand, link, down>>
    BY <1>2 DEF initCloud, gateway
  <2> QED
    BY <2>1, WantingSettles
<1>3. CASE onWsOpen
  <2>1. /\ down' = <<>> /\ ~mine' /\ link'
        /\ enabled' = enabled /\ subscribed' = subscribed
    BY <1>3 DEF onWsOpen, page, gateway
  <2>2. CASE up' = <<>>
    BY <2>1, <2>2, EmptySeq DEF Ends
  <2>3. CASE up' = <<"cloud_sub">> /\ subscribed
    <3>1. up' \in Seq(Requests)
      BY <2>3 DEF Requests
    <3> QED
      BY <2>1, <2>3, <3>1, EmptySeq
  <2> QED
    BY <1>3, <2>2, <2>3 DEF onWsOpen, resubscribe
<1>4. CASE onWsClose
  BY <1>4, EmptySeq DEF onWsClose, page, Ends
<1>5. CASE DispatchMessage
  <2>1. /\ up # <<>> /\ up' = Tail(up) /\ link
        /\ UNCHANGED <<subscribed, enabled, link>>
    BY <1>5 DEF DispatchMessage, page
  <2>2. /\ up' \in Seq(Requests)
        /\ up' = <<>> => Head(up) = up[Len(up)]
        /\ up' # <<>> => up'[Len(up')] = up[Len(up)]
    BY <2>1, LastOfTail
  <2>3. CASE enabled
    <3>1. /\ mine' = (Head(up) = "cloud_sub")
          /\ down' = Append(down, StatusJson(mine' \/ others))
      BY <1>5, <2>3 DEF DispatchMessage
    <3>2. PICK r \in Reports : down' = Append(down, r) /\ r.t # "no_cloud"
      <4>1. \A b \in BOOLEAN : /\ StatusJson(b) \in Reports
                               /\ StatusJson(b).t # "no_cloud"
        BY DEF StatusJson, Reports, Status
      <4>2. (mine' \/ others) \in BOOLEAN
        OBVIOUS
      <4> QED
        BY <3>1, <4>1, <4>2
    <3>3. /\ down' \in Seq(Reports)
          /\ \A i \in 1..Len(down') : down'[i].t = "no_cloud" => ~enabled'
      BY <2>1, <3>1, <3>2, SendingKeepsDenials
    <3>4. ~Ends => ~Ends'
      <4>1. CASE up' = <<>>
        BY <2>1, <2>2, <3>1, <4>1 DEF Ends
      <4>2. CASE up' # <<>>
        BY <2>1, <2>2, <4>2 DEF Ends
      <4> QED
        BY <4>1, <4>2
    <3> QED
      BY <2>1, <2>2, <2>3, <3>3, <3>4
  <2>4. CASE ~enabled
    <3>1. down' = Append(down, NoCloud) /\ mine' = mine
      BY <1>5, <2>4 DEF DispatchMessage
    <3>2. NoCloud \in Reports
      BY DEF Reports
    <3>3. /\ down' \in Seq(Reports)
          /\ \A i \in 1..Len(down') : down'[i].t = "no_cloud" => ~enabled'
      BY <2>1, <2>4, <3>1, <3>2, SendingKeepsDenials
    <3> QED
      BY <2>1, <2>2, <2>4, <3>1, <3>3
  <2> QED
    BY <2>3, <2>4
<1>6. CASE StateLoop \/ EmitSend
  <2>1. PICK r \in Reports : down' = Append(down, r) /\ r.t # "no_cloud"
    <3>1. \A b \in BOOLEAN : /\ StatusJson(b) \in Reports
                             /\ StatusJson(b).t # "no_cloud"
      BY DEF StatusJson, Reports, Status
    <3>2. Frame \in Reports /\ Frame.t # "no_cloud"
      BY DEF Frame, Reports
    <3>3. (mine \/ others) \in BOOLEAN
      OBVIOUS
    <3> QED
      BY <1>6, <3>1, <3>2, <3>3 DEF StateLoop, EmitSend
  <2>2. /\ UNCHANGED <<up, subscribed, enabled, mine, link>> /\ link
    BY <1>6 DEF StateLoop, EmitSend, page, gateway
  <2>3. /\ down' \in Seq(Reports)
        /\ \A i \in 1..Len(down') : down'[i].t = "no_cloud" => ~enabled'
    BY <2>1, <2>2, SendingKeepsDenials
  <2> QED
    BY <2>2, <2>3 DEF Ends
<1>7. CASE EmitTargets \/ OtherConsole
  BY <1>7 DEF EmitTargets, OtherConsole, page, socket, Ends
<1>8. CASE FromGateway
  <2>1. /\ down # <<>> /\ down' = Tail(down)
        /\ UNCHANGED <<enabled, mine, link>>
    BY <1>8
    DEF FromGateway, onCloudFrame, onCloudStatus, onDenied, Arrives, gateway
  <2>2. /\ down' \in Seq(Reports)
        /\ \A i \in 1..Len(down') : down'[i].t = "no_cloud" => ~enabled'
        /\ Head(down).t = "no_cloud" => ~enabled
    BY <2>1, HearingKeepsDenials
  <2>3. link
    BY <2>1
  <2>4. CASE onCloudFrame
    BY <2>1, <2>2, <2>3, <2>4 DEF onCloudFrame, Ends
  <2>5. CASE onCloudStatus
    <3>1. CASE UNCHANGED up
      BY <2>1, <2>2, <2>3, <2>5, <3>1 DEF onCloudStatus, page, Ends
    <3>2. CASE send("cloud_sub") /\ subscribed
      <4>1. subscribed'
        BY <2>5, <3>2 DEF onCloudStatus, page
      <4>2. up' \in Seq(Requests)
        BY <2>1, <3>2, <4>1, RequestSettles DEF Requests
      <4> QED
        BY <2>1, <2>2, <2>3, <4>1, <4>2
    <3> QED
      BY <2>5, <3>1, <3>2 DEF onCloudStatus
  <2>6. CASE onDenied
    BY <2>1, <2>2, <2>3, <2>6 DEF onDenied, Arrives
  <2> QED
    BY <1>8, <2>4, <2>5, <2>6 DEF FromGateway
<1>9. CASE UNCHANGED vars
  BY <1>9 DEF vars, page, gateway, socket, Ends
<1> QED
  BY <1>1, <1>2, <1>3, <1>4, <1>5, <1>6, <1>7, <1>8, <1>9 DEF Next

(***************************************************************************)
(* A page that holds itself unsubscribed is not among the subscribers once *)
(* its requests have been read.                                            *)
(***************************************************************************)
THEOREM UnsubscribedPageIsSilent == Spec => []UnsubscribedIsSilent
<1>1. Init => SubInv
  BY SubscriptionBegins
<1>2. SubInv /\ [Next]_vars => SubInv'
  BY SubscriptionSettles
<1>3. SubInv => UnsubscribedIsSilent
  BY SilentBySubInv
<1> QED
  BY <1>1, <1>2, <1>3, PTL DEF Spec

-------------------------------------------------------------------------------
(***************************************************************************)
(* The map: types.  A selected floor is one of those that were counted, as *)
(* long as there are walls to count them in.                               *)
(***************************************************************************)
MapCells == /\ cells \in [Voxels -> {"none", "seen", "wall"}]
            /\ cellFrame \in [Voxels -> Sources \cup {"none", "map"}]
            /\ source \in Sources \cup {"none"}
MapFlags == world \in BOOLEAN /\ anchored \in BOOLEAN /\ persist \in BOOLEAN
            /\ trail \in 0..MaxTrail
Cuts(z, cut, selected, n) ==
  /\ cut \in BOOLEAN /\ n \in Nat /\ selected \in Int
  /\ z # {} /\ cut /\ selected >= 0 /\ n > 0 => selected < n
MapFloors == Cuts(collectZs(cells), floorCut, floorView, floors)

LEMMA MapTypes == MapTypeOK <=> MapCells /\ MapFlags /\ MapFloors
<1>1. MapTypeOK => MapCells /\ MapFlags /\ MapFloors
  BY DEF MapTypeOK, MapCells, MapFlags, MapFloors, Cuts, applyFloorView
<1>2. MapCells /\ MapFlags /\ MapFloors => MapTypeOK
  BY DEF MapTypeOK, MapCells, MapFlags, MapFloors, Cuts, applyFloorView
<1> QED
  BY <1>1, <1>2

(***************************************************************************)
(* Floors are found in any map; pruning adds no walls.                     *)
(***************************************************************************)
LEMMA FloorsAreCounted ==
  ASSUME NEW c, NEW n \in FloorCounts(c)
  PROVE  n \in Nat /\ n >= 1
<1>1. IsFiniteSet(collectZs(c))
  BY MapAssumption, FS_Subset DEF MapAssumption, collectZs
<1>2. Cardinality(collectZs(c)) \in Nat
  BY <1>1, FS_CardinalityType
<1> QED
  BY <1>2 DEF FloorCounts

LEMMA PrunedTypes ==
  ASSUME NEW c \in [Voxels -> {"none", "seen", "wall"}], NEW live,
         NEW d \in pruneVoxels(c, live)
  PROVE  /\ d \in [Voxels -> {"none", "seen", "wall"}]
         /\ collectZs(d) \subseteq collectZs(c)
<1>1. PICK gone \in SUBSET Voxels : d = [v \in Voxels |-> IF v \in gone THEN "none" ELSE c[v]]
  BY DEF pruneVoxels
<1> QED
  BY <1>1 DEF collectZs, cellConfirmed

LEMMA IngestedTypes ==
  ASSUME NEW c \in [Voxels -> {"none", "seen", "wall"}], NEW hit,
         NEW d \in ingestPersist(c, hit)
  PROVE  d \in [Voxels -> {"none", "seen", "wall"}]
  BY DEF ingestPersist

LEMMA DetectionCuts ==
  ASSUME NEW c, NEW cut \in BOOLEAN, NEW selected \in Int, floors \in Nat,
         Redetect(c, cut, selected), NEW z, z \subseteq collectZs(c)
  PROVE  Cuts(z, cut, floorView', floors')
<1>1. CASE cut
  <2>1. PICK n \in FloorCounts(c) : floors' = n /\ floorView' = StillThere(c, selected, n)
    BY <1>1 DEF Redetect, detectFloors
  <2> QED
    BY <2>1, FloorsAreCounted DEF StillThere, Cuts
<1>2. CASE ~cut
  BY <1>2 DEF Redetect, Cuts
<1> QED
  BY <1>1, <1>2

LEMMA ToolbarTypes ==
  ASSUME MapTypeOK, NEW cut \in BOOLEAN, NEW selected \in Int, persist' \in BOOLEAN,
         applyOpts(cells, cut, selected), UNCHANGED trail
  PROVE  MapTypeOK'
<1> USE DEF MapCells, MapFlags, MapFloors
<1>1. MapCells /\ MapFlags /\ MapFloors
  BY MapTypes
<1>2. MapCells' /\ collectZs(cells') \subseteq collectZs(cells)
  BY <1>1, PrunedTypes DEF applyOpts
<1>3. MapFloors'
  BY <1>1, <1>2, DetectionCuts DEF applyOpts, Cuts
<1>4. MapFlags'
  BY <1>1 DEF applyOpts
<1> HIDE DEF MapCells, MapFlags, MapFloors
<1>5. MapCells' /\ MapFlags' /\ MapFloors' => MapTypeOK'
  BY MapTypes, PTL
<1> QED
  BY <1>2, <1>3, <1>4, <1>5

LEMMA MapKeepsTypes ==
  ASSUME MapTypeOK, [MapNext]_mapVars
  PROVE  MapTypeOK'
<1> SUFFICES \/ MapTypeOK'
             \/ MapCells' /\ MapFlags' /\ MapFloors'
  BY DEF MapTypeOK, applyFloorView, Cuts, MapCells, MapFlags, MapFloors
<1> USE DEF MapCells, MapFlags, MapFloors
<1>1. MapCells /\ MapFlags /\ MapFloors /\ MaxTrail \in Nat /\ KeptTrail \in 1..MaxTrail
  BY MapTypes, MapAssumption DEF MapAssumption
<1>2. ASSUME NEW cloud \in Clouds, NEW hit \in SUBSET Voxels,
             ingestFrame(cloud, hit)
      PROVE  MapCells' /\ MapFlags' /\ MapFloors'
  <2> DEFINE w == cloud = "world"
             base == IF w # world THEN [v \in Voxels |-> "none"] ELSE cells
  <2>1. base \in [Voxels -> {"none", "seen", "wall"}]
    BY <1>1
  <2>0. PICK c \in ingestPersist(base, hit) :
          \E d \in pruneVoxels(c, ~persist) :
            /\ Redetect(d, floorCut, floorView)
            /\ cells' \in pruneVoxels(d, ~persist)
    BY <1>2 DEF ingestFrame
  <2>2. PICK d \in pruneVoxels(c, ~persist) :
          /\ Redetect(d, floorCut, floorView)
          /\ cells' \in pruneVoxels(d, ~persist)
    BY <2>0
  <2>3. source' \in Sources \cup {"none"} /\ world' = w /\ floorCut' = floorCut
        /\ cellFrame' = Placed(base, FrameOf(w, source'))
        /\ UNCHANGED <<anchored, trail, persist>>
    BY <1>1, <1>2, MapAssumption DEF ingestFrame, MapAssumption
  <2>4. c \in [Voxels -> {"none", "seen", "wall"}]
    BY <2>0, <2>1, IngestedTypes
  <2>5. d \in [Voxels -> {"none", "seen", "wall"}]
    BY <2>0, <2>2, <2>4, PrunedTypes
  <2>6. /\ cells' \in [Voxels -> {"none", "seen", "wall"}]
        /\ collectZs(cells') \subseteq collectZs(d)
    BY <2>2, <2>5, PrunedTypes
  <2>7. MapFloors'
    BY <1>1, <2>2, <2>3, <2>6, DetectionCuts DEF Cuts
  <2>8. cellFrame' \in [Voxels -> Sources \cup {"none", "map"}]
    BY <1>1, <2>3 DEF Placed, FrameOf
  <2> QED
    BY <1>1, <2>3, <2>6, <2>7, <2>8
<1>3. ASSUME NEW s \in Sources, onPose(s)
      PROVE  MapCells' /\ MapFlags' /\ MapFloors'
  <2>1. cells' \in [Voxels -> {"none", "seen", "wall"}] /\ collectZs(cells') \subseteq collectZs(cells)
    BY <1>1, <1>3 DEF onPose, collectZs, cellConfirmed
  <2>2. trail' \in 0..MaxTrail
    BY <1>1, <1>3 DEF onPose, recordTrail
  <2>3. MapFloors'
    BY <1>1, <1>3, <2>1 DEF onPose, Cuts, view
  <2> QED
    BY <1>1, <1>3, <2>1, <2>2, <2>3 DEF onPose, view
<1>4. ASSUME NEW p \in BOOLEAN, CloudMode(p) PROVE MapTypeOK'
  BY <1>1, <1>4, ToolbarTypes DEF CloudMode, Cuts
<1>5. ASSUME NEW cut \in BOOLEAN, CutBox(cut) PROVE MapTypeOK'
  BY <1>1, <1>5, ToolbarTypes DEF CutBox, Cuts
<1>6. CASE StoreyHeight
  BY <1>1, <1>6, ToolbarTypes DEF StoreyHeight, Cuts
<1>7. CASE FloorButton
  <2>1. PICK n \in FloorCounts(cells) :
       /\ floors' = n
       /\ floorView' = StillThere(cells,
                         NextFloor(StillThere(cells, floorView, n), n), n)
    BY <1>7 DEF FloorButton
  <2>2. n \in Nat /\ n >= 1
    BY FloorsAreCounted
  <2>3. cells' \in [Voxels -> {"none", "seen", "wall"}] /\ collectZs(cells') \subseteq collectZs(cells)
    BY <1>1, <1>7, PrunedTypes DEF FloorButton
  <2>4. MapFloors'
    BY <1>1, <1>7, <2>1, <2>2, <2>3 DEF FloorButton, StillThere, NextFloor, Cuts
  <2> QED
    BY <1>1, <1>7, <2>3, <2>4 DEF FloorButton
<1>8. CASE ClearCloud
  <2>1. cells' \in [Voxels -> {"none", "seen", "wall"}] /\ collectZs(cells') = {}
    BY <1>8 DEF ClearCloud, collectZs, cellConfirmed
  <2>2. floors' \in Nat /\ floorView' \in Int
    BY <1>1, <1>8, FloorsAreCounted DEF ClearCloud, detectFloors, StillThere, Cuts
  <2> QED
    BY <1>1, <1>8, <2>1, <2>2 DEF ClearCloud, Cuts
<1>9. CASE UNCHANGED mapVars
  BY <1>1, <1>9 DEF mapVars, view, collectZs, cellConfirmed
<1> QED
  BY <1>2, <1>3, <1>4, <1>5, <1>6, <1>7, <1>8, <1>9 DEF MapNext

(***************************************************************************)
(* Pruning shows no voxel that was not there, and out of live mode it      *)
(* leaves the walls.                                                       *)
(***************************************************************************)
LEMMA PruningOnlyForgets ==
  ASSUME NEW c, NEW live, NEW d \in pruneVoxels(c, live), NEW v \in Voxels
  PROVE  /\ d[v] # "none" => c[v] # "none"
         /\ ~live /\ c[v] = "wall" => d[v] = "wall"
<1>1. PICK gone \in SUBSET {u \in Voxels : live \/ ~cellConfirmed(c, u)} :
        d = [u \in Voxels |-> IF u \in gone THEN "none" ELSE c[u]]
  BY DEF pruneVoxels
<1>2. d[v] = IF v \in gone THEN "none" ELSE c[v]
  BY <1>1
<1> QED
  BY <1>1, <1>2 DEF cellConfirmed

LEMMA HitsLeaveWalls ==
  ASSUME NEW c, NEW hit, NEW d \in ingestPersist(c, hit), NEW v \in Voxels,
         c[v] = "wall"
  PROVE  d[v] = "wall"
  BY DEF ingestPersist

(***************************************************************************)
(* The map changes either with the frame it is in or by pruning.           *)
(***************************************************************************)
LEMMA ToolbarOnlyPrunes ==
  ASSUME \/ \E p \in BOOLEAN : CloudMode(p)
         \/ FloorButton
         \/ \E cut \in BOOLEAN : CutBox(cut)
         \/ StoreyHeight
  PROVE  /\ UNCHANGED <<cellFrame, world, source>>
         /\ \/ cells' \in pruneVoxels(cells, ~persist')
            \/ UNCHANGED persist /\ cells' \in pruneVoxels(cells, ~persist)
  BY DEF CloudMode, FloorButton, CutBox, StoreyHeight, applyOpts

OneFrame == world \in BOOLEAN /\ MapIsOfOneFrame

LEMMA MapBeginsInOneFrame == MapInit => OneFrame
  BY DEF MapInit, OneFrame, MapIsOfOneFrame

(***************************************************************************)
(* Every step of the map keeps it in one frame.                            *)
(***************************************************************************)
LEMMA MapKeepsFrame ==
  ASSUME OneFrame, [MapNext]_mapVars
  PROVE  OneFrame'
<1>1. ASSUME NEW cloud \in Clouds, NEW hit \in SUBSET Voxels,
             ingestFrame(cloud, hit)
      PROVE  OneFrame'
  <2> DEFINE w == cloud = "world"
             base == IF w # world THEN [v \in Voxels |-> "none"] ELSE cells
  <2>1. /\ ~(world /\ ~w) /\ world' = w
        /\ source' = IF w THEN "lio" ELSE source
        /\ cellFrame' = Placed(base, FrameOf(w, source'))
    BY <1>1 DEF ingestFrame
  <2>2. world' \in BOOLEAN
    BY <2>1
  <2>3. ASSUME NEW v \in Voxels
        PROVE  cellFrame'[v] \in {FrameOf(world', source'), "none"}
                 \/ cells'[v] = "none" \/ base[v] # "none"
    BY <2>1 DEF Placed
  <2>4. ASSUME NEW v \in Voxels, base[v] # "none"
        PROVE  cellFrame'[v] \in {FrameOf(world', source'), "none"}
    <3>1. w = world /\ cells[v] # "none"
      BY <2>4
    <3>2. cellFrame'[v] = cellFrame[v]
      BY <2>1, <2>4 DEF Placed
    <3>3. FrameOf(world', source') = FrameOf(world, source)
      BY <2>1, <3>1 DEF FrameOf
    <3> QED
      BY <3>1, <3>2, <3>3 DEF OneFrame, MapIsOfOneFrame
  <2> HIDE DEF base, w
  <2> QED
    BY <2>2, <2>3, <2>4 DEF OneFrame, MapIsOfOneFrame
<1>2. ASSUME NEW s \in Sources, onPose(s)
      PROVE  OneFrame'
  <2>1. CASE OtherOrigin(s)
    BY <1>2, <2>1 DEF onPose, OneFrame, MapIsOfOneFrame
  <2>2. CASE ~OtherOrigin(s)
    <3>1. FrameOf(world, s) = FrameOf(world, source) \/ FrameOf(world, source) = "none"
      BY <2>2 DEF OtherOrigin, FrameOf, OneFrame
    <3>2. source' = s /\ UNCHANGED <<cells, cellFrame, world>>
      BY <1>2, <2>2 DEF onPose
    <3> QED
      BY <3>1, <3>2 DEF OneFrame, MapIsOfOneFrame
  <2> QED
    BY <2>1, <2>2
<1>3. CASE \/ \E p \in BOOLEAN : CloudMode(p)
           \/ FloorButton
           \/ \E cut \in BOOLEAN : CutBox(cut)
           \/ StoreyHeight
  BY <1>3, ToolbarOnlyPrunes, PruningOnlyForgets DEF OneFrame, MapIsOfOneFrame
<1>4. CASE ClearCloud
  BY <1>4 DEF ClearCloud, OneFrame, MapIsOfOneFrame
<1>5. CASE UNCHANGED mapVars
  BY <1>5 DEF mapVars, OneFrame, MapIsOfOneFrame
<1> QED
  BY <1>1, <1>2, <1>3, <1>4, <1>5 DEF MapNext

(***************************************************************************)
(* Every voxel is in the frame the next cloud is entered in, for any map   *)
(* and any odometry sources: a change of origin or of registration empties *)
(* the map in the same step.                                               *)
(***************************************************************************)
THEOREM TheMapIsOfOneFrame == MapSpec => []MapIsOfOneFrame
<1>1. MapInit => OneFrame
  BY MapBeginsInOneFrame
<1>2. OneFrame /\ [MapNext]_mapVars => OneFrame'
  BY MapKeepsFrame
<1>3. OneFrame => MapIsOfOneFrame
  BY DEF OneFrame
<1> QED
  BY <1>1, <1>2, <1>3, PTL DEF MapSpec

(***************************************************************************)
(* The walls of a registered, persistent map go only when they are cleared *)
(* by hand: neither a stray body cloud nor a flicker of the odometry       *)
(* source takes them.                                                      *)
(***************************************************************************)
THEOREM RegisteredWallsStay == MapSpec => RegisteredMapStays
<1>1. ASSUME world \in BOOLEAN, [MapNext]_mapVars,
             persist, persist', world, ~ClearCloud
      PROVE  collectZs(cells) \subseteq collectZs(cells')
  <2>1. ASSUME NEW cloud \in Clouds, NEW hit \in SUBSET Voxels,
               ingestFrame(cloud, hit), NEW v \in Voxels, cells[v] = "wall"
        PROVE  cells'[v] = "wall"
    <3>1. cloud = "world"
      BY <1>1, <2>1 DEF ingestFrame
    <3>2. PICK c \in ingestPersist(cells, hit) :
          \E d \in pruneVoxels(c, ~persist) : cells' \in pruneVoxels(d, ~persist)
      BY <1>1, <2>1, <3>1 DEF ingestFrame
    <3>3. c[v] = "wall"
      BY <2>1, HitsLeaveWalls
    <3>4. PICK d \in pruneVoxels(c, ~persist) : cells' \in pruneVoxels(d, ~persist)
      BY <3>2
    <3>5. d[v] = "wall"
      BY <1>1, <3>3, PruningOnlyForgets
    <3> QED
      BY <1>1, <3>4, <3>5, PruningOnlyForgets
  <2>2. ASSUME NEW s \in Sources, onPose(s)
        PROVE  cells' = cells
    BY <1>1, <2>2 DEF onPose, OtherOrigin
  <2>3. ASSUME \/ \E p \in BOOLEAN : CloudMode(p)
               \/ FloorButton
               \/ \E cut \in BOOLEAN : CutBox(cut)
               \/ StoreyHeight,
               NEW v \in Voxels, cells[v] = "wall"
        PROVE  cells'[v] = "wall"
    BY <1>1, <2>3, ToolbarOnlyPrunes, PruningOnlyForgets
  <2>4. CASE UNCHANGED mapVars
    BY <2>4 DEF mapVars
  <2> QED
    BY <1>1, <2>1, <2>2, <2>3, <2>4 DEF MapNext, collectZs, cellConfirmed
<1>2. MapInit => world \in BOOLEAN
  BY DEF MapInit
<1>3. world \in BOOLEAN /\ [MapNext]_mapVars => (world \in BOOLEAN)'
  BY DEF MapNext, mapVars, ingestFrame, onPose, CloudMode, FloorButton, CutBox,
         StoreyHeight, ClearCloud, applyOpts
<1>4. world \in BOOLEAN /\ [MapNext]_mapVars
      => [persist /\ persist' /\ world /\ ~ClearCloud
            => collectZs(cells) \subseteq collectZs(cells')]_mapVars
  BY <1>1
<1> QED
  BY <1>2, <1>3, <1>4, PTL DEF MapSpec, RegisteredMapStays

-------------------------------------------------------------------------------
(***************************************************************************)
(* The gait menu: a timer runs only for a choice, orders and answers share *)
(* the room.                                                               *)
(***************************************************************************)
MenuGaits == /\ menu \in Gaits /\ dogGait \in Gaits
             /\ gaitBefore \in Maybe /\ gaitSeen \in Maybe /\ sent \in Maybe
MenuFlags == gaitPending \in BOOLEAN /\ open \in BOOLEAN /\ marching \in BOOLEAN
             /\ astray \in BOOLEAN
MenuJobs  == /\ job \in Jobs \cup {NoGait} /\ wish \in Jobs \cup {NoGait}
             /\ choices \in 0..MaxChoices /\ losses \in 0..MaxLosses
             /\ timers \in 0..choices
MenuWire(o, a) == /\ o \in Seq(Gaits) /\ a \in Seq(Results \cup Telemetry)
                  /\ Len(o) + Len(a) <= MaxOrders

MenuInv == MenuGaits /\ MenuFlags /\ MenuJobs /\ MenuWire(orders, answers)

LEMMA MenuTypes == MenuInv => GaitMenuTypeOK
  BY GaitMenuAssumption
  DEF GaitMenuTypeOK, MenuInv, MenuGaits, MenuFlags, MenuJobs, MenuWire, GaitMenuAssumption

LEMMA NextGaitIsAGait ==
  ASSUME menu \in Gaits, NEW delta \in {-1, 1}
  PROVE  nextGait(delta) \in Gaits
<1> DEFINE i == CHOOSE k \in DOMAIN Cycle : Cycle[k] = menu
           n == ((i - 1 + delta) % Len(Cycle)) + 1
<1>1. /\ DOMAIN Cycle = 1..Len(Cycle) /\ Len(Cycle) \in Nat /\ Len(Cycle) > 1
      /\ \A k \in 1..Len(Cycle) : Cycle[k] \in Gaits
  BY GaitMenuAssumption DEF GaitMenuAssumption
<1>2. CASE menu \in Range(Cycle)
  <2>1. i \in 1..Len(Cycle)
    <3>1. \E k \in DOMAIN Cycle : Cycle[k] = menu
      BY <1>2 DEF Range
    <3> QED
      BY <1>1, <3>1
  <2> HIDE DEF i
  <2>2. (i - 1 + delta) % Len(Cycle) \in 0..(Len(Cycle) - 1)
    BY <1>1, <2>1
  <2>3. n \in 1..Len(Cycle)
    BY <1>1, <2>2
  <2>4. nextGait(delta) = Cycle[n]
    BY <1>2 DEF nextGait, i
  <2> QED
    BY <1>1, <2>3, <2>4
<1>3. CASE menu \notin Range(Cycle)
  BY <1>1, <1>3 DEF nextGait, Last
<1> QED
  BY <1>2, <1>3

LEMMA AnswerFits ==
  ASSUME MenuInv, NEW g \in Gaits, NEW ok \in BOOLEAN, NEW asker \in BOOLEAN
  PROVE  /\ Answer(asker, g, ok) \in Seq(Results \cup Telemetry)
         /\ Len(Answer(asker, g, ok)) \in {Len(answers), Len(answers) + 1}
         /\ Len(answers) \in Nat /\ Len(orders) \in Nat
<1>1. [t |-> "gait_result", gait_key |-> g, ok |-> ok] \in Results \cup Telemetry
  BY DEF Results
<1> QED
  BY <1>1, AppendIn DEF MenuInv, MenuWire, Answer

LEMMA MenuKeepsTypes ==
  ASSUME MenuInv, [GaitMenuNext]_gaitMenuVars
  PROVE  MenuInv'
<1> SUFFICES MenuGaits' /\ MenuFlags' /\ MenuJobs' /\ MenuWire(orders', answers')
  BY DEF MenuInv, MenuGaits, MenuFlags, MenuJobs, MenuWire
<1> USE DEF menuVars, dogSide
<1>1. /\ MenuGaits /\ MenuFlags /\ MenuJobs /\ MenuWire(orders, answers)
      /\ MaxChoices \in Nat /\ MaxOrders \in Nat /\ MaxLosses \in Nat
      /\ NoGait \notin Gaits /\ NoGait \notin Jobs
  BY GaitMenuAssumption, NoJobAssumption
  DEF MenuInv, GaitMenuAssumption, NoJobAssumption
<1>2. ASSUME NEW g \in Gaits, Chooses(g), timers' \in {timers, timers + 1},
             gaitBefore' \in {gaitBefore, menu}, gaitPending' \in BOOLEAN
      PROVE  MenuGaits' /\ MenuFlags' /\ MenuJobs' /\ MenuWire(orders', answers')
  <2>1. MenuWire(orders', answers')
    BY <1>1, <1>2, AppendIn DEF Chooses, Free, MenuWire
  <2>2. MenuGaits' /\ MenuFlags'
    BY <1>1, <1>2 DEF Chooses, MenuGaits, MenuFlags, Maybe
  <2>3. MenuJobs'
    BY <1>1, <1>2 DEF Chooses, MenuJobs
  <2> QED
    BY <2>1, <2>2, <2>3
<1>3. ASSUME NEW g \in Gaits, ClickGait(g)
      PROVE  MenuGaits' /\ MenuFlags' /\ MenuJobs' /\ MenuWire(orders', answers')
  BY <1>2, <1>3 DEF ClickGait
<1>4. ASSUME NEW delta \in {-1, 1}, GaitKey(delta)
      PROVE  MenuGaits' /\ MenuFlags' /\ MenuJobs' /\ MenuWire(orders', answers')
  BY <1>1, <1>2, <1>4, NextGaitIsAGait DEF GaitKey, MenuGaits, MenuFlags
<1>5. ASSUME NEW g \in Gaits, HandsetGait(g)
      PROVE  MenuGaits' /\ MenuFlags' /\ MenuJobs' /\ MenuWire(orders', answers')
  BY <1>1, <1>5 DEF HandsetGait, MenuGaits, MenuFlags, MenuJobs, MenuWire
<1>6. CASE PendingTimer
  <2>1. MenuJobs'
    BY <1>1, <1>6 DEF PendingTimer, MenuJobs
  <2> QED
    BY <1>1, <1>6, <2>1 DEF PendingTimer, MenuGaits, MenuFlags, MenuWire
<1>7. CASE onGaitResult \/ adoptGaitTelem
  <2>1. /\ answers # <<>> /\ answers' = Tail(answers) /\ orders' = orders
        /\ UNCHANGED <<timers, open, dogSide, choices, losses>>
    BY <1>7 DEF onGaitResult, adoptGaitTelem, Hears
  <2>2. /\ Head(answers) \in Results \cup Telemetry
        /\ MenuWire(orders', answers')
    BY <1>1, <2>1, TailIn DEF MenuWire
  <2>3. /\ Head(answers).gait_key \in Gaits /\ gaitPending' \in BOOLEAN
        /\ astray' \in BOOLEAN
    BY <1>1, <1>7, <2>2
    DEF onGaitResult, adoptGaitTelem, Results, Telemetry, MenuFlags
  <2>4. MenuGaits'
    BY <1>1, <1>7, <2>1, <2>3 DEF onGaitResult, adoptGaitTelem, MenuGaits, Maybe
  <2> QED
    BY <1>1, <2>1, <2>2, <2>3, <2>4 DEF MenuFlags, MenuJobs
<1>8. CASE TakeOrder
  <2>1. orders # <<>> /\ orders' = Tail(orders) /\ Head(orders) \in Gaits
        /\ orders' \in Seq(Gaits) /\ Len(orders') = Len(orders) - 1
        /\ Len(orders) \in Nat
    BY <1>1, <1>8, TailIn DEF TakeOrder, MenuWire
  <2> DEFINE refusal == Answer(TRUE, Head(orders), FALSE)
  <2>a. /\ refusal \in Seq(Results \cup Telemetry)
        /\ Len(refusal) \in {Len(answers), Len(answers) + 1}
        /\ Len(answers) \in Nat
    BY <2>1, AnswerFits
  <2>b. answers' = answers \/ answers' = refusal
    BY <1>8 DEF TakeOrder
  <2> HIDE DEF refusal
  <2>2. MenuWire(orders', answers')
    <3>1. CASE answers' = answers
      BY <1>1, <2>1, <2>a, <3>1 DEF MenuWire
    <3>2. CASE answers' = refusal
      BY <1>1, <2>1, <2>a, <3>2 DEF MenuWire
    <3> QED
      BY <2>b, <3>1, <3>2
  <2>3. [gait |-> Head(orders), asker |-> TRUE, told |-> FALSE] \in Jobs
    BY <2>1 DEF Jobs
  <2>4. MenuJobs'
    BY <1>1, <1>8, <2>3 DEF TakeOrder, MenuJobs
  <2> QED
    BY <1>1, <1>8, <2>2, <2>4 DEF TakeOrder, MenuGaits, MenuFlags
<1>9. ASSUME NEW ok \in BOOLEAN, Finish(ok), job # NoGait,
             sent' = sent, astray' = astray, wish' \in {job, NoGait}
      PROVE  MenuGaits' /\ MenuFlags' /\ MenuJobs' /\ MenuWire(orders', answers')
  <2>1. job.gait \in Gaits /\ job.asker \in BOOLEAN
    BY <1>1, <1>9 DEF MenuJobs, Jobs
  <2>2. /\ Answer(job.asker, job.gait, ok) \in Seq(Results \cup Telemetry)
        /\ Len(Answer(job.asker, job.gait, ok)) \in {Len(answers), Len(answers) + 1}
        /\ Len(answers) \in Nat /\ Len(orders) \in Nat
    BY <2>1, AnswerFits
  <2>3. MenuWire(orders', answers')
    BY <1>1, <1>9, <2>2 DEF Finish, Free, MenuWire
  <2>4. MenuJobs'
    BY <1>1, <1>9 DEF Finish, MenuJobs
  <2> QED
    BY <1>1, <1>9, <2>3, <2>4 DEF Finish, MenuGaits, MenuFlags
<1>10. CASE KeepForMarch \/ FinishSwitch
  BY <1>9, <1>10 DEF KeepForMarch, FinishSwitch
<1>11. CASE SendGait
  <2>1. job \in Jobs
    BY <1>1, <1>11 DEF SendGait, MenuJobs
  <2>2. job.gait \in Gaits /\ [job EXCEPT !.told = TRUE] \in Jobs
    BY <2>1 DEF Jobs
  <2>3. MenuJobs' /\ MenuWire(orders', answers')
    BY <1>1, <1>11, <2>2 DEF SendGait, MenuJobs, MenuWire
  <2> QED
    BY <1>1, <1>11, <2>2, <2>3 DEF SendGait, MenuGaits, MenuFlags, Maybe
<1>12. CASE DogTakes
  <2>1. MenuGaits'
    BY <1>1, <1>12 DEF DogTakes, MenuGaits, Maybe
  <2> QED
    BY <1>1, <1>12, <2>1 DEF DogTakes, MenuFlags, MenuJobs, MenuWire
<1>13. CASE StepOn \/ ClearQueued
  <2>1. MenuJobs'
    BY <1>1, <1>13 DEF StepOn, ClearQueued, MenuJobs
  <2> QED
    BY <1>1, <1>13, <2>1 DEF StepOn, ClearQueued, MenuGaits, MenuFlags, MenuWire
<1>14. CASE ReportGait
  <2>1. Reading \in Results \cup Telemetry
    BY <1>1 DEF Reading, Telemetry, MenuGaits
  <2>2. MenuWire(orders', answers')
    BY <1>1, <1>14, <2>1, AppendIn DEF ReportGait, Free, MenuWire
  <2> QED
    BY <1>1, <1>14, <2>2 DEF ReportGait, MenuGaits, MenuFlags, MenuJobs
<1>15. CASE LoseSocket
  <2>1. \A j \in Jobs \cup {NoGait} : Orphan(j) \in Jobs \cup {NoGait}
    BY DEF Orphan, Jobs
  <2>2. MenuJobs'
    BY <1>1, <1>15, <2>1 DEF LoseSocket, MenuJobs
  <2>3. MenuWire(orders', answers')
    BY <1>1, <1>15, EmptyIn DEF LoseSocket, MenuWire
  <2> QED
    BY <1>1, <1>15, <2>2, <2>3 DEF LoseSocket, MenuGaits, MenuFlags
<1>16. CASE OpenSocket \/ UNCHANGED gaitMenuVars
  BY <1>1, <1>16
  DEF OpenSocket, gaitMenuVars, MenuGaits, MenuFlags, MenuJobs, MenuWire
<1> QED
  BY <1>3, <1>4, <1>5, <1>6, <1>7, <1>8, <1>10, <1>11, <1>12, <1>13, <1>14,
     <1>15, <1>16 DEF GaitMenuNext

-------------------------------------------------------------------------------
(***************************************************************************)
(* The sticks.                                                             *)
(***************************************************************************)
SticksHands == stick \in Positions /\ finger \in Positions /\ deadKey \in BOOLEAN
               /\ screen \in Positions /\ ordered \in Positions /\ kind \in Kinds
               /\ hidden \in BOOLEAN /\ driving \in BOOLEAN
SticksRc == plugged \in BOOLEAN /\ reads \in BOOLEAN
            /\ ch \in Positions \cup {"none"} /\ scr \in Positions \cup {"old"}
SticksPad == /\ padSource \in {"none", "pad", "g20"}
             /\ channels \in BOOLEAN /\ layout \in {"none", "bare", "deadman"}
             /\ deadmanOn \in BOOLEAN /\ muted \in BOOLEAN

LEMMA StickTypes == SticksTypeOK <=> SticksHands /\ SticksRc /\ SticksPad
  BY DEF SticksTypeOK, SticksHands, SticksRc, SticksPad

LEMMA SticksKeepTypes ==
  ASSUME SticksTypeOK, [SticksNext]_stickVars
  PROVE  SticksTypeOK'
<1> SUFFICES SticksHands' /\ SticksRc' /\ SticksPad'
  BY DEF SticksTypeOK, SticksHands, SticksRc, SticksPad
<1> USE DEF hands, rc, pad, Positions
<1>1. SticksHands /\ SticksRc /\ SticksPad
  BY StickTypes
<1>2. activeChannels \in Positions /\ effAxes \in Positions
  BY <1>1 DEF activeChannels, effAxes, SticksHands
<1>3. CASE \/ \E p \in Positions : MoveStick(p) \/ Touch(p)
           \/ HoldDeadman \/ Drive \/ Visibility
  <2>1. SticksHands'
    BY <1>1, <1>3
    DEF MoveStick, Touch, HoldDeadman, Drive, Visibility, SticksHands
  <2>2. SticksRc'
    BY <1>1, <1>3 DEF MoveStick, Touch, HoldDeadman, Drive, Visibility, SticksRc
  <2>3. SticksPad'
    BY <1>1, <1>3 DEF MoveStick, Touch, HoldDeadman, Drive, Visibility, SticksPad
  <2> QED
    BY <2>1, <2>2, <2>3
<1>4. CASE setMuted \/ GamepadPanel \/ pollG20 \/ pollPad
  <2>1. SticksHands' /\ SticksRc'
    BY <1>1, <1>4
    DEF setMuted, GamepadPanel, pollG20, pollPad, SticksHands, SticksRc
  <2>2. SticksPad'
    BY <1>1, <1>4
    DEF setMuted, GamepadPanel, pollG20, pollPad, buildCore, SticksPad
  <2> QED
    BY <2>1, <2>2
<1>5. CASE Plug \/ ReadsFail \/ onChannels
  <2>1. SticksHands' /\ SticksPad'
    BY <1>1, <1>5 DEF Plug, ReadsFail, onChannels, SticksHands, SticksPad
  <2>2. SticksRc'
    BY <1>1, <1>5 DEF Plug, ReadsFail, onChannels, SticksHands, SticksRc
  <2> QED
    BY <2>1, <2>2
<1>6. CASE sendVel \/ onTick \/ setScreenAxes \/ ScreenAxesExpire
  <2>1. SticksHands'
    BY <1>1, <1>2, <1>6
    DEF sendVel, onTick, setScreenAxes, ScreenAxesExpire, SticksHands
  <2>2. SticksRc' /\ SticksPad'
    BY <1>1, <1>2, <1>6
    DEF sendVel, onTick, setScreenAxes, ScreenAxesExpire, SticksRc, SticksPad
  <2> QED
    BY <2>1, <2>2
<1>7. CASE UNCHANGED stickVars
  BY <1>1, <1>7 DEF stickVars, SticksHands, SticksRc, SticksPad
<1> QED
  BY <1>3, <1>4, <1>5, <1>6, <1>7 DEF SticksNext, Timers

-------------------------------------------------------------------------------
(***************************************************************************)
(* The queue of the ball's calls.  Without is a recursive function; up to  *)
(* two calls it can be written out.                                        *)
(***************************************************************************)
KeptBy(s, k, f) ==
  f = [n \in 0..Len(s) |->
        IF n = 0 THEN <<>>
        ELSE IF actionKind(s[n]) = k THEN f[n - 1]
        ELSE Append(f[n - 1], s[n])]

LEMMA WithoutIsKept ==
  ASSUME NEW s, NEW k, NEW g, KeptBy(s, k, g)
  PROVE  \E f : KeptBy(s, k, f) /\ Without(s, k) = f[Len(s)]
  BY DEF Without, KeptBy

KeptOne(s, k) == IF actionKind(s[1]) = k THEN <<>> ELSE Append(<<>>, s[1])
KeptTwo(s, k) ==
  IF actionKind(s[2]) = k THEN KeptOne(s, k) ELSE Append(KeptOne(s, k), s[2])

LEMMA WithoutOfTwo ==
  ASSUME NEW s, NEW k, Len(s) \in 0..2
  PROVE  /\ Len(s) = 0 => Without(s, k) = <<>>
         /\ Len(s) = 1 => Without(s, k) = KeptOne(s, k)
         /\ Len(s) = 2 => Without(s, k) = KeptTwo(s, k)
<1> DEFINE g == [n \in 0..Len(s) |->
                   IF n = 0 THEN <<>>
                   ELSE IF n = 1 THEN KeptOne(s, k) ELSE KeptTwo(s, k)]
<1>1. KeptBy(s, k, g)
  <2>1. ASSUME NEW n \in 0..Len(s)
        PROVE  g[n] = IF n = 0 THEN <<>>
                      ELSE IF actionKind(s[n]) = k THEN g[n - 1]
                      ELSE Append(g[n - 1], s[n])
    <3>1. CASE n = 0
      BY <3>1
    <3>2. CASE n = 1
      <4>1. g[n] = KeptOne(s, k) /\ g[n - 1] = <<>> /\ s[n] = s[1]
        BY <3>2
      <4> QED
        BY <3>2, <4>1 DEF KeptOne
    <3>3. CASE n = 2
      <4>1. g[n] = KeptTwo(s, k) /\ g[n - 1] = KeptOne(s, k) /\ s[n] = s[2]
        BY <3>3
      <4> QED
        BY <3>3, <4>1 DEF KeptTwo
    <3> QED
      BY <3>1, <3>2, <3>3
  <2> HIDE DEF g
  <2>2. g = [n \in 0..Len(s) |-> g[n]]
    BY DEF g
  <2> QED
    BY <2>1, <2>2 DEF KeptBy
<1> HIDE DEF g
<1>2. PICK f : KeptBy(s, k, f) /\ Without(s, k) = f[Len(s)]
  BY <1>1, WithoutIsKept
<1>3. ASSUME NEW n \in 0..Len(s)
      PROVE  f[n] = IF n = 0 THEN <<>>
                    ELSE IF actionKind(s[n]) = k THEN f[n - 1]
                    ELSE Append(f[n - 1], s[n])
  BY <1>2 DEF KeptBy
<1>4. f[0] = <<>>
  BY <1>3
<1>5. CASE Len(s) = 0
  BY <1>2, <1>4, <1>5
<1>6. ASSUME Len(s) >= 1 PROVE f[1] = KeptOne(s, k)
  <2>1. 1 \in 0..Len(s) /\ 1 # 0 /\ 1 - 1 = 0
    BY <1>6
  <2>2. f[1] = IF actionKind(s[1]) = k THEN f[0] ELSE Append(f[0], s[1])
    BY <1>3, <2>1
  <2> QED
    BY <1>4, <2>2 DEF KeptOne
<1>7. CASE Len(s) = 1
  BY <1>2, <1>6, <1>7
<1>8. CASE Len(s) = 2
  <2>1. f[2] = KeptTwo(s, k)
    BY <1>3, <1>6, <1>8 DEF KeptTwo
  <2> QED
    BY <1>2, <1>8, <2>1
<1> QED
  BY <1>5, <1>7, <1>8

(***************************************************************************)
(* What waits for the ball: nothing, one call, or a move and a change of   *)
(* the zoom.                                                               *)
(***************************************************************************)
Waits(q) == /\ q \in Seq(Calls) /\ Len(q) \in 0..2
            /\ Len(q) = 2 => actionKind(q[1]) # actionKind(q[2])
                             /\ q[1] # "stop" /\ q[2] # "stop"

LEMMA WithoutLeavesOne ==
  ASSUME NEW q, Waits(q), NEW k \in {"move", "zoom"},
         q # <<>> => q[Len(q)] # "stop"
  PROVE  /\ Without(q, k) \in Seq(Calls) /\ Len(Without(q, k)) \in 0..1
         /\ Len(Without(q, k)) = 1 =>
              actionKind(Without(q, k)[1]) # k /\ Without(q, k)[1] # "stop"
<1>1. CASE Len(q) = 0
  <2>1. Without(q, k) = <<>>
    BY <1>1, WithoutOfTwo
  <2> QED
    BY <2>1
<1>2. CASE Len(q) = 1
  <2>1. q[1] \in Calls /\ q[1] # "stop"
    BY <1>2 DEF Waits
  <2>2. Without(q, k) = KeptOne(q, k)
    BY <1>2, WithoutOfTwo DEF Waits
  <2> QED
    BY <2>1, <2>2, AppendIn DEF KeptOne
<1>3. CASE Len(q) = 2
  <2>1. /\ q[1] \in Calls /\ q[2] \in Calls /\ q[1] # "stop" /\ q[2] # "stop"
        /\ actionKind(q[1]) \in {"move", "zoom"} /\ actionKind(q[2]) \in {"move", "zoom"}
        /\ actionKind(q[1]) # actionKind(q[2])
    <3>1. /\ q[1] \in Calls /\ q[2] \in Calls /\ q[1] # "stop" /\ q[2] # "stop"
          /\ actionKind(q[1]) # actionKind(q[2])
      BY <1>3 DEF Waits
    <3>2. \A c \in Calls \ {"stop"} : actionKind(c) \in {"move", "zoom"}
      BY DEF actionKind, Calls
    <3> QED
      BY <3>1, <3>2
  <2>2. Without(q, k) = KeptTwo(q, k)
    BY <1>3, WithoutOfTwo DEF Waits
  <2>3. \/ Without(q, k) = Append(<<>>, q[1]) /\ actionKind(q[1]) # k
        \/ Without(q, k) = Append(<<>>, q[2]) /\ actionKind(q[2]) # k
    <3>1. CASE actionKind(q[2]) = k
      BY <2>1, <2>2, <3>1 DEF KeptTwo, KeptOne
    <3>2. CASE actionKind(q[2]) # k
      BY <2>1, <2>2, <3>2 DEF KeptTwo, KeptOne
    <3> QED
      BY <3>1, <3>2
  <2>4. \A c \in Calls : /\ Append(<<>>, c) \in Seq(Calls)
                         /\ Len(Append(<<>>, c)) = 1 /\ Append(<<>>, c)[1] = c
    OBVIOUS
  <2>5. PICK c \in Calls : /\ Without(q, k) = Append(<<>>, c)
                           /\ actionKind(c) # k /\ c # "stop"
    BY <2>1, <2>3
  <2> QED
    BY <2>4, <2>5
<1> QED
  BY <1>1, <1>2, <1>3 DEF Waits

BallFlags == /\ g20 \in BOOLEAN /\ armAt \in BOOLEAN /\ lostStop \in BOOLEAN
             /\ mainView \in {"ball", "other"} /\ workMode \in {"inspect", "cannon"}
             /\ webStickTarget \in {"dog", "ptz"}
             /\ ball \in {"still", "turning"}
BallCalls == /\ thumb \in {"mid", "pan", "zoom"} /\ lastMoveKey \in {"mid", "pan", "zoom"}
             /\ Waits(fireQueue) /\ fetching \in Calls \cup {"none"}
BallInv == BallFlags /\ BallCalls

LEMMA BallTypes == BallInv => BallTypeOK
  BY DEF BallTypeOK, BallInv, BallFlags, BallCalls, Waits

LEMMA FireFits ==
  ASSUME Waits(fireQueue), lostStop \in BOOLEAN, NEW call \in Calls,
         fire(call) \/ quiet
  PROVE  Waits(fireQueue') /\ lostStop' \in BOOLEAN
<1>1. CASE quiet
  BY <1>1 DEF quiet
<1>2. CASE fire(call)
  <2> DEFINE waiting == IF fireQueue # <<>> /\ fireQueue[Len(fireQueue)] = "stop"
                          THEN <<>> ELSE fireQueue
             rest == Without(waiting, actionKind(call))
  <2>1. lostStop' \in BOOLEAN
    BY <1>2 DEF fire
  <2>2. CASE call = "stop"
    <3>1. fireQueue' = <<"stop">>
      BY <1>2, <2>2 DEF fire
    <3> QED
      BY <2>1, <3>1 DEF Waits, Calls
  <2>3. CASE call # "stop"
    <3>1. fireQueue' = Append(rest, call)
      BY <1>2, <2>3 DEF fire
    <3>2. Waits(waiting) /\ (waiting # <<>> => waiting[Len(waiting)] # "stop")
      BY DEF Waits
    <3>3. actionKind(call) \in {"move", "zoom"}
      BY <2>3 DEF actionKind, Calls
    <3> HIDE DEF waiting
    <3>4. /\ rest \in Seq(Calls) /\ Len(rest) \in 0..1
          /\ Len(rest) = 1 => actionKind(rest[1]) # actionKind(call) /\ rest[1] # "stop"
      BY <3>2, <3>3, WithoutLeavesOne
    <3> HIDE DEF rest
    <3>5. /\ Append(rest, call) \in Seq(Calls)
          /\ Len(Append(rest, call)) = Len(rest) + 1
          /\ Append(rest, call)[Len(rest) + 1] = call
          /\ Len(rest) = 1 => Append(rest, call)[1] = rest[1]
      BY <3>4
    <3> QED
      BY <2>1, <2>3, <3>1, <3>4, <3>5 DEF Waits
  <2> QED
    BY <2>2, <2>3
<1> QED
  BY <1>1, <1>2

LEMMA MoveFits ==
  ASSUME BallInv, NEW p \in {"mid", "pan", "zoom"}, move(p) \/ Release
  PROVE  /\ Waits(fireQueue') /\ lostStop' \in BOOLEAN
         /\ armAt' \in BOOLEAN /\ lastMoveKey' \in {"mid", "pan", "zoom"}
<1>1. /\ \E call \in Calls : fire(call) \/ quiet
      /\ armAt' \in BOOLEAN /\ lastMoveKey' \in {"mid", "pan", "zoom"}
  BY DEF BallInv, BallFlags, BallCalls, move, Release, Arm, Turn, Calls
<1> QED
  BY <1>1, FireFits DEF BallInv, BallFlags, BallCalls

LEMMA BallKeepsTypes ==
  ASSUME BallInv, [BallNext]_ballVars
  PROVE  BallInv'
<1> SUFFICES BallFlags' /\ BallCalls'
  BY DEF BallInv
<1> USE DEF asks, tells
<1>1. BallFlags /\ BallCalls
  BY DEF BallInv
<1>2. CASE sendAuxPayload
  <2>1. PICK p \in {"mid", "pan", "zoom"} : move(p)
    BY <1>1, <1>2 DEF sendAuxPayload, auxStick, BallCalls
  <2> QED
    BY <1>1, <1>2, <2>1, MoveFits DEF sendAuxPayload, BallFlags, BallCalls
<1>3. ASSUME NEW v \in {"ball", "other"}, applyBallLayout(v)
      PROVE  BallFlags' /\ BallCalls'
  <2>1. /\ Waits(fireQueue') /\ lostStop' \in BOOLEAN
        /\ armAt' \in BOOLEAN /\ lastMoveKey' \in {"mid", "pan", "zoom"}
    BY <1>1, <1>3, MoveFits DEF applyBallLayout, quiet, BallFlags, BallCalls
  <2> QED
    BY <1>1, <1>3, <2>1 DEF applyBallLayout, BallFlags, BallCalls
<1>4. CASE setPip
  <2>1. Waits(fireQueue') /\ lostStop' \in BOOLEAN
    BY <1>1, <1>4, FireFits DEF setPip, Calls, BallFlags, BallCalls
  <2> QED
    BY <1>1, <1>4, <2>1 DEF setPip, BallFlags, BallCalls
<1>5. CASE drainFire
  <2>1. /\ Waits(Tail(fireQueue)) /\ Head(fireQueue) \in Calls
    BY <1>1, <1>5, TailIn DEF drainFire, BallCalls, Waits
  <2> QED
    BY <1>1, <1>5, <2>1 DEF drainFire, BallFlags, BallCalls
<1>6. CASE fetchReaches \/ fetchFails
  BY <1>1, <1>6 DEF fetchReaches, fetchFails, BallFlags, BallCalls
<1>7. CASE \/ \E p \in {"mid", "pan", "zoom"} : MoveThumb(p)
           \/ PlugG20 \/ Chip
           \/ \E m \in {"inspect", "cannon"} : setWorkMode(m)
  <2>1. BallFlags'
    BY <1>1, <1>7 DEF MoveThumb, PlugG20, Chip, ChipStick, setWorkMode, BallFlags
  <2>2. BallCalls'
    BY <1>1, <1>7 DEF MoveThumb, PlugG20, Chip, setWorkMode, BallCalls
  <2> QED
    BY <2>1, <2>2
<1>8. CASE UNCHANGED ballVars
  BY <1>1, <1>8 DEF ballVars, BallFlags, BallCalls
<1> QED
  BY <1>2, <1>3, <1>4, <1>5, <1>6, <1>7, <1>8 DEF BallNext

-------------------------------------------------------------------------------
(***************************************************************************)
(* The App's pictures: a handler posts two calls at most.                  *)
(***************************************************************************)
PictureFlags == /\ radio24 \in BOOLEAN /\ seen \in BOOLEAN /\ frame \in BOOLEAN
                /\ active \in BOOLEAN /\ mainId \in {"ptz_vis", "dog_cam", "cloud"}
                /\ errors \in 0..MaxErrors
PicturePage == /\ wantedNow \in BOOLEAN /\ meshRelayFailed \in BOOLEAN
               /\ playKeyNow \in Streams \cup {""}
PictureNative == /\ natWanted \in BOOLEAN /\ retry \in BOOLEAN
                 /\ natUrl \in Streams \cup {""} /\ player \in {"none", "up", "broken"}
Batches == Seq(Streams \cup {"stop"})
PictureCalls == calls \in Seq(Streams \cup {"stop"}) /\ Len(calls) <= MaxCalls

LEMMA PictureTypes ==
  PicturesTypeOK <=> PictureFlags /\ PicturePage /\ PictureNative /\ PictureCalls
  BY DEF PicturesTypeOK, PictureFlags, PicturePage, PictureNative, PictureCalls

LEMMA KeyIsAStream ==
  ASSUME NEW id \in {"ptz_vis", "dog_cam", "cloud"}, NEW r \in BOOLEAN, NEW f \in BOOLEAN,
         NEW b \in BOOLEAN, wantsVideo(id, b)
  PROVE  playKey(id, r, f) \in Streams
  BY DEF playKey, wantsVideo, Streams

LEMMA RoomForTwo ==
  ASSUME PictureCalls, Roomy, NEW posted1 \in Batches, Len(posted1) <= 1,
         NEW more \in Batches, Len(more) <= 1,
         calls' = calls \o posted1 \o more \/ calls' = calls \o posted1
  PROVE  PictureCalls'
<1>1. /\ MaxCalls \in Nat /\ calls \in Batches /\ Len(calls) + 2 <= MaxCalls
      /\ Len(calls) \in Nat /\ Len(posted1) \in Nat /\ Len(more) \in Nat
  BY PicturesAssumption DEF PicturesAssumption, PictureCalls, Roomy, Batches
<1>2. calls \o posted1 \in Batches /\ Len(calls \o posted1) = Len(calls) + Len(posted1)
  BY <1>1, JoinIn DEF Batches
<1>3. /\ calls \o posted1 \o more \in Batches
      /\ Len(calls \o posted1 \o more) = Len(calls \o posted1) + Len(more)
  BY <1>2, JoinIn DEF Batches
<1>4. Len(calls') <= MaxCalls
  BY <1>1, <1>2, <1>3
<1> QED
  BY <1>2, <1>3, <1>4 DEF PictureCalls, Batches

LEMMA OneCall ==
  /\ <<>> \in Batches /\ Len(<<>>) <= 1
  /\ \A c \in Streams \cup {"stop"} : <<c>> \in Batches /\ Len(<<c>>) <= 1
  BY EmptyIn, OneIn DEF Batches

LEMMA SyncPosts ==
  ASSUME PictureCalls, Roomy, mainId' \in {"ptz_vis", "dog_cam", "cloud"},
         seen' \in BOOLEAN, radio24' \in BOOLEAN,
         NEW posted1 \in Batches, Len(posted1) <= 1, NEW on \in BOOLEAN,
         NEW key \in Streams \cup {""}, NEW failed \in BOOLEAN
  PROVE  sync(posted1, on, key, failed) \/ stop(posted1) => PicturePage' /\ PictureCalls'
<1>1. ASSUME NEW c \in Streams \cup {"stop"}
      PROVE  <<c>> \in Batches /\ Len(<<c>>) <= 1
  BY OneCall
<1>2. <<>> \in Batches /\ Len(<<>>) <= 1
  BY OneCall
<1>3. ASSUME stop(posted1) PROVE PicturePage' /\ PictureCalls'
  <2>1. PicturePage'
    BY <1>3 DEF stop, PicturePage
  <2>2. calls' = calls \o posted1 \o <<"stop">>
    BY <1>3 DEF stop
  <2>3. PictureCalls'
    BY <1>1, <2>2, RoomForTwo
  <2> QED
    BY <2>1, <2>3
<1>4. ASSUME sync(posted1, on, key, failed), ~wantsVideo(mainId', seen')
      PROVE  PicturePage' /\ PictureCalls'
  <2>1. CASE on
    BY <1>3, <1>4, <2>1 DEF sync
  <2>2. CASE ~on
    <3>1. PicturePage' /\ calls' = calls \o posted1
      BY <1>4, <2>2 DEF sync, PicturePage
    <3> QED
      BY <1>2, <3>1, RoomForTwo
  <2> QED
    BY <2>1, <2>2
<1>5. ASSUME sync(posted1, on, key, failed), wantsVideo(mainId', seen')
      PROVE  PicturePage' /\ PictureCalls'
  <2> DEFINE want == playKey(mainId', radio24', failed)
             more == IF on /\ key = want THEN <<>> ELSE <<want>>
  <2>1. want \in Streams
    BY <1>5, KeyIsAStream
  <2>2. PicturePage'
    BY <1>5, <2>1 DEF sync, PicturePage
  <2>3. calls' = calls \o posted1 \o more
    BY <1>5 DEF sync
  <2>4. more \in Batches /\ Len(more) <= 1
    <3> HIDE DEF want
    <3>1. CASE on /\ key = want
      BY <1>2, <3>1
    <3>2. CASE ~(on /\ key = want)
      BY <1>1, <2>1, <3>2
    <3> QED
      BY <3>1, <3>2
  <2> HIDE DEF more
  <2> QED
    BY <2>2, <2>3, <2>4, RoomForTwo
<1> QED
  BY <1>3, <1>4, <1>5

LEMMA PicturesKeepTypes ==
  ASSUME PicturesTypeOK, [PicturesNext]_pictureVars
  PROVE  PicturesTypeOK'
<1>0. /\ PictureFlags /\ PicturePage /\ PictureNative /\ PictureCalls
      /\ MaxErrors \in Nat
  BY PictureTypes, PicturesAssumption DEF PicturesAssumption
<1> SUFFICES PictureFlags' /\ PicturePage' /\ PictureNative' /\ PictureCalls'
  BY PictureTypes, PTL
<1>e. /\ <<>> \in Batches /\ Len(<<>>) <= 1
      /\ <<"stop">> \in Batches /\ Len(<<"stop">>) <= 1
  BY OneCall
<1> USE DEF pageSide, nativeSide
<1>1. CASE \E id \in {"ptz_vis", "dog_cam", "cloud"} : selectView(id)
  BY <1>0, <1>1
  DEF selectView, PictureFlags, PicturePage, PictureNative, PictureCalls
<1>2. CASE onStageLayout \/ Show
  <2>1. PictureFlags' /\ PictureNative'
    BY <1>0, <1>2 DEF onStageLayout, Show, PictureFlags, PictureNative
  <2>2. /\ Roomy /\ Resync /\ mainId' \in {"ptz_vis", "dog_cam", "cloud"}
        /\ seen' \in BOOLEAN /\ radio24' \in BOOLEAN
    BY <1>2, <2>1 DEF onStageLayout, Show, PictureFlags
  <2> QED
    BY <1>0, <2>1, <2>2, SyncPosts, <1>e DEF Resync, PicturePage
<1>3. CASE AdoptPath \/ Timer
  <2>1. PICK r \in BOOLEAN : onRadioPath(r)
    BY <1>0, <1>3 DEF AdoptPath, Timer, PictureFlags
  <2>2. PictureFlags' /\ PictureNative'
    BY <1>0, <2>1 DEF onRadioPath, PictureFlags, PictureNative
  <2>3. /\ Roomy /\ sync(<<>>, wantedNow, playKeyNow, FALSE)
        /\ mainId' \in {"ptz_vis", "dog_cam", "cloud"}
        /\ seen' \in BOOLEAN /\ radio24' \in BOOLEAN
    BY <2>1, <2>2 DEF onRadioPath, PictureFlags
  <2> QED
    BY <1>0, <2>2, <2>3, SyncPosts, <1>e DEF PicturePage
<1>4. CASE setUrl
  <2>1. PictureFlags' /\ PictureNative'
    BY <1>0, <1>4 DEF setUrl, PictureFlags, PictureNative
  <2>2. /\ Roomy /\ sync(<<"stop">>, FALSE, "", FALSE)
        /\ mainId' \in {"ptz_vis", "dog_cam", "cloud"}
        /\ seen' \in BOOLEAN /\ radio24' \in BOOLEAN
    BY <1>4, <2>1 DEF setUrl, PictureFlags
  <2> QED
    BY <1>0, <2>1, <2>2, SyncPosts, <1>e
<1>5. CASE Hide
  <2>1. PictureFlags' /\ PictureNative'
    BY <1>0, <1>5 DEF Hide, PictureFlags, PictureNative
  <2>2. /\ Roomy /\ stop(<<>>)
        /\ mainId' \in {"ptz_vis", "dog_cam", "cloud"}
        /\ seen' \in BOOLEAN /\ radio24' \in BOOLEAN
    BY <1>5, <2>1 DEF Hide, PictureFlags
  <2> QED
    BY <1>0, <2>1, <2>2, SyncPosts, <1>e
<1>6. CASE onState
  <2>1. errors \in 0..MaxErrors /\ errors > 0 /\ errors' = errors - 1
    BY <1>0, <1>6 DEF onState, PictureFlags
  <2>2. errors' \in 0..MaxErrors
    BY <1>0, <2>1
  <2>3. PictureFlags' /\ PictureNative'
    BY <1>0, <1>6, <2>2 DEF onState, PictureFlags, PictureNative
  <2>4. /\ Roomy /\ mainId' \in {"ptz_vis", "dog_cam", "cloud"}
        /\ seen' \in BOOLEAN /\ radio24' \in BOOLEAN
        /\ \/ sync(<<>>, wantedNow, "", TRUE)
           \/ UNCHANGED <<wantedNow, playKeyNow, meshRelayFailed, calls>>
    BY <1>6, <2>3 DEF onState, PictureFlags
  <2>5. CASE sync(<<>>, wantedNow, "", TRUE)
    BY <1>0, <2>3, <2>4, <2>5, SyncPosts, <1>e DEF PicturePage
  <2>6. CASE UNCHANGED <<wantedNow, playKeyNow, meshRelayFailed, calls>>
    BY <1>0, <2>3, <2>6 DEF PicturePage, PictureCalls
  <2> QED
    BY <2>4, <2>5, <2>6
<1>7. CASE RunPosted
  <2>1. /\ calls' \in Batches /\ Len(calls') = Len(calls) - 1 /\ Len(calls) \in Nat
        /\ Head(calls) \in Streams \cup {"stop"}
    BY <1>0, <1>7, TailIn DEF RunPosted, PictureCalls, Batches
  <2>2. PictureCalls'
    <3>1. MaxCalls \in Nat /\ Len(calls) <= MaxCalls
      BY <1>0, PicturesAssumption DEF PicturesAssumption, PictureCalls
    <3>2. Len(calls') <= MaxCalls
      BY <2>1, <3>1
    <3> QED
      BY <2>1, <3>2 DEF PictureCalls, Batches
  <2>3. PictureFlags' /\ PicturePage'
    BY <1>0, <1>7 DEF RunPosted, PictureFlags, PicturePage
  <2>4. PictureNative'
    BY <1>0, <1>7, <2>1
    DEF RunPosted, nativeStop, start, openStream, PictureNative
  <2> QED
    BY <2>2, <2>3, <2>4
<1>8. CASE onPlayerError
  <2>1. errors' \in 0..MaxErrors
    BY <1>0, <1>8 DEF onPlayerError, PictureFlags
  <2> QED
    BY <1>0, <1>8, <2>1
    DEF onPlayerError, PictureFlags, PicturePage, PictureNative, PictureCalls
<1>9. CASE Retry \/ Reopen \/ pauseForBackground \/ resumeIfWanted
  <2>1. PictureFlags' /\ PictureCalls'
    BY <1>0, <1>9
    DEF Retry, Reopen, pauseForBackground, resumeIfWanted, PictureFlags, PictureCalls
  <2>2. PicturePage' /\ PictureNative'
    BY <1>0, <1>9
    DEF Retry, Reopen, openStream, pauseForBackground, resumeIfWanted,
        PicturePage, PictureNative
  <2> QED
    BY <2>1, <2>2
<1>10. CASE UNCHANGED pictureVars
  <2>1. PictureFlags' /\ PictureCalls'
    BY <1>0, <1>10 DEF pictureVars, PictureFlags, PictureCalls
  <2>2. PicturePage' /\ PictureNative'
    BY <1>0, <1>10 DEF pictureVars, PicturePage, PictureNative
  <2> QED
    BY <2>1, <2>2
<1> QED
  BY <1>1, <1>2, <1>3, <1>4, <1>5, <1>6, <1>7, <1>8, <1>9, <1>10
  DEF PicturesNext, FromPage

-------------------------------------------------------------------------------
(***************************************************************************)
(* A browser's tile.                                                       *)
(***************************************************************************)
TileCounts == pulls \in [Paths -> 0..MaxPulls]
TileFlags == idle \in BOOLEAN /\ crossed \in BOOLEAN /\ tabHidden \in BOOLEAN
TileNames == /\ plan \in Plans \cup {NoPlan}
             /\ pcs \in Paths \cup {"none"} /\ playingPath \in Paths \cup {"none"}

LEMMA TileTypes == TilesTypeOK <=> TileCounts /\ TileFlags /\ TileNames
  BY DEF TilesTypeOK, TileCounts, TileFlags, TileNames

LEMMA TilesBeginTyped == TilesInit => TilesTypeOK
<1>1. TilesInit => TileCounts
  BY TilesAssumption DEF TilesInit, TilesAssumption, TileCounts
<1>2. TilesInit => TileFlags /\ TileNames
  BY DEF TilesInit, TileFlags, TileNames
<1> QED
  BY <1>1, <1>2, TileTypes

LEMMA TilesKeepTypes ==
  ASSUME TilesTypeOK, [TilesNext]_tilesVars
  PROVE  TilesTypeOK'
<1>0. TileCounts /\ TileFlags /\ TileNames
  BY TileTypes
<1> SUFFICES TileCounts' /\ TileFlags' /\ TileNames'
  BY TileTypes, PTL
<1> USE <1>0 DEF TileCounts, TileFlags, TileNames
<1>1. ASSUME NEW path \in Paths, playTile(path)
      PROVE  /\ TileCounts'
             /\ idle' \in BOOLEAN /\ crossed' \in BOOLEAN
             /\ pcs' \in Paths \cup {"none"} /\ playingPath' \in Paths \cup {"none"}
  <2>1. TileCounts'
    BY <1>1, TilesAssumption DEF playTile, tile, TilesAssumption
  <2>2. idle' \in BOOLEAN /\ crossed' \in BOOLEAN
    BY <1>1 DEF playTile, tile
  <2> QED
    BY <1>1, <2>1, <2>2 DEF playTile, tile
<1>2. ASSUME NEW p \in Plans, onMediaPlan(p)
      PROVE  TileCounts' /\ TileFlags' /\ TileNames'
  <2>1. CASE p.main
    BY <1>1, <1>2, <2>1 DEF onMediaPlan, renderMediaPanel, Plans
  <2>2. CASE ~p.main
    BY <1>2, <2>2 DEF onMediaPlan, renderMediaPanel, tile
  <2> QED
    BY <2>1, <2>2
<1>3. CASE syncTiles
  BY <1>1, <1>3 DEF syncTiles, Plans
<1>4. ASSUME NEW path \in Paths, whepPlayKept(path) \/ whepPlayBroken(path)
      PROVE  TileCounts' /\ TileFlags' /\ TileNames'
  <2>1. TileCounts'
    BY <1>4, TilesAssumption
    DEF whepPlayKept, whepPlayBroken, PullEnds, TilesAssumption
  <2>2. TileFlags' /\ TileNames'
    BY <1>4 DEF whepPlayKept, whepPlayBroken, PullEnds
  <2> QED
    BY <2>1, <2>2
<1>5. CASE HideTab
  BY <1>5 DEF HideTab
<1>6. CASE ShowTab
  <2>1. CASE plan \in Plans /\ plan.main
    BY <1>1, <1>6, <2>1 DEF ShowTab, renderMediaPanel, tile, Plans
  <2>2. CASE plan = NoPlan \/ ~plan.main
    BY <1>6, <2>2 DEF ShowTab, renderMediaPanel, tile
  <2> QED
    BY <2>1, <2>2
<1>7. CASE UNCHANGED tilesVars
  BY <1>7 DEF tilesVars, tile
<1> QED
  BY <1>2, <1>3, <1>4, <1>5, <1>6, <1>7 DEF TilesNext

(***************************************************************************)
(* The types of renderMediaPanel's argument and of every field.            *)
(***************************************************************************)
THEOREM TilesTypeCorrect == TilesSpec => []TilesTypeOK
  BY TilesBeginTyped, TilesKeepTypes, PTL DEF TilesSpec

(***************************************************************************)
(* Why the tile ends up right: a tile that is not idle has been told to    *)
(* play what the plan says; what it was told to play is there or under     *)
(* way; and without a crossing nothing else is.                            *)
(***************************************************************************)
Told == ~tabHidden /\ plan.main /\ ~idle => playingPath = plan.path

Coming == playingPath # "none" => pcs # "none" \/ UnderWay # {}

NothingElse ==
  ~crossed /\ playingPath # "none" =>
    UnderWay \subseteq {playingPath} /\ pcs \in {"none", playingPath}

TileInv == TilesTypeOK /\ Told /\ Coming /\ NothingElse

(***************************************************************************)
(* playTile leaves the tile as it should be, whoever calls it.             *)
(***************************************************************************)
LEMMA PlayTileTells ==
  ASSUME TileInv, NEW path \in Paths, playTile(path)
  PROVE  /\ playingPath' = path
         /\ Coming' /\ NothingElse'
<1> USE TilesAssumption DEF TileInv, TilesTypeOK, Coming, NothingElse, UnderWay
<1>1. CASE pcs # "none" /\ playingPath = path
  BY <1>1 DEF playTile, tile
<1>2. CASE ~(pcs # "none" /\ playingPath = path)
  <2>1. /\ pcs' = "none" /\ playingPath' = path
        /\ pulls' = [pulls EXCEPT ![path] = @ + 1]
        /\ crossed' = (UnderWay \ {path} # {} \/ (crossed /\ UnderWay # {}))
    BY <1>2 DEF playTile
  <2>2. path \in UnderWay'
    BY <2>1
  <2>3. \A p \in UnderWay' : p = path \/ p \in UnderWay
    BY <2>1
  <2>4. ~crossed' => UnderWay' \subseteq {path}
    BY <2>1, <2>3
  <2> QED
    BY <2>1, <2>2, <2>4
<1> QED
  BY <1>1, <1>2

(***************************************************************************)
(* The end of a pull, kept or broken.                                      *)
(***************************************************************************)
LEMMA PullEndsWell ==
  ASSUME TileInv, NEW path \in Paths,
         whepPlayKept(path) \/ whepPlayBroken(path)
  PROVE  Told' /\ Coming' /\ NothingElse'
<1> USE TilesAssumption DEF TileInv, TilesTypeOK, Told, Coming, NothingElse, UnderWay
<1>1. /\ path \in UnderWay
      /\ UnderWay' \subseteq UnderWay
      /\ UNCHANGED <<plan, crossed, tabHidden>>
  BY DEF whepPlayKept, whepPlayBroken, PullEnds
<1>2. CASE whepPlayKept(path)
  BY <1>1, <1>2 DEF whepPlayKept
<1>3. CASE whepPlayBroken(path)
  BY <1>1, <1>3 DEF whepPlayBroken
<1> QED
  BY <1>2, <1>3

(***************************************************************************)
(* Every step of tile, plan and pulls keeps it right.                      *)
(***************************************************************************)
LEMMA TilesStayRight ==
  ASSUME TileInv, TilesTypeOK', [TilesNext]_tilesVars
  PROVE  TileInv'
<1> SUFFICES Told' /\ Coming' /\ NothingElse'
  BY DEF TileInv
<1> USE TilesAssumption DEF TileInv, TilesTypeOK, Plans, NoPlan
<1>1. ASSUME NEW p \in Plans, onMediaPlan(p)
      PROVE  Told' /\ Coming' /\ NothingElse'
  <2>1. CASE p.main
    BY <1>1, <2>1, PlayTileTells DEF onMediaPlan, renderMediaPanel, Told
  <2>2. CASE ~p.main
    BY <1>1, <2>2
    DEF onMediaPlan, renderMediaPanel, tile, Told, Coming, NothingElse, UnderWay
  <2> QED
    BY <2>1, <2>2
<1>2. CASE syncTiles
  BY <1>2, PlayTileTells DEF syncTiles, Told
<1>3. ASSUME NEW path \in Paths, whepPlayKept(path) \/ whepPlayBroken(path)
      PROVE  Told' /\ Coming' /\ NothingElse'
  BY <1>3, PullEndsWell
<1>4. CASE HideTab
  BY <1>4 DEF HideTab, Told, Coming, NothingElse, UnderWay
<1>5. CASE ShowTab
  <2>1. CASE plan.main
    BY <1>5, <2>1, PlayTileTells DEF ShowTab, renderMediaPanel, Told
  <2>2. CASE ~plan.main
    BY <1>5, <2>2
    DEF ShowTab, renderMediaPanel, tile, Told, Coming, NothingElse, UnderWay
  <2> QED
    BY <2>1, <2>2
<1>6. CASE UNCHANGED tilesVars
  BY <1>6 DEF tilesVars, tile, Told, Coming, NothingElse, UnderWay
<1> QED
  BY <1>1, <1>2, <1>3, <1>4, <1>5, <1>6 DEF TilesNext

LEMMA TilesBeginRight == TilesInit /\ TilesTypeOK => TileInv
  BY DEF TilesInit, TileInv, Told, Coming, NothingElse, NoPlan

LEMMA ShownByTileInv == TileInv => TileShowsPlan
  BY TilesAssumption
  DEF TileInv, TilesTypeOK, Told, Coming, NothingElse, TileShowsPlan, Plans, NoPlan

(***************************************************************************)
(* The tile of a visible page shows, or is about to show, the stream of    *)
(* its plan, unless pulls of two streams were under way together.          *)
(***************************************************************************)
THEOREM TileIsRight == TilesSpec => []TileShowsPlan
<1>1. TilesInit /\ TilesTypeOK => TileInv
  BY TilesBeginRight
<1>2. TileInv /\ TilesTypeOK' /\ [TilesNext]_tilesVars => TileInv'
  BY TilesStayRight
<1>3. TileInv => TileShowsPlan
  BY ShownByTileInv
<1> QED
  BY <1>1, <1>2, <1>3, TilesTypeCorrect, PTL DEF TilesSpec

-------------------------------------------------------------------------------
(***************************************************************************)
(* The settings: a save that is kept for later has its place on the wire,  *)
(* and a broken wire holds nothing.                                        *)
(***************************************************************************)
ToGateway == {"claim", "yield", "config_get", "config_set"}
ToConsole == {"have", "lost", "config", "saved", "restarting", "refused", "bad_token"}
SaveForm == /\ panel \in BOOLEAN /\ current \in BOOLEAN /\ changed \in BOOLEAN
            /\ saveArmed \in BOOLEAN /\ saveOff \in BOOLEAN
SaveState == /\ saving \in BOOLEAN /\ pendingDiff \in BOOLEAN
             /\ waitingRestart \in BOOLEAN /\ forsaken \in BOOLEAN
             /\ flushTimers \in 0..MaxFlush
SaveGateway == hasCtl \in BOOLEAN /\ wire \in BOOLEAN /\ restartDue \in BOOLEAN
               /\ gwHolder \in {"none", "me", "other"}
SaveWire(u, d) == /\ u \in Seq(ToGateway) /\ d \in Seq(ToConsole)
                  /\ Len(u) + Len(d) <= MaxWire + 1
SaveInv == /\ SaveForm /\ SaveState /\ SaveGateway /\ SaveWire(toGw, toPage)
           /\ pendingDiff => Len(toGw) + Len(toPage) <= MaxWire
           /\ ~wire => toGw = <<>> /\ toPage = <<>>

LEMMA SaveTypes == SaveInv => SettingsTypeOK
  BY DEF SaveInv, SettingsTypeOK, SaveForm, SaveState, SaveGateway, SaveWire, ToGateway, ToConsole

(***************************************************************************)
(* The page sends: with room for it, or the save that was kept.            *)
(***************************************************************************)
LEMMA SettingsSent ==
  ASSUME SaveInv, NEW m \in ToGateway, sendFn(m), Space, UNCHANGED <<wire, toPage>>
  PROVE  /\ SaveWire(toGw', toPage') /\ Len(toGw') + Len(toPage') <= MaxWire
         /\ ~wire' => toGw' = <<>> /\ toPage' = <<>>
<1>0. /\ MaxWire \in Nat /\ toGw \in Seq(ToGateway) /\ toPage \in Seq(ToConsole)
      /\ Len(toGw) + Len(toPage) < MaxWire /\ Len(toPage) \in Nat /\ Len(toGw) \in Nat
  BY SettingsAssumption DEF SettingsAssumption, SaveInv, SaveWire, Space
<1>1. CASE wire
  <2>1. toGw' = Append(toGw, m) /\ Len(toGw') = Len(toGw) + 1 /\ toGw' \in Seq(ToGateway)
    BY <1>0, <1>1, AppendIn DEF sendFn
  <2>2. Len(toGw') + Len(toPage') <= MaxWire
    BY <1>0, <2>1
  <2> QED
    BY <1>0, <1>1, <2>1, <2>2 DEF SaveWire
<1>2. CASE ~wire
  BY <1>0, <1>2 DEF SaveInv, SaveWire, sendFn
<1> QED
  BY <1>1, <1>2

LEMMA SaveFlushed ==
  ASSUME SaveInv, NEW d, d = toPage \/ (toPage # <<>> /\ d = Tail(toPage)),
         flushPendingSave(pendingDiff), wire' = wire, toPage' = d
  PROVE  /\ SaveWire(toGw', toPage') /\ pendingDiff' = FALSE
         /\ ~wire' => toGw' = <<>> /\ toPage' = <<>>
<1>0. MaxWire \in Nat
  BY SettingsAssumption DEF SettingsAssumption
<1>1. pendingDiff' = FALSE
  BY DEF flushPendingSave
<1>2. d \in Seq(ToConsole) /\ Len(d) \in Nat /\ Len(d) <= Len(toPage) /\ Len(toPage) \in Nat
  <2>1. CASE d = toPage
    BY <2>1 DEF SaveInv, SaveWire
  <2>2. CASE toPage # <<>> /\ d = Tail(toPage)
    BY <2>2, TailIn DEF SaveInv, SaveWire
  <2> QED
    BY <2>1, <2>2
<1>3. CASE wire /\ pendingDiff
  <2>1. toGw' = Append(toGw, "config_set") /\ "config_set" \in ToGateway
    BY <1>3 DEF flushPendingSave, sendFn, ToGateway
  <2>2. toGw' \in Seq(ToGateway) /\ Len(toGw') = Len(toGw) + 1 /\ Len(toGw) \in Nat
    BY <2>1, AppendIn DEF SaveInv, SaveWire
  <2>3. Len(toGw) + Len(toPage) <= MaxWire
    BY <1>3 DEF SaveInv
  <2>4. Len(toGw') + Len(toPage') <= MaxWire + 1
    BY <1>0, <1>2, <2>2, <2>3
  <2> QED
    BY <1>1, <1>2, <1>3, <2>2, <2>4 DEF SaveWire
<1>4. CASE ~(wire /\ pendingDiff)
  <2>1. toGw' = toGw /\ toGw \in Seq(ToGateway) /\ Len(toGw) \in Nat
        /\ Len(toGw) + Len(toPage) <= MaxWire + 1
    BY <1>4 DEF flushPendingSave, sendFn, SaveInv, SaveWire
  <2>2. ~wire' => toGw' = <<>> /\ toPage' = <<>>
    BY <2>1 DEF SaveInv
  <2> QED
    BY <1>0, <1>1, <1>2, <2>1, <2>2 DEF SaveWire
<1> QED
  BY <1>3, <1>4

LEMMA SettingsKeepTypes ==
  ASSUME SaveInv, [SettingsNext]_settingsVars
  PROVE  SaveInv'
<1> DEFINE Fits == /\ SaveWire(toGw', toPage')
                   /\ pendingDiff' => Len(toGw') + Len(toPage') <= MaxWire
                   /\ ~wire' => toGw' = <<>> /\ toPage' = <<>>
<1> SUFFICES SaveForm' /\ SaveState' /\ SaveGateway' /\ Fits
  BY DEF SaveInv, SaveWire, SaveForm, SaveState, SaveGateway
<1> USE DEF form, saves, gwSide
<1>0. MaxWire \in Nat /\ MaxFlush \in Nat /\ MaxWire > 0
  BY SettingsAssumption DEF SettingsAssumption
<1>1. SaveForm /\ SaveState /\ SaveGateway /\ SaveWire(toGw, toPage)
      /\ (pendingDiff => Len(toGw) + Len(toPage) <= MaxWire)
      /\ (~wire => toGw = <<>> /\ toPage = <<>>)
  BY DEF SaveInv
<1>2. CASE openPanel \/ closePanel \/ EditForm
  <2>1. Fits
    BY <1>1, <1>2 DEF openPanel, closePanel, EditForm, SaveWire
  <2>2. SaveForm' /\ SaveGateway'
    BY <1>1, <1>2 DEF openPanel, closePanel, EditForm, SaveForm, SaveGateway
  <2>3. SaveState'
    BY <1>1, <1>2 DEF openPanel, closePanel, EditForm, SaveState
  <2> QED
    BY <2>1, <2>2, <2>3
<1>3. CASE unlock \/ requestCtl
  <2>1. Fits
    BY <1>3, SettingsSent DEF unlock, requestCtl, ToGateway
  <2> QED
    BY <1>1, <1>3, <2>1 DEF unlock, requestCtl, SaveForm, SaveState, SaveGateway
<1>4. CASE save
  <2>0. SaveGateway' /\ UNCHANGED <<panel, current, changed, hasCtl, wire, toPage, gwSide>>
    BY <1>1, <1>4 DEF save, SaveGateway
  <2>1. CASE SaveNothing \/ ArmSave
    <3>1. UNCHANGED <<saves, toGw>>
      BY <2>1 DEF SaveNothing, ArmSave
    <3>2. SaveForm'
      BY <1>1, <2>0, <2>1 DEF SaveNothing, ArmSave, SaveForm
    <3>3. SaveState'
      BY <1>1, <3>1 DEF SaveState
    <3>4. Fits
      BY <1>1, <2>0, <3>1 DEF SaveWire
    <3> QED
      BY <2>0, <3>2, <3>3, <3>4
  <2>2. CASE ConfirmSave
    <3>1. SaveForm'
      BY <1>1, <2>0, <2>2 DEF ConfirmSave, SaveForm
    <3>2. SaveState'
      <4>1. flushTimers' \in 0..MaxFlush
        <5>1. flushTimers \in 0..MaxFlush
          BY <1>1 DEF SaveState
        <5>2. \/ flushTimers' = flushTimers
              \/ flushTimers < MaxFlush /\ flushTimers' = flushTimers + 1
          BY <2>2 DEF ConfirmSave
        <5> QED
          BY <1>0, <5>1, <5>2
      <4>2. pendingDiff' \in BOOLEAN /\ saving' \in BOOLEAN /\ waitingRestart' \in BOOLEAN
        BY <1>1, <2>2 DEF ConfirmSave, SaveState, flushPendingSave
      <4>3. forsaken' \in BOOLEAN
        BY <1>1, <2>2 DEF ConfirmSave
      <4> QED
        BY <4>1, <4>2, <4>3 DEF SaveState
    <3>3. /\ SaveWire(toGw', toPage') /\ Len(toGw') + Len(toPage') <= MaxWire
          /\ ~wire' => toGw' = <<>> /\ toPage' = <<>>
      BY <2>0, <2>2, SettingsSent DEF ConfirmSave, ToGateway, flushPendingSave
    <3> QED
      BY <2>0, <3>1, <3>2, <3>3
  <2> QED
    BY <1>4, <2>1, <2>2 DEF save
<1>5. CASE FlushTimer
  <2>1. Fits
    BY <1>5, SaveFlushed DEF FlushTimer
  <2>2. SaveState'
    <3>1. flushTimers' \in 0..MaxFlush
      BY <1>0, <1>1, <1>5 DEF FlushTimer, SaveState
    <3> QED
      BY <1>1, <1>5, <3>1 DEF FlushTimer, SaveState, flushPendingSave
  <2> QED
    BY <1>1, <1>5, <2>1, <2>2 DEF FlushTimer, SaveForm, SaveGateway
<1>6. CASE Heard
  <2>1. /\ toPage # <<>> /\ toPage' = Tail(toPage) /\ wire
        /\ UNCHANGED <<panel, wire, gwSide, flushTimers>>
    BY <1>1, <1>6 DEF Heard, onControl, onConfig, onConfigSaved, onError, Hear
  <2>2. /\ Tail(toPage) \in Seq(ToConsole) /\ Len(Tail(toPage)) = Len(toPage) - 1
        /\ Len(toPage) \in Nat /\ toGw \in Seq(ToGateway) /\ Len(toGw) \in Nat
        /\ Len(toGw) + Len(toPage) <= MaxWire + 1
    BY <1>1, <2>1, TailIn DEF SaveWire
  <2>3. CASE onControl
    <3>1. Fits
      <4>1. CASE Head(toPage) = "lost"
        BY <2>1, <2>3, <4>1, SaveFlushed DEF onControl
      <4>2. CASE Head(toPage) # "lost"
        <5>1. toGw' = toGw /\ pendingDiff' = pendingDiff
          BY <2>3, <4>2 DEF onControl
        <5> QED
          BY <1>0, <1>1, <2>1, <2>2, <5>1 DEF SaveWire
      <4> QED
        BY <4>1, <4>2
    <3>2. SaveState'
      BY <1>1, <2>1, <2>3 DEF onControl, flushPendingSave, SaveState
    <3> QED
      BY <1>1, <2>1, <2>3, <3>1, <3>2 DEF onControl, SaveForm, SaveGateway
  <2>4. CASE onConfig \/ onConfigSaved \/ onError
    <3>1. /\ toGw' = toGw /\ (pendingDiff' => pendingDiff)
          /\ UNCHANGED <<hasCtl, wire, gwHolder, restartDue>>
      BY <2>1, <2>4 DEF onConfig, onConfigSaved, onError, Ended
    <3>2. Fits
      BY <1>0, <1>1, <2>1, <2>2, <3>1 DEF SaveWire
    <3>3. SaveForm'
      BY <1>1, <2>1, <2>4 DEF onConfig, onConfigSaved, onError, Ended, SaveForm
    <3>4. SaveState'
      BY <1>1, <2>1, <2>4 DEF onConfig, onConfigSaved, onError, Ended, SaveState
    <3> QED
      BY <1>1, <3>1, <3>2, <3>3, <3>4 DEF SaveGateway
  <2> QED
    BY <1>6, <2>3, <2>4 DEF Heard
<1>7. CASE LoseWire \/ ConnectFails \/ RestartGateway
  <2>0. WireCloses /\ gwHolder' \in {"none", "me", "other"} /\ restartDue' \in BOOLEAN
    BY <1>1, <1>7 DEF LoseWire, ConnectFails, RestartGateway, SaveGateway
  <2>1. toGw' = <<>> /\ toPage' = <<>>
    BY <2>0 DEF WireCloses
  <2>2. Fits
    BY <1>0, <2>1, EmptyIn DEF SaveWire
  <2>3. SaveForm' /\ SaveGateway'
    BY <1>1, <2>0 DEF WireCloses, onLinkLost, Ended, SaveForm, SaveGateway
  <2>4. SaveState'
    BY <1>1, <2>0 DEF WireCloses, onLinkLost, Ended, SaveState
  <2> QED
    BY <2>2, <2>3, <2>4
<1>8. CASE OpenWire
  <2>1. /\ toPage' = <<>> /\ wire'
        /\ toGw' = <<>> \/ toGw' = <<"config_get">>
    BY <1>1, <1>8 DEF OpenWire
  <2>2. Fits
    <3>1. <<"config_get">> \in Seq(ToGateway) /\ Len(<<"config_get">>) = 1
      BY DEF ToGateway
    <3>2. CASE toGw' = <<>>
      BY <1>0, <2>1, <3>2, EmptyIn DEF SaveWire
    <3>3. CASE toGw' = <<"config_get">>
      BY <1>0, <2>1, <3>1, <3>3, EmptyIn DEF SaveWire
    <3> QED
      BY <2>1, <3>2, <3>3
  <2> QED
    BY <1>1, <1>8, <2>2 DEF OpenWire, SaveForm, SaveState, SaveGateway
<1>9. CASE GwTakes
  <2>1. /\ toGw # <<>> /\ toGw' = Tail(toGw) /\ wire /\ Head(toGw) \in ToGateway
        /\ UNCHANGED <<form, saves, hasCtl, wire>>
        /\ toGw' \in Seq(ToGateway) /\ Len(toGw') = Len(toGw) - 1 /\ Len(toGw) \in Nat
    BY <1>1, <1>9, TailIn DEF GwTakes, SaveWire
  <2>2. /\ \E m \in ToConsole : toPage' = Append(toPage, m)
        /\ gwHolder' \in {"none", "me", "other"} /\ restartDue' \in BOOLEAN
    BY <1>1, <1>9, <2>1
    DEF GwTakes, Grant, ReleaseControl, HandleConfigGet, HandleConfigSet, Replies,
        ToGateway, ToConsole, SaveGateway
  <2>3. /\ toPage' \in Seq(ToConsole) /\ Len(toPage') = Len(toPage) + 1
        /\ Len(toPage) \in Nat
    BY <1>1, <2>2, AppendIn DEF SaveWire
  <2>4. Fits
    BY <1>0, <1>1, <2>1, <2>3 DEF SaveWire
  <2> QED
    BY <1>1, <2>1, <2>2, <2>4 DEF SaveForm, SaveState, SaveGateway
<1>10. CASE OtherHolds
  <2>1. /\ Space /\ UNCHANGED <<form, saves, hasCtl, wire, toGw, restartDue>>
        /\ gwHolder' \in {"none", "me", "other"}
        /\ \/ wire /\ toPage' = Append(toPage, "lost")
           \/ toPage' = toPage
    BY <1>10 DEF OtherHolds, Replies
  <2>2. Fits
    <3>1. CASE toPage' = toPage
      BY <1>1, <2>1, <3>1 DEF SaveWire
    <3>2. CASE wire /\ toPage' = Append(toPage, "lost")
      <4>1. /\ toPage' \in Seq(ToConsole) /\ Len(toPage') = Len(toPage) + 1
            /\ Len(toPage) \in Nat /\ Len(toGw) \in Nat
        BY <1>1, <3>2, AppendIn DEF SaveWire, ToConsole
      <4> QED
        BY <1>0, <1>1, <2>1, <3>2, <4>1 DEF SaveWire, Space
    <3> QED
      BY <2>1, <3>1, <3>2
  <2> QED
    BY <1>1, <2>1, <2>2 DEF SaveForm, SaveState, SaveGateway
<1>11. CASE UNCHANGED settingsVars
  BY <1>1, <1>11 DEF settingsVars, SaveForm, SaveState, SaveGateway, SaveWire
<1> QED
  BY <1>2, <1>3, <1>4, <1>5, <1>6, <1>7, <1>8, <1>9, <1>10, <1>11 DEF SettingsNext

-------------------------------------------------------------------------------
(***************************************************************************)
(* The cannon.                                                             *)
(***************************************************************************)
CannonHands == /\ pressed \in BOOLEAN /\ home \in BOOLEAN /\ pageHidden \in BOOLEAN
               /\ posted \in Seq(BOOLEAN) /\ Len(posted) <= MaxPosted
CannonPage == /\ cannonMode \in BOOLEAN /\ cannonFiring \in BOOLEAN
              /\ cannonAim \in BOOLEAN /\ cmd \in Cmds
              /\ fresh \in BOOLEAN /\ running \in BOOLEAN
CannonPush == /\ cannonAim \in BOOLEAN /\ cmd \in Cmds
              /\ fresh \in BOOLEAN /\ running \in BOOLEAN
CannonThread == /\ taken \in {<<>>} \cup {<<c>> : c \in Cmds}
                /\ tcp \in {"none", "up", "dead"} /\ sentIdle \in BOOLEAN
CannonOutcome == /\ onWire \in {"none", "open", "shut"} /\ valveOpen \in BOOLEAN
                 /\ shutLost \in BOOLEAN

LEMMA CannonTypes ==
  CannonTypeOK <=> CannonHands /\ CannonPage /\ CannonThread /\ CannonOutcome
  BY DEF CannonTypeOK, CannonHands, CannonPage, CannonThread, CannonOutcome

LEMMA PushFits ==
  ASSUME CannonPage, NEW aim \in BOOLEAN, NEW fires \in BOOLEAN
  PROVE  pushCannon(aim, fires) =>
           cannonAim' \in BOOLEAN /\ cmd' \in Cmds /\ fresh' \in BOOLEAN
           /\ running' \in BOOLEAN
  BY DEF pushCannon, Cmds

LEMMA FireSet ==
  ASSUME CannonPage, NEW on \in BOOLEAN
  PROVE  setCannonFire(on) => CannonPage'
<1> SUFFICES ASSUME setCannonFire(on) PROVE CannonPage'
  OBVIOUS
<1>1. CASE on /\ ~cannonMode
  BY <1>1 DEF setCannonFire, CannonPage
<1>2. CASE ~(on /\ ~cannonMode)
  <2>1. /\ cannonMode' = cannonMode /\ cannonFiring' = on /\ pushCannon(cannonAim, on)
    BY <1>2 DEF setCannonFire
  <2>2. cannonAim \in BOOLEAN
    BY DEF CannonPage
  <2>3. /\ cannonAim' \in BOOLEAN /\ cmd' \in Cmds /\ fresh' \in BOOLEAN
        /\ running' \in BOOLEAN
    BY <2>1, <2>2, PushFits
  <2> QED
    BY <2>1, <2>3 DEF CannonPage
<1> QED
  BY <1>1, <1>2

LEMMA CannonKeepsTypes ==
  ASSUME CannonTypeOK, [CannonNext]_cannonVars
  PROVE  CannonTypeOK'
<1>0. /\ CannonHands /\ CannonPage /\ CannonThread /\ CannonOutcome
      /\ MaxPosted \in Nat \ {0}
  BY CannonTypes, CannonAssumption DEF CannonAssumption
<1> SUFFICES CannonHands' /\ CannonPage' /\ CannonThread' /\ CannonOutcome'
  BY CannonTypes, PTL
<1> USE DEF keys, firePage, firePageLink, cannonLink, outcome
<1>1. CASE PressFire \/ ReleaseFire
  <2>1. CannonHands' /\ CannonThread' /\ CannonOutcome'
    BY <1>0, <1>1
    DEF PressFire, ReleaseFire, CannonHands, CannonThread, CannonOutcome
  <2>2. setCannonFire(TRUE) \/ setCannonFire(FALSE) \/ UNCHANGED firePageLink
    BY <1>1 DEF PressFire, ReleaseFire
  <2>3. CannonPage'
    BY <1>0, <2>2, FireSet DEF CannonPage
  <2> QED
    BY <2>1, <2>3
<1>2. CASE HomeKey \/ onStop
  <2>1. \E on \in BOOLEAN : injectCannonFire(on)
    BY <1>0, <1>2 DEF HomeKey, onStop, CannonHands
  <2>2. posted' \in Seq(BOOLEAN) /\ Len(posted') <= MaxPosted
    BY <1>0, <2>1, AppendIn DEF injectCannonFire, CannonHands
  <2>3. CannonHands' /\ CannonThread'
    BY <1>0, <1>2, <2>2 DEF HomeKey, onStop, CannonHands, CannonThread
  <2>4. CannonPage' /\ CannonOutcome'
    BY <1>0, <1>2 DEF HomeKey, onStop, CannonPage, CannonOutcome
  <2> QED
    BY <2>3, <2>4
<1>3. CASE onCannonFire
  <2>1. posted' \in Seq(BOOLEAN) /\ Len(posted') <= MaxPosted /\ Head(posted) \in BOOLEAN
    BY <1>0, <1>3, TailIn DEF onCannonFire, CannonHands
  <2>2. CannonPage'
    BY <1>0, <1>3, <2>1, FireSet DEF onCannonFire
  <2> QED
    BY <1>0, <1>3, <2>1, <2>2
    DEF onCannonFire, CannonHands, CannonThread, CannonOutcome
<1>4. CASE HidePage \/ EstopStopsFire
  <2>1. setCannonFire(FALSE) \/ UNCHANGED firePageLink
    BY <1>4 DEF HidePage, EstopStopsFire
  <2>2. CannonPage'
    BY <1>0, <2>1, FireSet DEF CannonPage
  <2> QED
    BY <1>0, <1>4, <2>2
    DEF HidePage, EstopStopsFire, CannonHands, CannonThread, CannonOutcome
<1>5. CASE feedCannon \/ \E cannon \in BOOLEAN : leaveCannon(cannon)
  <2>1. CannonPage'
    <3>1. /\ \A aim \in BOOLEAN : pushCannon(aim, cannonFiring) => CannonPush'
          /\ pushCannon(FALSE, FALSE) => CannonPush'
      BY <1>0, PushFits DEF CannonPage, CannonPush
    <3>2. CASE feedCannon
      <4>1. CannonPush' /\ UNCHANGED <<cannonMode, cannonFiring>>
        BY <3>1, <3>2 DEF feedCannon
      <4> QED
        BY <1>0, <4>1 DEF CannonPage, CannonPush
    <3>3. CASE \E cannon \in BOOLEAN : leaveCannon(cannon)
      <4>1. /\ cannonMode' \in BOOLEAN
            /\ \/ CannonPush' /\ cannonFiring' = FALSE
               \/ UNCHANGED <<cannonFiring, cannonAim, cmd, fresh, running>>
        BY <3>1, <3>3 DEF leaveCannon
      <4> QED
        BY <1>0, <4>1 DEF CannonPage, CannonPush
    <3> QED
      BY <1>5, <3>2, <3>3
  <2> QED
    BY <1>0, <1>5, <2>1
    DEF feedCannon, leaveCannon, CannonHands, CannonThread, CannonOutcome
<1>6. CASE Stale
  <2>1. CannonHands' /\ CannonThread'
    BY <1>0, <1>6 DEF Stale, CannonHands, CannonThread
  <2>2. CannonPage' /\ CannonOutcome'
    BY <1>0, <1>6 DEF Stale, CannonPage, CannonOutcome
  <2> QED
    BY <2>1, <2>2
<1>7. CASE Snapshot \/ HangUp \/ connectCannon
  <2>1. CannonThread'
    BY <1>0, <1>7 DEF Snapshot, HangUp, connectCannon, CannonThread, CannonPage
  <2>2. CannonOutcome'
    BY <1>0, <1>7
    DEF Snapshot, HangUp, connectCannon, Written, Refused, Word, CannonOutcome
  <2> QED
    BY <1>0, <1>7, <2>1, <2>2
    DEF Snapshot, HangUp, connectCannon, CannonHands, CannonPage
<1>8. CASE SendSnapshot
  <2>1. WritesSnapshot
    BY <1>8 DEF SendSnapshot
  <2>2. CannonThread'
    BY <1>0, <1>8, <2>1 DEF SendSnapshot, WritesSnapshot, CannonThread
  <2>3. CannonOutcome'
    BY <1>0, <1>8, <2>1
    DEF SendSnapshot, WritesSnapshot, Written, Refused, Word, CannonOutcome
  <2> QED
    BY <1>0, <2>1, <2>2, <2>3 DEF WritesSnapshot, CannonHands, CannonPage
<1>9. CASE CannonReads \/ LineBreaks
  <2>1. CannonHands' /\ CannonPage'
    BY <1>0, <1>9 DEF CannonReads, LineBreaks, CannonHands, CannonPage
  <2>2. CannonThread' /\ CannonOutcome'
    BY <1>0, <1>9 DEF CannonReads, LineBreaks, CannonThread, CannonOutcome
  <2> QED
    BY <2>1, <2>2
<1>10. CASE UNCHANGED cannonVars
  <2>1. CannonHands' /\ CannonPage'
    BY <1>0, <1>10 DEF cannonVars, CannonHands, CannonPage
  <2>2. CannonThread' /\ CannonOutcome'
    BY <1>0, <1>10 DEF cannonVars, CannonThread, CannonOutcome
  <2> QED
    BY <2>1, <2>2
<1> QED
  BY <1>1, <1>2, <1>3, <1>4, <1>5, <1>6, <1>7, <1>8, <1>9, <1>10 DEF CannonNext

-------------------------------------------------------------------------------
(***************************************************************************)
(* The main view: the mail leaves room for the reports under way, and is   *)
(* lost with the connection.                                               *)
(***************************************************************************)
ViewFlags == /\ measured \in [Consoles -> BOOLEAN] /\ layoutDue \in [Consoles -> BOOLEAN]
             /\ linked \in [Consoles -> BOOLEAN] /\ knownH265 \in [Consoles -> BOOLEAN]
ViewState == /\ shownView \in [Consoles -> Views]
             /\ reports \in [Consoles -> 0..MaxReports]
             /\ blanks \in [Consoles -> 0..MaxBlanks]
             /\ chosen \in [Consoles -> Selectable \cup {"none"}]
             /\ slotHolder \in Consoles \cup {"nobody"}
MailState == mail \in [Consoles -> Seq(Messages)]
MailRoom == \A c \in Consoles : Len(mail[c]) + reports[c] <= MaxMail + MaxReports
MailLost == \A c \in Consoles : ~linked[c] => mail[c] = <<>>
ViewInv == ViewFlags /\ ViewState /\ MailState /\ MailRoom /\ MailLost

LEMMA ViewTypes == ViewInv => MainViewTypeOK
<1> SUFFICES ASSUME ViewInv PROVE MainViewTypeOK
  OBVIOUS
<1>1. \A c \in Consoles : mail[c] \in Seq(Messages) /\ Len(mail[c]) <= MaxMail + MaxReports
  <2> SUFFICES ASSUME NEW c \in Consoles
               PROVE  mail[c] \in Seq(Messages) /\ Len(mail[c]) <= MaxMail + MaxReports
    OBVIOUS
  <2>1. /\ mail[c] \in Seq(Messages) /\ Len(mail[c]) \in Nat /\ reports[c] \in 0..MaxReports
        /\ Len(mail[c]) + reports[c] <= MaxMail + MaxReports
        /\ MaxMail \in Nat /\ MaxReports \in Nat
    BY MainViewAssumption
    DEF MainViewAssumption, ViewInv, MailState, MailRoom, ViewState
  <2> QED
    BY <2>1
<1> QED
  BY <1>1 DEF ViewInv, ViewFlags, ViewState, MainViewTypeOK

(***************************************************************************)
(* What a page says is on the socket, or lost.                             *)
(***************************************************************************)
LEMMA Mailed ==
  ASSUME ViewInv, NEW c \in Consoles, NEW m \in Messages, Posts(c, m), UNCHANGED linked,
         reports' \in [Consoles -> 0..MaxReports],
         \A d \in Consoles \ {c} : reports'[d] = reports[d],
         Len(mail[c]) + reports'[c] < MaxMail + MaxReports
  PROVE  MailState' /\ MailRoom' /\ MailLost'
<1>1. /\ MaxMail \in Nat /\ MaxReports \in Nat /\ mail \in [Consoles -> Seq(Messages)]
      /\ \A d \in Consoles : /\ Len(mail[d]) + reports[d] <= MaxMail + MaxReports
                             /\ ~linked[d] => mail[d] = <<>>
  BY MainViewAssumption
  DEF MainViewAssumption, ViewInv, ViewState, MailState, MailRoom, MailLost
<1>2. CASE ~linked[c]
  <2>1. mail' = mail
    BY <1>2 DEF Posts
  <2>2. Len(mail'[c]) + reports'[c] <= MaxMail + MaxReports
    BY <1>1, <2>1
  <2>3. MailRoom'
    BY <1>1, <2>1, <2>2 DEF MailRoom
  <2> QED
    BY <1>1, <2>1, <2>3 DEF MailState, MailLost
<1>3. CASE linked[c]
  <2>1. mail' = [mail EXCEPT ![c] = Append(mail[c], m)]
    BY <1>3 DEF Posts
  <2>2. /\ Append(mail[c], m) \in Seq(Messages) /\ Len(mail[c]) \in Nat
        /\ Len(Append(mail[c], m)) = Len(mail[c]) + 1
    BY <1>1, AppendIn
  <2>3. Len(Append(mail[c], m)) + reports'[c] <= MaxMail + MaxReports
    <3>1. reports'[c] \in Nat
      BY <1>1
    <3> QED
      BY <1>1, <2>2, <3>1
  <2>4. mail' \in [Consoles -> Seq(Messages)]
    BY <1>1, <2>1, <2>2
  <2>5. ASSUME NEW d \in Consoles
        PROVE  /\ Len(mail'[d]) + reports'[d] <= MaxMail + MaxReports
               /\ ~linked'[d] => mail'[d] = <<>>
    <3>1. CASE d = c
      <4>1. mail'[c] = Append(mail[c], m)
        BY <1>1, <2>1
      <4> QED
        BY <1>3, <2>3, <3>1, <4>1
    <3>2. CASE d # c
      <4>1. mail'[d] = mail[d] /\ reports'[d] = reports[d]
        BY <1>1, <2>1, <3>2
      <4> QED
        BY <1>1, <4>1
    <3> QED
      BY <3>1, <3>2
  <2> QED
    BY <2>4, <2>5 DEF MailState, MailRoom, MailLost
<1> QED
  BY <1>2, <1>3

LEMMA WishMailed ==
  ASSUME ViewInv, NEW c \in Consoles, NEW id \in Selectable, Selects(c, id),
         UNCHANGED <<linked, reports>>
  PROVE  MailState' /\ MailRoom' /\ MailLost'
<1>1. [t |-> "media_select", id |-> id] \in Messages
  BY DEF Messages
<1>2. reports' \in [Consoles -> 0..MaxReports] /\ reports' = reports
  BY DEF ViewInv, ViewState
<1>3. /\ Posts(c, [t |-> "media_select", id |-> id])
      /\ Len(mail[c]) + reports'[c] < MaxMail + MaxReports
  BY <1>2 DEF Selects
<1> QED
  BY <1>1, <1>2, <1>3, Mailed

LEMMA PlansFit ==
  ASSUME ViewInv, NEW to, SendPlans(to)
  PROVE  blanks' \in [Consoles -> 0..MaxBlanks]
<1>1. MaxBlanks \in Nat /\ blanks \in [Consoles -> 0..MaxBlanks]
  BY MainViewAssumption DEF MainViewAssumption, ViewInv, ViewState
<1>2. ASSUME NEW c \in Consoles
      PROVE  /\ 0 \in 0..MaxBlanks
             /\ blanks[c] < MaxBlanks => blanks[c] + 1 \in 0..MaxBlanks
             /\ blanks[c] \in 0..MaxBlanks
  BY <1>1
<1> QED
  BY <1>1, <1>2 DEF SendPlans

LEMMA SlotFits ==
  ASSUME ViewInv, NEW c \in Consoles, NEW id \in Selectable, Select(c, id)
  PROVE  /\ chosen' \in [Consoles -> Selectable \cup {"none"}]
         /\ slotHolder' \in Consoles \cup {"nobody"}
  BY DEF Select, ViewInv, ViewState

LEMMA MainViewKeepsTypes ==
  ASSUME ViewInv, [MainViewNext]_mainViewVars
  PROVE  ViewInv'
<1>0. /\ ViewFlags /\ ViewState /\ MailState /\ MailRoom /\ MailLost
      /\ MaxMail \in Nat /\ MaxReports \in Nat /\ MaxReports > 0 /\ MaxMail > 0
      /\ MaxBlanks \in Nat
  BY MainViewAssumption DEF MainViewAssumption, ViewInv
<1> SUFFICES ViewFlags' /\ ViewState' /\ (MailState' /\ MailRoom' /\ MailLost')
  BY DEF ViewInv
<1> USE DEF pageView, registry
<1>1. ASSUME NEW c \in Consoles, reportCaps(c)
      PROVE  ViewFlags' /\ ViewState' /\ (MailState' /\ MailRoom' /\ MailLost')
  <2>1. /\ reports \in [Consoles -> 0..MaxReports] /\ reports[c] \in 0..MaxReports
        /\ reports[c] > 0 /\ reports' = [reports EXCEPT ![c] = reports[c] - 1]
    BY <1>0, <1>1 DEF reportCaps, ViewState
  <2>2. reports[c] - 1 \in 0..MaxReports
    BY <1>0, <2>1
  <2>3. /\ reports' \in [Consoles -> 0..MaxReports] /\ reports'[c] = reports[c] - 1
        /\ \A d \in Consoles \ {c} : reports'[d] = reports[d]
    BY <2>1, <2>2
  <2>4. mail[c] \in Seq(Messages) /\ Len(mail[c]) \in Nat
    BY <1>0 DEF MailState
  <2>5. Len(mail[c]) + reports'[c] < MaxMail + MaxReports
    <3>1. Len(mail[c]) + reports[c] <= MaxMail + MaxReports
      BY <1>0 DEF MailRoom
    <3> QED
      BY <1>0, <2>1, <2>3, <2>4, <3>1
  <2>6. [t |-> "media_caps", h265 |-> CanH265(c)] \in Messages
    BY <1>0 DEF Messages, CanH265, ViewFlags
  <2>7. MailState' /\ MailRoom' /\ MailLost'
    BY <1>1, <2>3, <2>5, <2>6, Mailed DEF reportCaps
  <2>8. ViewFlags'
    BY <1>0, <1>1 DEF reportCaps, ViewFlags
  <2>9. ViewState'
    BY <1>0, <1>1, <2>3 DEF reportCaps, ViewState
  <2> QED
    BY <2>7, <2>8, <2>9
<1>2. ASSUME NEW c \in Consoles, onLayout(c)
      PROVE  ViewFlags' /\ ViewState' /\ (MailState' /\ MailRoom' /\ MailLost')
  <2>1. ViewFlags' /\ ViewState'
    BY <1>0, <1>2 DEF onLayout, ViewFlags, ViewState
  <2>2. CASE AsksFor(c)
    <3>1. shownView[c] \in Selectable
      BY <2>2 DEF AsksFor, Selectable
    <3>2. Selects(c, shownView[c]) /\ UNCHANGED <<linked, reports>>
      BY <1>2, <2>2 DEF onLayout
    <3> QED
      BY <2>1, <3>1, <3>2, WishMailed
  <2>3. CASE ~AsksFor(c)
    <3>1. UNCHANGED <<mail, linked, reports>>
      BY <1>2, <2>3 DEF onLayout
    <3> QED
      BY <1>0, <2>1, <3>1 DEF MailState, MailRoom, MailLost
  <2> QED
    BY <2>2, <2>3
<1>3. ASSUME NEW c \in Consoles, onBlankPlan(c)
      PROVE  ViewFlags' /\ ViewState' /\ (MailState' /\ MailRoom' /\ MailLost')
  <2>1. blanks \in [Consoles -> 0..MaxBlanks] /\ blanks[c] > 0
    BY <1>0, <1>3 DEF onBlankPlan, ViewState
  <2>2. blanks[c] - 1 \in 0..MaxBlanks
    BY <1>0, <2>1
  <2>3. blanks' \in [Consoles -> 0..MaxBlanks]
    BY <1>3, <2>1, <2>2 DEF onBlankPlan
  <2>4. "dog_cam" \in Selectable /\ Selects(c, "dog_cam") /\ UNCHANGED <<linked, reports>>
    BY <1>3 DEF onBlankPlan, Selectable
  <2>5. MailState' /\ MailRoom' /\ MailLost'
    BY <2>4, WishMailed
  <2>6. ViewFlags'
    BY <1>0, <1>3 DEF onBlankPlan, ViewFlags
  <2>7. ViewState'
    BY <1>0, <1>3, <2>3 DEF onBlankPlan, ViewState
  <2> QED
    BY <2>5, <2>6, <2>7
<1>4. ASSUME NEW c \in Consoles, NEW v \in Views, applyView(c, v)
      PROVE  ViewFlags' /\ ViewState' /\ (MailState' /\ MailRoom' /\ MailLost')
  <2>1. ViewFlags' /\ ViewState'
    BY <1>0, <1>4 DEF applyView, ViewFlags, ViewState
  <2> QED
    BY <1>0, <1>4, <2>1 DEF applyView, MailState, MailRoom, MailLost
<1>5. ASSUME NEW c \in Consoles, NEW id \in Selectable, selectMain(c, id)
      PROVE  ViewFlags' /\ ViewState' /\ (MailState' /\ MailRoom' /\ MailLost')
  <2>1. ViewFlags' /\ ViewState' /\ Selects(c, id) /\ UNCHANGED <<linked, reports>>
    BY <1>0, <1>5 DEF selectMain, ViewFlags, ViewState
  <2> QED
    BY <2>1, WishMailed
<1>6. ASSUME NEW c \in Consoles, TakeMail(c)
      PROVE  ViewFlags' /\ ViewState' /\ (MailState' /\ MailRoom' /\ MailLost')
  <2>1. mail \in [Consoles -> Seq(Messages)] /\ mail[c] \in Seq(Messages) /\ mail[c] # <<>>
    BY <1>0, <1>6 DEF TakeMail, MailState
  <2>2. /\ Tail(mail[c]) \in Seq(Messages) /\ Len(Tail(mail[c])) = Len(mail[c]) - 1
        /\ Len(mail[c]) \in Nat /\ Head(mail[c]) \in Messages
    BY <2>1, TailIn
  <2>3. /\ mail' = [mail EXCEPT ![c] = Tail(mail[c])]
        /\ UNCHANGED <<measured, shownView, layoutDue, reports, linked>>
    BY <1>6 DEF TakeMail
  <2>4. MailState' /\ MailRoom' /\ MailLost'
    <3>1. linked[c]
      BY <1>0, <2>1 DEF MailLost
    <3>2. MailState' /\ MailLost'
      BY <1>0, <2>1, <2>2, <2>3, <3>1 DEF MailState, MailLost
    <3>3. ASSUME NEW d \in Consoles
          PROVE  Len(mail'[d]) + reports'[d] <= MaxMail + MaxReports
      <4>1. Len(mail[d]) + reports[d] <= MaxMail + MaxReports /\ reports[d] \in 0..MaxReports
        BY <1>0 DEF MailRoom, ViewState
      <4>2. CASE d = c
        <5>1. mail'[d] = Tail(mail[c])
          BY <2>1, <2>3, <4>2
        <5> QED
          BY <1>0, <2>2, <2>3, <4>1, <4>2, <5>1
      <4>3. CASE d # c
        <5>1. mail'[d] = mail[d]
          BY <2>1, <2>3, <4>3
        <5> QED
          BY <2>3, <4>1, <5>1
      <4> QED
        BY <4>2, <4>3
    <3> QED
      BY <3>2, <3>3 DEF MailRoom
  <2>5. /\ knownH265' \in [Consoles -> BOOLEAN]
        /\ chosen' \in [Consoles -> Selectable \cup {"none"}]
        /\ slotHolder' \in Consoles \cup {"nobody"}
        /\ \E to \in {{c}, Consoles} : SendPlans(to)
    <3>1. CASE Head(mail[c]).t = "media_caps"
      <4>1. Head(mail[c]).h265 \in BOOLEAN
        BY <2>2, <3>1 DEF Messages
      <4> QED
        BY <1>0, <1>6, <3>1, <4>1 DEF TakeMail, ViewFlags, ViewState
    <3>2. CASE Head(mail[c]).t = "media_select"
      <4>1. Head(mail[c]).id \in Selectable
        BY <2>2, <3>2 DEF Messages
      <4>2. Select(c, Head(mail[c]).id) /\ UNCHANGED knownH265 /\ SendPlans(Consoles)
        BY <1>6, <3>2 DEF TakeMail
      <4> QED
        BY <1>0, <4>1, <4>2, SlotFits DEF ViewFlags
    <3> QED
      BY <2>2, <3>1, <3>2 DEF Messages
  <2>6. blanks' \in [Consoles -> 0..MaxBlanks]
    BY <2>5, PlansFit
  <2>7. ViewFlags'
    BY <1>0, <2>3, <2>5 DEF ViewFlags
  <2>8. ViewState'
    BY <1>0, <2>3, <2>5, <2>6 DEF ViewState
  <2> QED
    BY <2>4, <2>7, <2>8
<1>7. ASSUME NEW c \in Consoles, LinkOpens(c)
      PROVE  ViewFlags' /\ ViewState' /\ (MailState' /\ MailRoom' /\ MailLost')
  <2>1. /\ reports \in [Consoles -> 0..MaxReports] /\ reports[c] < MaxReports
        /\ reports' = [reports EXCEPT ![c] = reports[c] + 1]
    BY <1>0, <1>7 DEF LinkOpens, ViewState
  <2>2. reports[c] + 1 \in 0..MaxReports
    BY <1>0, <2>1
  <2>3. reports' \in [Consoles -> 0..MaxReports]
    BY <2>1, <2>2
  <2>4. /\ ~linked[c] /\ linked' = [linked EXCEPT ![c] = TRUE] /\ SendPlans({c})
        /\ UNCHANGED <<measured, shownView, layoutDue, mail, registry>>
    BY <1>7 DEF LinkOpens, Connects
  <2>5. ViewFlags'
    BY <1>0, <2>4 DEF ViewFlags
  <2>6. ViewState'
    BY <1>0, <2>3, <2>4, PlansFit DEF ViewState
  <2>7. MailState' /\ MailLost' /\ mail[c] = <<>>
    BY <1>0, <2>4 DEF MailState, MailLost, ViewFlags
  <2>8. ASSUME NEW d \in Consoles
        PROVE  Len(mail'[d]) + reports'[d] <= MaxMail + MaxReports
    <3>1. CASE d = c
      <4>1. Len(mail'[d]) = 0
        BY <2>4, <2>7, <3>1, EmptyIn
      <4>2. reports'[d] \in 0..MaxReports
        BY <2>3
      <4> QED
        BY <1>0, <4>1, <4>2
    <3>2. CASE d # c
      <4>1. mail'[d] = mail[d] /\ reports'[d] = reports[d]
        BY <2>1, <2>4, <3>2
      <4> QED
        BY <1>0, <4>1 DEF MailRoom
    <3> QED
      BY <3>1, <3>2
  <2> QED
    BY <2>5, <2>6, <2>7, <2>8 DEF MailRoom
<1>8. ASSUME NEW c \in Consoles, LinkBreaks(c)
      PROVE  ViewFlags' /\ ViewState' /\ (MailState' /\ MailRoom' /\ MailLost')
  <2>1. /\ linked' = [linked EXCEPT ![c] = FALSE] /\ mail' = [mail EXCEPT ![c] = <<>>]
        /\ UNCHANGED <<measured, shownView, layoutDue, reports>>
        /\ mail \in [Consoles -> Seq(Messages)] /\ reports \in [Consoles -> 0..MaxReports]
    BY <1>0, <1>8 DEF LinkBreaks, MailState, ViewState
  <2>2. \E to \in {Consoles, {}} : SendPlans(to)
    BY <1>8 DEF LinkBreaks
  <2>3. blanks' \in [Consoles -> 0..MaxBlanks]
    BY <2>2, PlansFit
  <2>4. ViewFlags'
    BY <1>0, <1>8 DEF LinkBreaks, ViewFlags
  <2>5. ViewState'
    BY <1>0, <1>8, <2>3 DEF LinkBreaks, ViewState
  <2>6. MailState'
    BY <2>1, EmptyIn DEF MailState
  <2>7. MailLost'
    BY <1>0, <2>1 DEF MailLost, ViewFlags
  <2>8. ASSUME NEW d \in Consoles
        PROVE  Len(mail'[d]) + reports'[d] <= MaxMail + MaxReports
    <3>1. CASE d = c
      <4>1. Len(mail'[d]) = 0 /\ reports'[d] \in 0..MaxReports
        BY <2>1, <3>1, EmptyIn
      <4> QED
        BY <1>0, <4>1
    <3>2. CASE d # c
      <4>1. mail'[d] = mail[d] /\ reports'[d] = reports[d]
        BY <2>1, <3>2
      <4> QED
        BY <1>0, <4>1 DEF MailRoom
    <3> QED
      BY <3>1, <3>2
  <2> QED
    BY <2>4, <2>5, <2>6, <2>7, <2>8 DEF MailRoom
<1>9. CASE UNCHANGED mainViewVars
  <2>1. ViewFlags' /\ ViewState'
    BY <1>0, <1>9 DEF mainViewVars, ViewFlags, ViewState
  <2>2. MailState' /\ MailRoom' /\ MailLost'
    BY <1>0, <1>9 DEF mainViewVars, MailState, MailRoom, MailLost
  <2> QED
    BY <2>1, <2>2
<1> QED
  BY <1>1, <1>2, <1>3, <1>4, <1>5, <1>6, <1>7, <1>8, <1>9 DEF MainViewNext

-------------------------------------------------------------------------------
(***************************************************************************)
(* The page.  Every part begins well...                                    *)
(***************************************************************************)
LEMMA SubscriptionBeginsTyped == Init => TypeOK
<1> SUFFICES ASSUME Init PROVE SubFlags /\ SubGateway /\ SubLink /\ OnSocket(up, down)
  BY SubTypes
<1>1. SubFlags /\ SubGateway
  BY DEF Init, SubFlags, SubGateway
<1>2. MaxPending \in Nat /\ MaxDrops \in Nat /\ up = <<>> /\ down = <<>> /\ drops = 0
  BY CloudAssumption DEF CloudAssumption, Init
<1>3. OnSocket(up, down)
  BY <1>2, EmptyIn DEF OnSocket
<1> QED
  BY <1>1, <1>2, <1>3 DEF Init, SubLink

LEMMA MapBeginsTyped == MapInit => MapTypeOK
<1> SUFFICES ASSUME MapInit PROVE MapCells /\ MapFlags /\ MapFloors
  BY MapTypes
<1>1. MapCells
  BY DEF MapInit, MapCells
<1>2. MapFlags
  <2>1. trail = 0 /\ 0 \in 0..MaxTrail
    BY MapAssumption DEF MapAssumption, MapInit
  <2> QED
    BY <2>1 DEF MapInit, MapFlags
<1>3. MapFloors
  <2>1. floorCut = FALSE /\ floors = 0 /\ floorView = -1 /\ -1 \in Int
    BY DEF MapInit
  <2> QED
    BY <2>1 DEF MapFloors, Cuts
<1> QED
  BY <1>1, <1>2, <1>3

LEMMA MenuBeginsTyped == GaitMenuInit => MenuInv
<1> SUFFICES ASSUME GaitMenuInit
             PROVE  MenuGaits /\ MenuFlags /\ MenuJobs /\ MenuWire(orders, answers)
  BY DEF MenuInv
<1>1. MenuGaits /\ MenuFlags
  BY GaitMenuAssumption
  DEF GaitMenuAssumption, GaitMenuInit, MenuGaits, MenuFlags, Maybe
<1>2. MenuJobs
  BY GaitMenuAssumption DEF GaitMenuAssumption, GaitMenuInit, MenuJobs
<1>3. MenuWire(orders, answers)
  BY GaitMenuAssumption, EmptyIn DEF GaitMenuAssumption, GaitMenuInit, MenuWire
<1> QED
  BY <1>1, <1>2, <1>3

LEMMA SticksBeginTyped == SticksInit => SticksTypeOK
<1> SUFFICES ASSUME SticksInit PROVE SticksHands /\ SticksRc /\ SticksPad
  BY StickTypes
<1>1. SticksHands
  BY DEF SticksInit, SticksHands, Positions
<1>2. SticksRc /\ SticksPad
  BY DEF SticksInit, SticksRc, SticksPad, Positions
<1> QED
  BY <1>1, <1>2

LEMMA BallBeginsTyped == BallInit => BallInv
<1> SUFFICES ASSUME BallInit PROVE BallFlags /\ BallCalls
  BY DEF BallInv
<1>1. BallFlags
  BY DEF BallInit, BallFlags
<1>2. Waits(fireQueue)
  BY EmptyIn DEF BallInit, Waits
<1> QED
  BY <1>1, <1>2 DEF BallInit, BallCalls

LEMMA PicturesBeginTyped == PicturesInit => PicturesTypeOK
<1> SUFFICES ASSUME PicturesInit
             PROVE  PictureFlags /\ PicturePage /\ PictureNative /\ PictureCalls
  BY PictureTypes
<1>1. PictureFlags /\ PictureNative
  <2>1. 0 \in 0..MaxErrors
    BY PicturesAssumption DEF PicturesAssumption
  <2>2. errors = 0
    BY DEF PicturesInit
  <2> QED
    BY <2>1, <2>2 DEF PicturesInit, PictureFlags, PictureNative
<1>2. /\ wantedNow \in BOOLEAN /\ (wantedNow => playKeyNow \in Streams)
      /\ ~wantedNow => playKeyNow = ""
  <2>1. wantedNow = wantsVideo("dog_cam", seen) /\ seen \in BOOLEAN /\ radio24 \in BOOLEAN
    BY DEF PicturesInit
  <2>2. wantsVideo("dog_cam", seen) => playKey("dog_cam", radio24, FALSE) \in Streams
    BY <2>1, KeyIsAStream
  <2> QED
    BY <2>1, <2>2 DEF PicturesInit, wantsVideo
<1>3. PicturePage
  BY <1>2 DEF PicturesInit, PicturePage
<1>4. PictureCalls
  <2>1. MaxCalls \in Nat /\ MaxCalls > 2
    BY PicturesAssumption DEF PicturesAssumption
  <2>2. calls \in Batches /\ Len(calls) <= 1
    BY <1>2, OneCall DEF PicturesInit
  <2>3. Len(calls) \in Nat
    BY <2>2 DEF Batches
  <2>4. Len(calls) <= MaxCalls
    BY <2>1, <2>2, <2>3
  <2> QED
    BY <2>2, <2>4 DEF PictureCalls, Batches
<1> QED
  BY <1>1, <1>3, <1>4

LEMMA SettingsBeginTyped == SettingsInit => SaveInv
<1> SUFFICES ASSUME SettingsInit PROVE SaveInv
  OBVIOUS
<1>1. SaveForm /\ SaveGateway
  BY DEF SettingsInit, SaveForm, SaveGateway
<1>2. SaveState /\ MaxWire \in Nat
  <2>1. flushTimers = 0 /\ 0 \in 0..MaxFlush /\ MaxWire \in Nat
    BY SettingsAssumption DEF SettingsAssumption, SettingsInit
  <2> QED
    BY <2>1 DEF SettingsInit, SaveState
<1>3. toGw = <<>> /\ toPage = <<>> /\ ~pendingDiff
  BY DEF SettingsInit
<1>4. SaveWire(toGw, toPage)
  BY <1>2, <1>3, EmptyIn DEF SaveWire
<1> QED
  BY <1>1, <1>2, <1>3, <1>4 DEF SaveInv

LEMMA CannonBeginsTyped == CannonInit => CannonTypeOK
<1> SUFFICES ASSUME CannonInit
             PROVE  CannonHands /\ CannonPage /\ CannonThread /\ CannonOutcome
  BY CannonTypes
<1>1. CannonHands
  <2>1. posted = <<>> /\ posted \in Seq(BOOLEAN) /\ Len(posted) = 0 /\ MaxPosted \in Nat
    BY CannonAssumption, EmptyIn DEF CannonAssumption, CannonInit
  <2>2. Len(posted) <= MaxPosted
    BY <2>1
  <2> QED
    BY <2>1, <2>2 DEF CannonInit, CannonHands
<1>2. CannonPage
  BY DEF CannonInit, CannonPage, IdleCmd, Cmds
<1>3. CannonThread /\ CannonOutcome
  BY DEF CannonInit, CannonThread, CannonOutcome
<1> QED
  BY <1>1, <1>2, <1>3

LEMMA MainViewBeginsTyped == MainViewInit => ViewInv
<1> SUFFICES ASSUME MainViewInit
             PROVE  ViewFlags /\ ViewState /\ MailState /\ MailRoom /\ MailLost
  BY DEF ViewInv
<1>0. /\ MaxMail \in Nat \ {0} /\ MaxReports \in Nat \ {0} /\ MaxBlanks \in Nat
  BY MainViewAssumption DEF MainViewAssumption
<1>1. ViewFlags
  BY DEF MainViewInit, ViewFlags
<1>2. ViewState
  BY <1>0 DEF MainViewInit, ViewState, Views
<1>3. MailState /\ MailLost
  BY EmptyIn DEF MainViewInit, MailState, MailLost
<1>4. ASSUME NEW c \in Consoles
      PROVE  Len(mail[c]) + reports[c] <= MaxMail + MaxReports
  <2>1. Len(mail[c]) = 0 /\ reports[c] = 1
    BY EmptyIn DEF MainViewInit
  <2> QED
    BY <1>0, <2>1
<1> QED
  BY <1>1, <1>2, <1>3, <1>4 DEF MailRoom

(***************************************************************************)
(* ...and a step of the page is a step of each part, or leaves it alone.   *)
(***************************************************************************)
LEMMA PartsStep ==
  ASSUME [PageNext]_pageVars
  PROVE  /\ [Next]_vars /\ [MapNext]_mapVars /\ [GaitMenuNext]_gaitMenuVars
         /\ [SticksNext]_stickVars /\ [BallNext]_ballVars
         /\ [PicturesNext]_pictureVars /\ [TilesNext]_tilesVars
         /\ [SettingsNext]_settingsVars /\ [CannonNext]_cannonVars
         /\ [MainViewNext]_mainViewVars
         /\ part' = part
<1>1. CASE PageNext
  <2>1. part' = part
    BY <1>1 DEF PageNext
  <2>2. [Next]_vars /\ [MapNext]_mapVars /\ [GaitMenuNext]_gaitMenuVars
    BY <1>1 DEF PageNext, Still
  <2>3. [SticksNext]_stickVars /\ [BallNext]_ballVars /\ [PicturesNext]_pictureVars
    BY <1>1 DEF PageNext, Still
  <2>4. [TilesNext]_tilesVars /\ [SettingsNext]_settingsVars
    BY <1>1 DEF PageNext, Still
  <2>5. [CannonNext]_cannonVars /\ [MainViewNext]_mainViewVars
    BY <1>1 DEF PageNext, Still
  <2> QED
    BY <2>1, <2>2, <2>3, <2>4, <2>5
<1>2. CASE UNCHANGED pageVars
  BY <1>2 DEF pageVars
<1> QED
  BY <1>1, <1>2

PageTyped == /\ part \in Parts
             /\ TypeOK /\ MapTypeOK /\ MenuInv /\ SticksTypeOK /\ BallInv
             /\ PicturesTypeOK /\ TilesTypeOK /\ SaveInv /\ CannonTypeOK /\ ViewInv

PageSafe == SubInv /\ OneFrame /\ TileInv

LEMMA PageBegins == PageInit => PageTyped /\ PageSafe
<1> SUFFICES ASSUME PageInit PROVE PageTyped /\ PageSafe
  OBVIOUS
<1>1. /\ Init /\ MapInit /\ GaitMenuInit /\ SticksInit /\ BallInit
      /\ PicturesInit /\ TilesInit /\ SettingsInit /\ CannonInit /\ MainViewInit
      /\ part \in Parts
  BY DEF PageInit
<1>2. TilesTypeOK
  BY <1>1, TilesBeginTyped
<1>3. OneFrame
  BY <1>1, MapBeginsInOneFrame
<1> QED
  BY <1>1, <1>2, <1>3, SubscriptionBeginsTyped, MapBeginsTyped, MenuBeginsTyped,
     SticksBeginTyped, BallBeginsTyped, PicturesBeginTyped, SettingsBeginTyped,
     CannonBeginsTyped, MainViewBeginsTyped, SubscriptionBegins, TilesBeginRight
  DEF PageTyped, PageSafe

LEMMA PageKeeps ==
  ASSUME PageTyped, PageSafe, [PageNext]_pageVars
  PROVE  PageTyped' /\ PageSafe'
<1>1. /\ [Next]_vars /\ [MapNext]_mapVars /\ [GaitMenuNext]_gaitMenuVars
      /\ [SticksNext]_stickVars /\ [BallNext]_ballVars
      /\ [PicturesNext]_pictureVars /\ [TilesNext]_tilesVars
      /\ [SettingsNext]_settingsVars /\ [CannonNext]_cannonVars
      /\ [MainViewNext]_mainViewVars
      /\ part' = part
  BY PartsStep
<1>2. TypeOK' /\ MapTypeOK' /\ MenuInv'
  BY <1>1, SubscriptionKeepsTypes, MapKeepsTypes, MenuKeepsTypes DEF PageTyped
<1>3. SticksTypeOK' /\ BallInv' /\ PicturesTypeOK' /\ TilesTypeOK'
  BY <1>1, SticksKeepTypes, BallKeepsTypes, PicturesKeepTypes, TilesKeepTypes
  DEF PageTyped
<1>4. SaveInv' /\ CannonTypeOK' /\ ViewInv'
  BY <1>1, SettingsKeepTypes, CannonKeepsTypes, MainViewKeepsTypes DEF PageTyped
<1>5. SubInv' /\ OneFrame' /\ TileInv'
  BY <1>1, <1>3, SubscriptionSettles, MapKeepsFrame, TilesStayRight DEF PageSafe
<1> QED
  BY <1>1, <1>2, <1>3, <1>4, <1>5 DEF PageTyped, PageSafe

(***************************************************************************)
(* Whatever part a behaviour of the page is about, every variable of every *)
(* part has its type, and no queue outgrows its bound.                     *)
(***************************************************************************)
THEOREM PageTypeCorrect == PageSpec => []PageTypeOK
<1>1. PageTyped => PageTypeOK
  BY MenuTypes, BallTypes, SaveTypes, ViewTypes DEF PageTyped, PageTypeOK
<1> QED
  BY <1>1, PageBegins, PageKeeps, PTL DEF PageSpec

(***************************************************************************)
(* What is proved of a part for itself holds in the page, in which the     *)
(* other parts' variables change, too: a page that holds itself            *)
(* unsubscribed costs no bandwidth, the map is of one frame, the tile      *)
(* shows its plan.                                                         *)
(***************************************************************************)
THEOREM PageKeepsItsPromises ==
  PageSpec => [](UnsubscribedIsSilent /\ MapIsOfOneFrame /\ TileShowsPlan)
<1>1. PageSafe => UnsubscribedIsSilent /\ MapIsOfOneFrame /\ TileShowsPlan
  BY SilentBySubInv, ShownByTileInv DEF PageSafe, OneFrame
<1> QED
  BY <1>1, PageBegins, PageKeeps, PTL DEF PageSpec
===============================================================================
