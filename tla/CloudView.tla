------------------------------- MODULE CloudView -------------------------------
(***************************************************************************)
(* The subscription of one console page (web/cloud.js) to the point cloud, *)
(* over a socket that drops and is opened again.                           *)
(*                                                                         *)
(* The page keeps two flags: wanted, what the layout asks for, and         *)
(* subscribed, what it believes the gateway holds.  Requests, status       *)
(* reports and frames cross the socket in order; a frame that the gateway  *)
(* has in hand when the page unsubscribes still arrives.                   *)
(***************************************************************************)
EXTENDS Integers, Sequences

CONSTANTS
  MaxPending, \* bound: messages on the socket, both directions together
  MaxDrops    \* bound: times the socket is lost

ASSUME CloudAssumption == MaxPending \in Nat \ {0} /\ MaxDrops \in Nat

VARIABLES
  ready,      \* initCloud has run: sendFn is set
  wanted,     \* what applyLayout asked for last, unless onDenied took it back
  subscribed,
  link,       \* the socket is open
  up, down,   \* messages on the socket
  drops,
  enabled,    \* the gateway runs with a CloudBridge
  mine, others, \* CloudBridge::subscribers_: this page, and any other client
  hand        \* a ROS thread has taken targets_ with this page among them

page == <<ready, wanted, subscribed>>
gateway == <<enabled, mine, others, hand>>
socket == <<link, up, down, drops>>
vars == <<page, gateway, socket>>

Requests == {"cloud_sub", "cloud_unsub"}
Status == [t : {"status"}, active : BOOLEAN]
NoCloud == [t |-> "no_cloud"]
Frame == [t |-> "frame"]

TypeOK ==
  /\ {ready, wanted, subscribed, link, enabled, mine, others, hand}
       \subseteq BOOLEAN
  /\ up \in Seq(Requests)
  /\ down \in Seq(Status \cup {NoCloud, Frame})
  /\ Len(up) + Len(down) <= MaxPending
  /\ ~link => up = <<>> /\ down = <<>> /\ ~mine /\ ~hand
  /\ drops \in 0..MaxDrops

Init ==
  /\ ready = FALSE /\ wanted = FALSE /\ subscribed = FALSE
  /\ link = FALSE /\ up = <<>> /\ down = <<>> /\ drops = 0
  /\ enabled \in BOOLEAN /\ mine = FALSE /\ others \in BOOLEAN
  /\ hand = FALSE

-------------------------------------------------------------------------------
(***************************************************************************)
(* send drops what it is given while the socket is not open.  An answer    *)
(* takes the place of what it answers, so only what nobody asked for needs *)
(* room.                                                                   *)
(***************************************************************************)
Room == Len(up) + Len(down) < MaxPending

send(m) == up' = IF link THEN Append(up, m) ELSE up

(***************************************************************************)
(* Mutant: hiding the cloud is not told to the gateway.                    *)
(***************************************************************************)
applyWantedSilently(want) ==
  IF want # subscribed
    THEN /\ subscribed' = want
         /\ IF want THEN send("cloud_sub") ELSE UNCHANGED up
    ELSE UNCHANGED <<subscribed, up>>

(***************************************************************************)
(* applyWanted: nothing if subscribed already agrees; otherwise it follows *)
(* at once, whether or not the message goes out.                           *)
(***************************************************************************)
applyWanted(want) ==
  IF want # subscribed
    THEN /\ subscribed' = want
         /\ send(IF want THEN "cloud_sub" ELSE "cloud_unsub")
    ELSE UNCHANGED <<subscribed, up>>

setWanted(want) ==
  /\ wanted' = want
  /\ IF ready THEN applyWanted(want) ELSE UNCHANGED <<subscribed, up>>

(***************************************************************************)
(* applyLayout: a view is selected, the 2x2 grid is entered or left.  It   *)
(* calls setWanted every time, with the same value too.                    *)
(***************************************************************************)
applyLayout(visible) ==
  /\ Room
  /\ setWanted(visible)
  /\ UNCHANGED <<ready, gateway, link, down, drops>>

ShowCloud == applyLayout(TRUE)
HideCloud == applyLayout(FALSE)

(***************************************************************************)
(* initCloud runs last at start-up, after applyLayout and connect, and     *)
(* makes up for a layout that was applied before it.                       *)
(***************************************************************************)
initCloud ==
  /\ ~ready /\ Room
  /\ ready' = TRUE
  /\ applyWanted(wanted)
  /\ UNCHANGED <<wanted, gateway, link, down, drops>>

(***************************************************************************)
(* onWsOpen calls resubscribe: what is on stays on.                        *)
(***************************************************************************)
resubscribe == IF subscribed /\ ready THEN <<"cloud_sub">> ELSE <<>>

onWsOpen ==
  /\ ~link
  /\ link' = TRUE
  /\ up' = resubscribe
  /\ UNCHANGED <<page, gateway, down, drops>>

(***************************************************************************)
(* onWsClose touches nothing of the cloud.  The gateway's OnDisconnect     *)
(* forgets the subscriber; or it is the gateway that was restarted, with   *)
(* the cloud on or off.                                                    *)
(***************************************************************************)
onWsClose ==
  /\ link /\ drops < MaxDrops
  /\ link' = FALSE /\ up' = <<>> /\ down' = <<>> /\ drops' = drops + 1
  /\ mine' = FALSE /\ hand' = FALSE
  /\ \/ UNCHANGED <<enabled, others>>
     \/ enabled' \in BOOLEAN /\ others' = FALSE
  /\ UNCHANGED page

-------------------------------------------------------------------------------
(***************************************************************************)
(* StatusJson says whether anybody is subscribed; that the perception host *)
(* is connected, or cannot be reached, only changes what the pane says.    *)
(***************************************************************************)
StatusJson(active) == [t |-> "status", active |-> active]

(***************************************************************************)
(* DispatchMessage answers every request with the status as it is then.    *)
(***************************************************************************)
DispatchMessage ==
  /\ up # <<>>
  /\ up' = Tail(up)
  /\ IF enabled
       THEN /\ mine' = (Head(up) = "cloud_sub")
            /\ down' = Append(down, StatusJson(mine' \/ others))
       ELSE /\ down' = Append(down, NoCloud)
            /\ UNCHANGED mine
  /\ UNCHANGED <<page, enabled, others, hand, link, drops>>

(***************************************************************************)
(* StateLoop broadcasts the status once a second.                          *)
(***************************************************************************)
StateLoop ==
  /\ link /\ enabled /\ Room
  /\ down' = Append(down, StatusJson(mine \/ others))
  /\ UNCHANGED <<page, gateway, link, up, drops>>

(***************************************************************************)
(* Emit copies the subscribers under the mutex and sends after leaving it. *)
(***************************************************************************)
EmitTargets ==
  /\ mine /\ ~hand
  /\ hand' = TRUE
  /\ UNCHANGED <<page, enabled, mine, others, socket>>

EmitSend ==
  /\ hand /\ Room
  /\ hand' = FALSE
  /\ down' = Append(down, Frame)
  /\ UNCHANGED <<page, enabled, mine, others, link, up, drops>>

(***************************************************************************)
(* Another console subscribes or leaves.                                   *)
(***************************************************************************)
OtherConsole ==
  /\ enabled
  /\ others' = ~others
  /\ UNCHANGED <<page, enabled, mine, hand, socket>>

-------------------------------------------------------------------------------
(***************************************************************************)
(* handleWsText and the binary branch of onmessage.                        *)
(***************************************************************************)
Arrives(kind) == down # <<>> /\ Head(down).t = kind /\ down' = Tail(down)

(***************************************************************************)
(* onCloudFrame: a frame is taken as proof of the subscription, whatever   *)
(* wanted says.                                                            *)
(***************************************************************************)
onCloudFrame ==
  /\ Arrives("frame")
  /\ subscribed' = TRUE
  /\ UNCHANGED <<ready, wanted, gateway, link, up, drops>>

(***************************************************************************)
(* Mutant: the status is shown and nothing is done about it.               *)
(***************************************************************************)
onCloudStatusShown ==
  /\ Arrives("status")
  /\ UNCHANGED <<page, gateway, link, up, drops>>

(***************************************************************************)
(* onCloudStatus: subscribed here while the gateway knows of no subscriber *)
(* at all means that the client id changed: subscribe again.               *)
(***************************************************************************)
onCloudStatus ==
  /\ Arrives("status")
  /\ IF subscribed /\ ~Head(down).active /\ ready
       THEN send("cloud_sub")
       ELSE UNCHANGED up
  /\ UNCHANGED <<page, gateway, link, drops>>

(***************************************************************************)
(* The no_cloud error: onDenied gives up what the layout asked for.        *)
(***************************************************************************)
onDenied ==
  /\ Arrives("no_cloud")
  /\ wanted' = FALSE /\ subscribed' = FALSE
  /\ UNCHANGED <<ready, gateway, link, up, drops>>

-------------------------------------------------------------------------------
FromGateway == onCloudFrame \/ onCloudStatus \/ onDenied

Next ==
  \/ ShowCloud \/ HideCloud \/ initCloud
  \/ onWsOpen \/ onWsClose
  \/ DispatchMessage \/ StateLoop \/ EmitTargets \/ EmitSend \/ OtherConsole
  \/ FromGateway

(***************************************************************************)
(* The page starts up, tries its socket again every RECONNECT_MS and takes *)
(* what arrives; the gateway's threads run.  Nobody has to look at the     *)
(* cloud or to go away from it.                                            *)
(***************************************************************************)
Fairness ==
  /\ WF_vars(initCloud)
  /\ WF_vars(onWsOpen)
  /\ WF_vars(DispatchMessage)
  /\ WF_vars(StateLoop)
  /\ WF_vars(EmitSend)
  /\ WF_vars(FromGateway)

Spec == Init /\ [][Next]_vars /\ Fairness

-------------------------------------------------------------------------------
(***************************************************************************)
(* A page that holds itself unsubscribed costs no bandwidth: once its      *)
(* requests have reached the gateway it is not among the subscribers,      *)
(* whatever happened on the socket before.                                 *)
(***************************************************************************)
UnsubscribedIsSilent == link /\ up = <<>> /\ ~subscribed => ~mine

(***************************************************************************)
(* If the cloud stays on the screen, the socket open and no other console  *)
(* subscribed, the gateway ends up sending it: the status report repairs   *)
(* what a late frame or a lost request spoilt.                             *)
(***************************************************************************)
ShownCloudFlows ==
  <>[](wanted /\ ready /\ link /\ enabled /\ ~others) => <>[]mine
===============================================================================
