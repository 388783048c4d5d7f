-------------------------------- MODULE Console --------------------------------
(***************************************************************************)
(* Which way the App drives the dog (web/app.js): over MESH, where the     *)
(* gateway commands the robot for whoever holds control, or over 2.4G,     *)
(* where the tablet's RadioLink sends the heartbeats itself.  The page     *)
(* moves between the two with a handshake: to 2.4G it yields and waits for *)
(* the gateway's answer, to MESH it waits until RadioLink has stopped and  *)
(* claims.                                                                 *)
(*                                                                         *)
(* The chosen path is kept twice, by the page and by the App (GatewayStore)*)
(* whose button changes it and tells the page later; RadioLink is switched *)
(* by posting to its own thread; messages to and from the gateway are on   *)
(* their way for a while, and are lost with the connection.  A console in  *)
(* a browser has no second path and is not modelled here.                  *)
(***************************************************************************)
EXTENDS Integers, Sequences, Functions

CONSTANTS
  MaxPending,   \* bound: messages on the socket, both directions together
  MaxPosted,    \* bound: switchings RadioLink's thread has yet to carry out
  MaxSwitches,  \* bound: presses of the path button
  MaxStarts,    \* bound: starts of a picture the UI thread has yet to run
  MaxDrops      \* bound: times the connection is lost

ASSUME ConsoleAssumption ==
  /\ MaxPending \in Nat \ {0} /\ MaxPosted \in Nat \ {0}
  /\ MaxSwitches \in Nat /\ MaxStarts \in Nat /\ MaxDrops \in Nat

Paths == {"mesh", "radio"}

VARIABLES
  path,         \* app.radioPath
  holder,       \* app.holder; app.hasControl is holder = "me"
  radioPending, \* app.radioAcquirePending
  meshPending,  \* app.meshAcquirePending
  polling,      \* a timer of waitRadioReleased is running
  retry,        \* the 100 ms timer of a control message is running
  manual,       \* app.modePick = "manual"
  fallback,     \* app.radioFallback
  saving,       \* the settings panel blocks claims
  native,       \* GatewayStore's path
  pushed,       \* calls of adoptRadioPath the App has yet to make
  starting,     \* starts of the dog camera's picture posted to the UI thread
  posted,       \* calls of setEnabled on RadioLink's thread
  radioOn,      \* RadioLink.enabled
  aside,        \* history: since the last switch to MESH something other
                \* than the handshake has switched RadioLink on
  link, up, down, \* the connection and the messages on it
  controller,   \* who holds control at the gateway; a "ghost" is this page's
                \* last connection, which the gateway does not know is dead
  switches, drops

page == <<path, holder, radioPending, meshPending, polling, retry, manual,
          fallback>>
app == <<native, pushed, starting, switches>>
radio == <<posted, radioOn, aside>>
net == <<link, up, down, controller, drops>>
vars == <<page, saving, app, radio, net>>

Messages == [t : {"hello", "control"}, holder : {"none", "me", "other"}]

ConsoleTypeOK ==
  /\ {path, native} \subseteq Paths
  /\ holder \in {"none", "me", "other"}
  /\ {radioPending, meshPending, polling, retry, manual, fallback, saving,
      radioOn, aside, link} \subseteq BOOLEAN
  /\ pushed \in Seq(Paths) /\ starting \in 0..MaxStarts
  /\ posted \in Seq(BOOLEAN) /\ Len(posted) <= MaxPosted
  /\ up \in Seq({"claim", "yield"}) /\ down \in Seq(Messages)
  /\ Len(up) + Len(down) <= MaxPending
  /\ controller \in {"none", "me", "other", "ghost"}
  /\ switches \in 0..MaxSwitches /\ drops \in 0..MaxDrops
  /\ ~link => holder = "none" /\ controller # "me"

hasControl == holder = "me"

radioDirect == path = "radio" \/ native = "radio"

(***************************************************************************)
(* bootstrap applies the path of the last session: 2.4G starts at once, as *)
(* nobody is known to hold control yet.                                    *)
(***************************************************************************)
Init ==
  /\ path \in Paths /\ native = path /\ pushed = <<>> /\ starting = 0
  /\ posted = IF path = "radio" THEN <<TRUE>> ELSE <<>>
  /\ holder = "none" /\ radioOn = FALSE /\ aside = FALSE
  /\ radioPending = FALSE /\ meshPending = FALSE /\ polling = FALSE
  /\ retry = FALSE /\ manual = FALSE /\ saving = FALSE
  /\ fallback = (path = "radio")
  /\ link = FALSE /\ up = <<>> /\ down = <<>>
  /\ controller \in {"none", "other"}
  /\ switches = 0 /\ drops = 0

-------------------------------------------------------------------------------
(***************************************************************************)
(* What the page can do: setEnabled through the bridge, and messages.  The *)
(* guards on Room bound what is under way; whoever acts unasked leaves     *)
(* room for the page's own timers.                                         *)
(***************************************************************************)
Room == Len(up) + Len(down) < MaxPending
Spare == Len(up) + Len(down) + 1 < MaxPending
PostRoom(n) == Len(posted) + n <= MaxPosted

post(calls) == posted' = posted \o calls

send(messages) == up' = IF link THEN up \o messages ELSE up

(***************************************************************************)
(* requestControl.  A holder claims again only to hand its posture over.   *)
(* Under 2.4G no claim goes out (send).                                    *)
(***************************************************************************)
MayClaim(h) == ~saving /\ ~radioDirect /\ link /\ h # "other"

requestControl(h) ==
  \/ MayClaim(h) /\ send(<<"claim">>)
  \/ (~MayClaim(h) \/ h = "me") /\ UNCHANGED up

(***************************************************************************)
(* ensureManualMode: under 2.4G the command goes through radioCmd, which   *)
(* switches RadioLink on whatever the handshake says.                      *)
(***************************************************************************)
ensureManualMode(h) ==
  manual' = (manual \/ radioDirect \/ h = "me")

ManualCalls == IF radioDirect /\ ~manual THEN <<TRUE>> ELSE <<>>

-------------------------------------------------------------------------------
(***************************************************************************)
(* applyRadioPath.  The bridge refuses to switch RadioLink on unless the   *)
(* App's own path is 2.4G; a path that is adopted once more may be older.  *)
(***************************************************************************)
ApplyRadio(tick) ==
  /\ meshPending' = FALSE
  /\ radioPending' = (holder # "none")
  /\ post((IF holder = "none" /\ native' = "radio" THEN <<TRUE>> ELSE <<>>) \o
          (IF tick /\ ~manual THEN <<TRUE>> ELSE <<>>))
  /\ manual' = (manual \/ tick)
  /\ IF hasControl THEN send(<<"yield">>) ELSE UNCHANGED up
  /\ UNCHANGED <<polling, aside>>

(***************************************************************************)
(* requestControl of a page that is on MESH from this step on.             *)
(***************************************************************************)
ClaimsNow == link /\ ~saving /\ native' = "mesh"

(***************************************************************************)
(* Mutant: the App has stopped RadioLink already.                          *)
(***************************************************************************)
ApplyMeshTrusting ==
  /\ radioPending' = FALSE
  /\ UNCHANGED posted
  /\ aside' = FALSE
  /\ meshPending' = radioOn
  /\ polling' = (polling \/ radioOn)
  /\ \/ ~radioOn /\ ClaimsNow /\ holder # "other" /\ send(<<"claim">>)
     \/ (radioOn \/ ~ClaimsNow \/ holder # "none") /\ UNCHANGED up
  /\ UNCHANGED manual

(***************************************************************************)
(* To MESH: the first look of waitRadioReleased is part of the step.       *)
(***************************************************************************)
ApplyMesh ==
  /\ radioPending' = FALSE
  /\ post(<<FALSE>>)
  /\ aside' = FALSE
  /\ meshPending' = radioOn
  /\ polling' = (polling \/ radioOn)
  /\ \/ ~radioOn /\ ClaimsNow /\ holder # "other" /\ send(<<"claim">>)
     \/ (radioOn \/ ~ClaimsNow \/ holder # "none") /\ UNCHANGED up
  /\ UNCHANGED manual

(***************************************************************************)
(* adoptRadioPath, from the 20 Hz loop (tick) or from the App.  A path     *)
(* that is new to the page is written back to the App, which on the way to *)
(* MESH stops RadioLink as the page does.                                  *)
(***************************************************************************)
adoptRadioPath(next, tick) ==
  /\ Room /\ PostRoom(2)
  /\ path' = next
  /\ native' = IF next # path THEN next ELSE native
  /\ fallback' = (next = "radio")
  /\ IF next = "radio" THEN ApplyRadio(tick) ELSE ApplyMesh
  /\ UNCHANGED <<holder, retry, saving, starting, switches, radioOn, link,
                 down, controller, drops>>

(***************************************************************************)
(* The button of the App: the path is stored, RadioLink stopped at once on *)
(* the way to MESH, and the page told by a script that runs later.         *)
(***************************************************************************)
toggleRadioPath ==
  /\ switches < MaxSwitches /\ PostRoom(1)
  /\ switches' = switches + 1
  /\ native' = IF native = "radio" THEN "mesh" ELSE "radio"
  /\ post(IF native = "radio" THEN <<FALSE>> ELSE <<>>)
  /\ pushed' = Append(pushed, native')
  /\ UNCHANGED <<page, saving, starting, radioOn, aside, net>>

PushToWeb ==
  /\ pushed # <<>>
  /\ pushed' = Tail(pushed)
  /\ adoptRadioPath(Head(pushed), FALSE)

(***************************************************************************)
(* The 20 Hz loop: syncNativeRadioPath, then under 2.4G ensureManualMode.  *)
(***************************************************************************)
Loop ==
  \/ /\ native # path
     /\ adoptRadioPath(native, TRUE)
     /\ UNCHANGED pushed
  \/ /\ native = "radio" /\ path = "radio" /\ ~manual /\ PostRoom(1)
     /\ ensureManualMode(holder)
     /\ post(ManualCalls)
     /\ UNCHANGED <<path, holder, radioPending, meshPending, polling, retry,
                    fallback, saving, app, radioOn, aside, net>>

(***************************************************************************)
(* waitRadioReleased looks every 40 ms and gives up after 1.5 s; giving up *)
(* leaves meshPending as it is.                                            *)
(***************************************************************************)
waitRadioReleased ==
  /\ polling /\ Room
  /\ \/ /\ ~meshPending \/ path # "mesh"
        /\ polling' = FALSE
        /\ UNCHANGED <<meshPending, up>>
     \/ /\ meshPending /\ path = "mesh" /\ ~radioOn
        /\ polling' = FALSE
        /\ meshPending' = FALSE
        /\ IF link THEN requestControl(holder) ELSE UNCHANGED up
     \/ /\ meshPending /\ path = "mesh" /\ radioOn
        /\ polling' = FALSE
        /\ UNCHANGED <<meshPending, up>>
  /\ UNCHANGED <<path, holder, radioPending, retry, manual, fallback, saving,
                 app, radio, link, down, controller, drops>>

-------------------------------------------------------------------------------
(***************************************************************************)
(* Whoever asks for control: the view of the dual camera is selected, the  *)
(* App comes back to the foreground, the walk key is pressed.  The control *)
(* button claims too, or yields; keys are then sent over 2.4G.             *)
(***************************************************************************)
AskForControl ==
  /\ Spare
  /\ \/ requestControl(holder)
     \/ link /\ ~radioDirect /\ holder = "none" /\ send(<<"claim">>)
  /\ UNCHANGED <<page, saving, app, radio, link, down, controller, drops>>

ControlButton ==
  /\ Spare /\ link
  /\ fallback' = hasControl
  /\ IF hasControl THEN send(<<"yield">>)
     ELSE IF radioDirect THEN UNCHANGED up
     ELSE send(<<"claim">>)
  /\ UNCHANGED <<path, holder, radioPending, meshPending, polling, retry,
                 manual, saving, app, radio, link, down, controller, drops>>

(***************************************************************************)
(* A key of the G20, or the stop button, that goes out over the radio: on  *)
(* MESH too, while the gateway is away or control was given back.          *)
(***************************************************************************)
radioOnly == radioDirect \/ ~link \/ (fallback /\ ~hasControl)

radioCmd ==
  /\ radioOnly /\ PostRoom(3)
  /\ post(<<TRUE>>)
  /\ aside' = (aside \/ path = "mesh")
  /\ UNCHANGED <<page, saving, app, radioOn, net>>

(***************************************************************************)
(* The dog camera's picture is pulled over the radio under 2.4G, and on    *)
(* MESH once the gateway's relay has failed (bindRadio): the page asks for *)
(* it, and the App's UI thread starts it later (videoStartOn).             *)
(***************************************************************************)
startNative ==
  /\ starting < MaxStarts
  /\ starting' = starting + 1
  /\ UNCHANGED <<page, saving, native, pushed, switches, radio, net>>

(***************************************************************************)
(* NativeVideo.start switches RadioLink on, unless it plays this already.  *)
(* It asks for no path: a start asked under 2.4G may come after the stops  *)
(* of a switch to MESH.                                                    *)
(***************************************************************************)
NativeVideoStart ==
  /\ starting > 0 /\ PostRoom(3)
  /\ starting' = starting - 1
  /\ \/ post(<<TRUE>>) /\ aside' = (aside \/ path = "mesh")
     \/ UNCHANGED <<posted, aside>>
  /\ UNCHANGED <<page, saving, native, pushed, switches, radioOn, net>>

(***************************************************************************)
(* A save is started in the settings panel, and comes to an end.           *)
(***************************************************************************)
blockClaim ==
  /\ saving' = ~saving
  /\ UNCHANGED <<page, app, radio, net>>

(***************************************************************************)
(* RadioLink's thread carries out setEnabled.                              *)
(***************************************************************************)
setEnabled ==
  /\ posted # <<>>
  /\ radioOn' = Head(posted)
  /\ posted' = Tail(posted)
  /\ UNCHANGED <<page, saving, app, aside, net>>

-------------------------------------------------------------------------------
(***************************************************************************)
(* The gateway.  It greets with the holder, answers a claim, and tells     *)
(* everybody when the holder changes.                                      *)
(***************************************************************************)
Told(c) == IF c = "ghost" THEN "other" ELSE c

Tell(t, c) == Append(down, [t |-> t, holder |-> Told(c)])

onWsOpen ==
  /\ ~link
  /\ link' = TRUE
  /\ down' = <<[t |-> "hello", holder |-> Told(controller)]>>
  /\ UNCHANGED <<page, saving, app, radio, up, controller, drops>>

(***************************************************************************)
(* Mutant: the page goes on taking itself for the holder.                  *)
(***************************************************************************)
onWsCloseHolding ==
  /\ link /\ drops < MaxDrops
  /\ drops' = drops + 1
  /\ link' = FALSE /\ up' = <<>> /\ down' = <<>>
  /\ manual' = FALSE
  /\ controller' \in IF controller = "me" THEN {"none", "ghost"}
                                          ELSE {controller}
  /\ UNCHANGED <<path, holder, radioPending, meshPending, polling, retry,
                 fallback, saving, app, radio>>

(***************************************************************************)
(* onWsClose forgets who holds control, and with it the manual mode.  The  *)
(* gateway hears of it at once, or not before the lease runs out.          *)
(***************************************************************************)
onWsClose ==
  /\ link /\ drops < MaxDrops
  /\ drops' = drops + 1
  /\ link' = FALSE /\ up' = <<>> /\ down' = <<>>
  /\ holder' = "none" /\ manual' = FALSE
  /\ controller' \in IF controller = "me" THEN {"none", "ghost"}
                                          ELSE {controller}
  /\ UNCHANGED <<path, radioPending, meshPending, polling, retry, fallback,
                 saving, app, radio>>

DispatchMessage ==
  /\ up # <<>>
  /\ up' = Tail(up)
  /\ controller' =
       IF Head(up) = "claim"
         THEN IF controller \in {"none", "me"} THEN "me" ELSE controller
         ELSE IF controller = "me" THEN "none" ELSE controller
  /\ IF Head(up) = "claim" \/ controller = "me"
       THEN down' = Tell("control", controller')
       ELSE UNCHANGED down
  /\ UNCHANGED <<page, saving, app, radio, link, drops>>

(***************************************************************************)
(* Another console takes control or lets go of it; a lease runs out, this  *)
(* page's while the system throttles its timers.                           *)
(***************************************************************************)
Becomes(c) ==
  /\ Spare
  /\ controller' = c
  /\ IF link THEN down' = Tell("control", c) ELSE UNCHANGED down
  /\ UNCHANGED <<page, saving, app, radio, link, up, drops>>

OtherClaims == controller = "none" /\ Becomes("other")
OtherYields == controller = "other" /\ Becomes("none")
LeaseExpires == controller \in {"me", "ghost"} /\ Becomes("none")

-------------------------------------------------------------------------------
(***************************************************************************)
(* handleWsText: hello.  A connection is greeted before it can have        *)
(* claimed, so that its branch for a holder under 2.4G is never taken.     *)
(***************************************************************************)
Arrives(t) == down # <<>> /\ Head(down).t = t /\ down' = Tail(down)

OnHello ==
  /\ Arrives("hello") /\ PostRoom(1)
  /\ holder' = Head(down).holder
  /\ ensureManualMode(holder')
  /\ post(ManualCalls)
  /\ IF path = "mesh" /\ ~meshPending THEN requestControl(holder')
                                      ELSE UNCHANGED up
  /\ UNCHANGED <<path, radioPending, meshPending, polling, retry, fallback,
                 saving, app, radioOn, aside, link, controller, drops>>

(***************************************************************************)
(* Mutant: only the answer to the own yield starts 2.4G.                   *)
(***************************************************************************)
FinishesOwnYield(h) ==
  path = "radio" /\ radioPending /\ hasControl /\ h = "none"

(***************************************************************************)
(* finishRadioAcquire: nobody holds control any more.                      *)
(***************************************************************************)
FinishesRadio(h) == path = "radio" /\ radioPending /\ h = "none"

finishRadioAcquire(h) ==
  /\ radioPending' = (radioPending /\ ~FinishesRadio(h))
  /\ post(ManualCalls \o
          IF FinishesRadio(h) /\ native = "radio" THEN <<TRUE>> ELSE <<>>)

(***************************************************************************)
(* Mutant: only what this page has lost is claimed again.                  *)
(***************************************************************************)
ClaimsLostLater(h) ==
  path = "mesh" /\ ~meshPending /\ h = "none" /\ hasControl

(***************************************************************************)
(* control: on MESH a free gateway is claimed again 100 ms later.          *)
(***************************************************************************)
ClaimsLater(h) == path = "mesh" /\ ~meshPending /\ h = "none"

OnControl ==
  /\ Arrives("control") /\ PostRoom(2)
  /\ holder' = Head(down).holder
  /\ ensureManualMode(holder')
  /\ finishRadioAcquire(holder')
  /\ retry' = (retry \/ ClaimsLater(holder'))
  /\ UNCHANGED <<path, meshPending, polling, fallback, saving, app, radioOn,
                 aside, link, up, controller, drops>>

ClaimAgain ==
  /\ retry /\ Room
  /\ retry' = FALSE
  /\ requestControl(holder)
  /\ UNCHANGED <<path, holder, radioPending, meshPending, polling, manual,
                 fallback, saving, app, radio, link, down, controller, drops>>

-------------------------------------------------------------------------------
Next ==
  \/ toggleRadioPath \/ PushToWeb \/ Loop \/ waitRadioReleased
  \/ AskForControl \/ ControlButton \/ radioCmd \/ blockClaim
  \/ startNative \/ NativeVideoStart \/ setEnabled
  \/ onWsOpen \/ onWsClose \/ DispatchMessage
  \/ OtherClaims \/ OtherYields \/ LeaseExpires
  \/ OnHello \/ OnControl \/ ClaimAgain

(***************************************************************************)
(* The page's timers and handlers, RadioLink's thread and the gateway run; *)
(* the connection is tried again.  Nobody has to press anything.           *)
(***************************************************************************)
Fairness ==
  /\ WF_vars(PushToWeb) /\ WF_vars(Loop) /\ WF_vars(waitRadioReleased)
  /\ WF_vars(setEnabled)
  /\ WF_vars(onWsOpen) /\ WF_vars(DispatchMessage)
  /\ WF_vars(OnHello) /\ WF_vars(OnControl) /\ WF_vars(ClaimAgain)

Spec == Init /\ [][Next]_vars /\ Fairness

-------------------------------------------------------------------------------
(***************************************************************************)
(* Once page and App agree on MESH and RadioLink has done what it was      *)
(* told, it is silent, however often and however fast the path was         *)
(* switched and whatever was still under way.  Only what bypasses the      *)
(* handshake afterwards may have started it again: a key while the gateway *)
(* is away, the video's fallback, or a picture the UI thread starts only   *)
(* now that was asked for under 2.4G.                                      *)
(***************************************************************************)
MeshSilencesRadio ==
  path = "mesh" /\ native = "mesh" /\ posted = <<>> /\ ~aside => ~radioOn

(***************************************************************************)
(* An App that stays on MESH gets control of a gateway nobody else holds,  *)
(* and gets it again whenever it is lost.  Two ways out are real and named *)
(* here: the wait for RadioLink was given up (meshPending stays), or a     *)
(* save in the settings panel swallowed the claim.                         *)
(***************************************************************************)
MeshTakesBack ==
  []~saving /\ <>[](/\ path = "mesh" /\ native = "mesh" /\ ~meshPending
                    /\ link /\ controller \in {"none", "me"})
    => []<>(controller = "me")

(***************************************************************************)
(* An App that stays on 2.4G drives over it once nobody else holds         *)
(* control, even if the answer to its yield was lost with the connection.  *)
(***************************************************************************)
RadioComesUp ==
  <>[](path = "radio" /\ native = "radio" /\ controller \in {"none", "me"})
    => <>[]radioOn

(***************************************************************************)
(* What the page hears of control: what it holds true, then the messages   *)
(* on their way.  Between two consoles that hold control it always hears   *)
(* that nobody does, which is what finishRadioAcquire and the claim on     *)
(* MESH wait for: the gateway passes control through nobody, and no        *)
(* message of a lost connection reaches the next one.                      *)
(***************************************************************************)
Said(i) == IF i = 0 THEN holder ELSE down[i].holder

TakesTurns ==
  \A i \in 0..Len(down), k \in 0..Len(down) :
    i < k /\ Said(i) # "none" /\ Said(k) # "none" /\ Said(i) # Said(k)
      => \E j \in (i + 1)..(k - 1) : Said(j) = "none"

(***************************************************************************)
(* On MESH a gateway nobody holds is claimed, or will be: a claim is on    *)
(* its way, its 100 ms timer runs, or a message or a switch is still to be *)
(* seen.  A save in the settings panel swallows claims.                    *)
(***************************************************************************)
FreeGatewayIsClaimed ==
  path = "mesh" /\ native = "mesh" /\ ~meshPending /\ link /\ controller = "none"
    => retry \/ pushed # <<>> \/ down # <<>> \/ "claim" \in Range(up)

(***************************************************************************)
(* On 2.4G RadioLink is on once it has done what it was told, or will be   *)
(* told: by ensureManualMode, or by the message that whom radioPending     *)
(* waits for has let go.  For that message the page waits only if another  *)
(* console holds control, its own yield is on its way, or it is coming.    *)
(***************************************************************************)
RadioIsOwed ==
  path = "radio" /\ native = "radio" /\ pushed = <<>> =>
    \/ IF posted = <<>> THEN radioOn ELSE posted[Len(posted)]
    \/ ~manual
    \/ radioPending /\ holder = "other"
    \/ radioPending /\ holder = "me"
         /\ ("yield" \in Range(up) \/ \E i \in 1..Len(down) : Said(i) = "none")

(***************************************************************************)
(* ControlActivity.java:216: 2.4G is started after the gateway has         *)
(* confirmed the yield, so that the two heartbeats never overlap.  So      *)
(* while the page, on 2.4G, waits to hear that nobody holds control, and   *)
(* the gateway commands the robot for somebody, RadioLink is not on.       *)
(***************************************************************************)
HeartbeatsNeverOverlap ==
  path = "radio" /\ native = "radio" /\ radioPending /\ controller # "none"
    => aside \/ ~radioOn
===============================================================================
