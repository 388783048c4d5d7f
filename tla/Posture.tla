-------------------------------- MODULE Posture --------------------------------
(***************************************************************************)
(* Who knows whether the dog stands (web/app.js, RadioLink.java).          *)
(*                                                                         *)
(* Standing up, lying down and unloading the locked joints are one and the *)
(* same toggle of the motion host, and after standing up its telemetry     *)
(* still says "sitting".  So everybody remembers what he commanded: the    *)
(* gateway, RadioLink, and the page, which carries the memory from one to  *)
(* the other when the path is switched.  Whoever remembers wrongly makes   *)
(* the dog do the opposite of what the key says.                           *)
(*                                                                         *)
(* One App, alone with its dog: nobody else moves it or claims control,    *)
(* the connection stays up, and RadioLink gets no telemetry (the tablet is *)
(* not registered with the motion host).  Throughout, the gateway either   *)
(* has fresh reports of ROS or the body monitor, beside the telemetry or   *)
(* instead of it, or has its memory only; it always hears that the joints  *)
(* are locked.  The dog is not walking.                                    *)
(***************************************************************************)
EXTENDS Integers, Sequences, Functions

CONSTANTS
  Starts,     \* the paths the App may start on
  MaxPresses, \* bound: keys pressed
  MaxFlips,   \* bound: presses of the path button
  MaxQueue    \* bound: messages each way, and jobs of RadioLink's thread

ASSUME PostureAssumption ==
  /\ Starts \subseteq {"mesh", "radio"}
  /\ MaxPresses \in Nat /\ MaxFlips \in Nat /\ MaxQueue \in Nat \ {0}

VARIABLES
  dog,          \* the truth
  source,       \* whether ROS or the body monitor report "beside" a telemetry
                \* that says sitting, or "instead" of it; else "memory"
  gwUp,         \* MotionClient::last_stand_sit_ is kStood
  mine,         \* the gateway's controller is this page
  rcOn, rcUp, rcKnown, rcLocked, \* RadioLink: enabled, standing, poseKnown,
                \* emergency
  jobs,         \* what is posted to RadioLink's thread
  standLater,   \* standTask waits for the joints to be unloaded
  way, shellWay, \* app.radioPath, and GatewayStore's path
  posture,      \* app.posture
  locked,       \* app.emergencyLocked
  handoff,      \* app.poseHandoff
  poseMem,
  owns,         \* app.hasControl
  wanted,       \* app.pendingCycle is "pose"
  acquiring, releasing, again, \* radioAcquirePending, meshAcquirePending and
                \* the 100 ms timer of a control message
  toGw, toPage, \* messages on the socket
  hasty,        \* history: a key or a switch came before the last had shown
  lockMoved,    \* history: it was switched while the joints were locked
  refused,      \* history: the gateway has turned down a claim's "prone"
                \* although it remembers that the dog stands
  presses, flips

dogVars == <<dog, source>>
gwVars == <<gwUp, mine>>
rcVars == <<rcOn, rcUp, rcKnown, rcLocked, standLater>>
knows == <<posture, locked, handoff, poseMem>>
shake == <<owns, acquiring, releasing, again>>
bounds == <<hasty, lockMoved, refused, presses, flips>>
postureVars == <<dogVars, gwVars, rcVars, jobs, way, shellWay, knows, shake,
                 wanted, toGw, toPage, bounds>>

Poses == {"up", "prone"}
Keys == {"stand_up", "sit_down", "unload", "estop"}
Jobs == Keys \cup {"on", "off"} \cup Poses
Claims == [t : {"claim"}, pose : Poses \cup {"none"}]
Simple == [t : Keys \cup {"yield"}]
States == [t : {"state"}, posture : {"standing", "prone", "locked"},
           up : BOOLEAN]
Controls == [t : {"control"}, mine : BOOLEAN]

PostureTypeOK ==
  /\ dog \in {"prone", "up", "locked"}
  /\ source \in {"memory", "beside", "instead"}
  /\ {gwUp, mine, rcOn, rcUp, rcKnown, rcLocked, standLater, locked, owns,
      wanted, acquiring, releasing, again, hasty, lockMoved,
      refused} \subseteq BOOLEAN
  /\ jobs \in Seq(Jobs) /\ Len(jobs) <= MaxQueue
  /\ {way, shellWay} \subseteq {"mesh", "radio"}
  /\ posture \in {"standing", "prone", "locked"}
  /\ handoff \in Poses \cup {"none"} /\ poseMem \in Poses
  /\ toGw \in Seq(Claims \cup Simple) /\ Len(toGw) <= MaxQueue
  /\ toPage \in Seq(States \cup Controls)
  /\ presses \in 0..MaxPresses /\ flips \in 0..MaxFlips

isStandingUi == posture = "standing" \/ handoff = "up"

Pose(up) == IF up THEN "up" ELSE "prone"

(***************************************************************************)
(* The App has driven on one of the paths for a while.                     *)
(***************************************************************************)
PostureInit ==
  /\ dog \in Poses /\ source \in {"memory", "beside", "instead"}
  /\ way \in Starts /\ shellWay = way
  /\ gwUp = (dog = "up") /\ mine = (way = "mesh") /\ owns = mine
  /\ rcOn = ~mine /\ rcKnown = ~mine /\ rcUp = (~mine /\ dog = "up")
  /\ rcLocked = FALSE /\ standLater = FALSE /\ jobs = <<>>
  /\ posture = IF dog = "up" THEN "standing" ELSE "prone"
  /\ locked = FALSE /\ handoff = "none" /\ poseMem = dog /\ wanted = FALSE
  /\ acquiring = FALSE /\ releasing = FALSE /\ again = FALSE
  /\ toGw = <<>> /\ toPage = <<>>
  /\ hasty = FALSE /\ lockMoved = FALSE /\ refused = FALSE
  /\ presses = 0 /\ flips = 0

-------------------------------------------------------------------------------
(***************************************************************************)
(* The motion host: one code stands the dog up, lays it down and unloads.  *)
(***************************************************************************)
StandSitToggle == dog' = IF dog = "prone" THEN "up" ELSE "prone"

(***************************************************************************)
(* MotionClient::View.  A telemetry that says sitting gives way to ROS and *)
(* the body monitor only when they say more than lying (neither 0), so     *)
(* that for a dog that lies the memory counts beside them too.             *)
(***************************************************************************)
Upright ==
  \/ source # "memory" /\ dog = "up"
  \/ source # "instead" /\ gwUp

View ==
  IF dog = "locked" THEN "locked"
  ELSE IF Upright THEN "standing" ELSE "prone"

(***************************************************************************)
(* OnMessage and DispatchMessage of the gateway.                           *)
(***************************************************************************)
Take(t) == toGw # <<>> /\ Head(toGw).t = t /\ toGw' = Tail(toGw)

gwOnly == UNCHANGED <<source, rcVars, jobs, way, shellWay, knows, shake,
                      wanted, hasty, lockMoved, presses, flips>>

(***************************************************************************)
(* Mutant: a claim changes who is in control and nothing else.             *)
(***************************************************************************)
GwClaimOnly ==
  /\ Take("claim") /\ gwOnly
  /\ mine' = TRUE
  /\ toPage' = Append(toPage, [t |-> "control", mine |-> TRUE])
  /\ UNCHANGED <<dog, gwUp, refused>>

(***************************************************************************)
(* A claim's posture is adopted only by a gateway that has nothing but its *)
(* memory (robot_service.cpp:642).                                         *)
(***************************************************************************)
GwClaim ==
  /\ Take("claim") /\ gwOnly
  /\ mine' = TRUE
  /\ gwUp' = IF Head(toGw).pose # "none" /\ source = "memory"
               THEN Head(toGw).pose = "up" ELSE gwUp
  /\ refused' = (refused \/ (source = "beside" /\ gwUp /\ Head(toGw).pose = "prone"))
  /\ toPage' = Append(toPage, [t |-> "control", mine |-> TRUE])
  /\ UNCHANGED dog

GwYield ==
  /\ Take("yield") /\ gwOnly
  /\ mine' = FALSE
  /\ toPage' = IF mine THEN Append(toPage, [t |-> "control", mine |-> FALSE])
                       ELSE toPage
  /\ UNCHANGED <<dog, gwUp, refused>>

GwPose(name, from, up) ==
  /\ Take(name) /\ gwOnly
  /\ IF mine /\ View = from
       THEN gwUp' = up /\ StandSitToggle
       ELSE UNCHANGED <<gwUp, dog>>
  /\ UNCHANGED <<mine, toPage, refused>>

GwEstop ==
  /\ Take("estop") /\ gwOnly
  /\ dog' = "locked" /\ gwUp' = FALSE
  /\ UNCHANGED <<mine, toPage, refused>>

DispatchPose ==
  \/ GwClaim \/ GwYield \/ GwEstop
  \/ GwPose("stand_up", "prone", TRUE)
  \/ GwPose("sit_down", "standing", FALSE)
  \/ GwPose("unload", "locked", FALSE)

(***************************************************************************)
(* StateLoop, ten times a second.  A report that would only repeat what    *)
(* the page shows, or what is under way already, is left out.              *)
(***************************************************************************)
Report == [t |-> "state", posture |-> View, up |-> gwUp]

StateReport ==
  /\ Len(toPage) < MaxQueue /\ Report \notin Range(toPage)
  /\ \/ posture # View \/ locked # (View = "locked")
     \/ handoff # "none" \/ poseMem # Pose(View = "standing")
  /\ toPage' = Append(toPage, Report)
  /\ UNCHANGED <<dogVars, gwVars, rcVars, jobs, way, shellWay, knows, shake,
                 wanted, toGw, bounds>>

-------------------------------------------------------------------------------
(***************************************************************************)
(* RadioLink's thread: setEnabled, adoptOnRadio, commandOnRadio.           *)
(***************************************************************************)
Run(names) ==
  /\ jobs # <<>> /\ Head(jobs) \in names /\ jobs' = Tail(jobs)
  /\ UNCHANGED <<source, gwVars, way, shellWay, knows, shake, wanted, toGw,
                 toPage, bounds>>

setEnabledOn ==
  /\ Run({"on"})
  /\ rcOn' = TRUE
  /\ UNCHANGED <<dog, rcUp, rcKnown, rcLocked, standLater>>

(***************************************************************************)
(* stop forgets the posture, but not that the joints were locked.          *)
(***************************************************************************)
stop ==
  /\ Run({"off"})
  /\ rcOn' = FALSE
  /\ IF rcOn THEN rcUp' = FALSE /\ rcKnown' = FALSE /\ standLater' = FALSE
             ELSE UNCHANGED <<rcUp, rcKnown, standLater>>
  /\ UNCHANGED <<dog, rcLocked>>

adoptOnRadio ==
  /\ Run(Poses)
  /\ rcUp' = (Head(jobs) = "up") /\ rcKnown' = TRUE
  /\ UNCHANGED <<dog, rcOn, rcLocked, standLater>>

(***************************************************************************)
(* A key finds RadioLink enabled: it is posted right behind an "on".       *)
(***************************************************************************)
Hears(name) == rcOn /\ Run({name}) /\ rcKnown' = TRUE /\ UNCHANGED rcOn

(***************************************************************************)
(* standUp: with locked joints unload first, and stand up 300 ms later.    *)
(***************************************************************************)
standUp ==
  /\ Hears("stand_up")
  /\ IF rcLocked
       THEN /\ StandSitToggle
            /\ rcLocked' = FALSE /\ rcUp' = FALSE /\ standLater' = TRUE
       ELSE /\ IF rcUp THEN UNCHANGED dog ELSE StandSitToggle
            /\ rcUp' = TRUE
            /\ UNCHANGED <<rcLocked, standLater>>

sitDown ==
  /\ Hears("sit_down")
  /\ IF rcUp THEN StandSitToggle /\ standLater' = FALSE
             ELSE UNCHANGED <<dog, standLater>>
  /\ rcUp' = FALSE
  /\ UNCHANGED rcLocked

unload ==
  /\ Hears("unload")
  /\ IF rcLocked THEN StandSitToggle /\ standLater' = FALSE
                 ELSE UNCHANGED <<dog, standLater>>
  /\ rcUp' = (rcUp /\ ~rcLocked) /\ rcLocked' = FALSE

estop ==
  /\ Hears("estop")
  /\ dog' = "locked"
  /\ rcLocked' = TRUE /\ rcUp' = FALSE /\ standLater' = FALSE

(***************************************************************************)
(* Mutant: standing up late is not remembered.                             *)
(***************************************************************************)
standUnnoted ==
  /\ standLater /\ standLater' = FALSE
  /\ StandSitToggle
  /\ UNCHANGED <<source, gwVars, rcOn, rcUp, rcKnown, rcLocked, jobs, way,
                 shellWay, knows, shake, wanted, toGw, toPage, bounds>>

(***************************************************************************)
(* standTask runs standNow; stop has removed it if RadioLink is disabled.  *)
(***************************************************************************)
standNow ==
  /\ standLater /\ standLater' = FALSE
  /\ StandSitToggle /\ rcUp' = TRUE
  /\ UNCHANGED <<source, gwVars, rcOn, rcKnown, rcLocked, jobs, way, shellWay,
                 knows, shake, wanted, toGw, toPage, bounds>>

onRadio ==
  \/ setEnabledOn \/ stop \/ adoptOnRadio
  \/ standUp \/ sitDown \/ unload \/ estop

postureState ==
  IF rcLocked THEN "locked" ELSE IF rcUp THEN "standing" ELSE "prone"

-------------------------------------------------------------------------------
(***************************************************************************)
(* The page.                                                               *)
(***************************************************************************)
radioDirect == way = "radio" \/ shellWay = "radio"

Post(names) == Len(jobs) + Len(names) <= MaxQueue /\ jobs' = jobs \o names

Send(messages) == Len(toGw) + Len(messages) <= MaxQueue /\ toGw' = toGw \o messages

claimMsg == [t |-> "claim", pose |-> handoff]

Settles(says, up) ==
  /\ posture' = says
  /\ handoff' = IF handoff = Pose(up) THEN "none" ELSE handoff

(***************************************************************************)
(* renderState, on MESH: checkPoseHint ends the handoff once the gateway   *)
(* remembers the same; what the button says is noted.                      *)
(***************************************************************************)
renderState ==
  /\ toPage # <<>> /\ Head(toPage).t = "state" /\ toPage' = Tail(toPage)
  /\ IF radioDirect THEN UNCHANGED knows
     ELSE /\ Settles(Head(toPage).posture, Head(toPage).up)
          /\ locked' = (posture' = "locked")
          /\ poseMem' = Pose(isStandingUi')
  /\ UNCHANGED <<dogVars, gwVars, rcVars, jobs, way, shellWay, shake, wanted,
                 toGw, bounds>>

(***************************************************************************)
(* The 20 Hz loop under 2.4G: syncRadioStanding reads RadioLink's memory.  *)
(* What the button says is noted before the handoff ends.                  *)
(***************************************************************************)
syncRadioStanding ==
  /\ way = "radio" /\ shellWay = "radio"
  /\ IF rcKnown THEN Settles(postureState, rcUp)
                ELSE posture' = postureState /\ UNCHANGED handoff
  /\ locked' = rcLocked
  /\ poseMem' = IF ~rcKnown THEN poseMem
                ELSE Pose(posture' = "standing" \/ handoff = "up")
  /\ <<posture, locked, handoff, poseMem>> # <<posture', locked', handoff', poseMem'>>
  /\ UNCHANGED <<dogVars, gwVars, rcVars, jobs, way, shellWay, shake, wanted,
                 toGw, toPage, bounds>>

(***************************************************************************)
(* A key, a button of the screen or L2.  cyclePose takes what the button   *)
(* says; the two keys of the G20 say what they want, but with locked       *)
(* joints unload too.                                                      *)
(***************************************************************************)
cyclePose == IF locked THEN "unload"
             ELSE IF isStandingUi THEN "sit_down" ELSE "stand_up"

Meant == {cyclePose} \cup (IF locked THEN {} ELSE {"stand_up", "sit_down"})

UnderWay(names) ==
  names \cap (Range(jobs) \cup {toGw[i].t : i \in DOMAIN toGw}) # {}

(***************************************************************************)
(* Too soon: the path is just being switched or, on 2.4G, the posture is   *)
(* just being handed over or the dog stands up late; another key for       *)
(* locked joints is under way, or one more key and the stop, which goes    *)
(* both ways and may be overtaken.                                         *)
(***************************************************************************)
TooSoon(amid) ==
  \/ way # shellWay
  \/ radioDirect /\ (standLater \/ handoff # "none" \/ UnderWay(amid))

Pressed(amid) ==
  /\ presses < MaxPresses
  /\ presses' = presses + 1
  /\ hasty' = (hasty \/ TooSoon(amid))
  /\ UNCHANGED <<dogVars, gwVars, rcVars, way, shellWay, posture, poseMem,
                 shake, toPage, lockMoved, refused, flips>>

PoseKey ==
  /\ Pressed(IF dog = "locked" THEN Keys ELSE {"estop"})
  /\ \E name \in Meant :
       IF radioDirect
         THEN Post(<<"on", name>>) /\ UNCHANGED <<handoff, toGw>>
         ELSE owns /\ Send(<<[t |-> name]>>) /\ handoff' = "none"
                   /\ UNCHANGED jobs
  /\ UNCHANGED <<locked, wanted>>

(***************************************************************************)
(* meshMotionGate: L2 without control claims it and waits (pendingCycle).  *)
(***************************************************************************)
PoseKeyClaims ==
  /\ Pressed({}) /\ ~radioDirect /\ ~owns
  /\ wanted' = TRUE
  /\ Send(<<claimMsg>>)
  /\ UNCHANGED <<jobs, locked, handoff>>

(***************************************************************************)
(* The stop button goes both ways under 2.4G, and the page takes the       *)
(* joints for locked without waiting.                                      *)
(***************************************************************************)
EstopKey ==
  /\ Pressed(Keys)
  /\ IF radioDirect THEN Post(<<"on", "estop">>) ELSE UNCHANGED jobs
  /\ Send(<<[t |-> "estop"]>>)
  /\ handoff' = "none" /\ locked' = TRUE
  /\ UNCHANGED wanted

-------------------------------------------------------------------------------
(***************************************************************************)
(* The path button of the App.  Unseen: something the operator or the App  *)
(* did does not show yet.                                                  *)
(***************************************************************************)
Unseen ==
  \/ jobs # <<>> \/ standLater \/ UnderWay(Keys) \/ wanted
  \/ LET now == IF radioDirect THEN postureState ELSE View
     IN  posture # now \/ poseMem # Pose(now = "standing")
  \/ UnderWay({"claim", "yield"})
  \/ \E m \in Range(toPage) : m.t = "control" \/ m # Report
  \/ way # shellWay \/ acquiring \/ releasing \/ again
  \/ handoff # "none"

togglePath ==
  /\ flips < MaxFlips /\ flips' = flips + 1
  /\ hasty' = (hasty \/ Unseen)
  /\ lockMoved' = (lockMoved \/ dog = "locked" \/ locked)
  /\ shellWay' = IF shellWay = "radio" THEN "mesh" ELSE "radio"
  /\ IF shellWay = "radio" THEN Post(<<"off">>) ELSE UNCHANGED jobs
  /\ UNCHANGED <<dogVars, gwVars, rcVars, way, knows, shake, wanted, toGw,
                 toPage, refused, presses>>

(***************************************************************************)
(* Mutant: what the button shows goes over as it is.                       *)
(***************************************************************************)
handoffShown == IF rcKnown THEN posture ELSE poseMem

(***************************************************************************)
(* adoptRadioPath, a moment later: handoffPose takes what the button says  *)
(* while RadioLink knows the posture, else what was noted last.  Page and  *)
(* App disagree on the path here, so that the gateway's report does not    *)
(* count.  The memory goes to RadioLink, or to the gateway with the claim. *)
(***************************************************************************)
handoffPose == IF rcKnown THEN Pose(isStandingUi) ELSE poseMem

requestControl ==
  IF (owns /\ handoff = "none") \/ radioDirect
    THEN UNCHANGED toGw ELSE Send(<<claimMsg>>)

adoptWay ==
  /\ way # shellWay
  /\ way' = shellWay
  /\ handoff' = handoffPose
  /\ posture' = IF handoffPose = "up" THEN "standing" ELSE "prone"
  /\ IF shellWay = "radio"
       THEN /\ Post(<<handoffPose>> \o IF owns THEN <<>> ELSE <<"on">>)
            /\ IF owns THEN Send(<<[t |-> "yield"]>>) ELSE UNCHANGED toGw
            /\ acquiring' = owns /\ releasing' = FALSE
       ELSE /\ Post(<<"off">>)
            /\ acquiring' = FALSE /\ releasing' = TRUE
            /\ UNCHANGED toGw
  /\ UNCHANGED <<dogVars, gwVars, rcVars, shellWay, locked, poseMem, owns,
                 again, wanted, toPage, bounds>>

(***************************************************************************)
(* waitRadioReleased, and the 100 ms timer: claim, with the posture.       *)
(***************************************************************************)
ClaimPosture ==
  /\ \/ releasing /\ way = "mesh" /\ ~rcOn /\ releasing' = FALSE
        /\ UNCHANGED again
     \/ again /\ again' = FALSE /\ UNCHANGED releasing
  /\ requestControl
  /\ UNCHANGED <<dogVars, gwVars, rcVars, jobs, way, shellWay, knows, owns,
                 acquiring, wanted, toPage, bounds>>

(***************************************************************************)
(* A control message: finishRadioAcquire under 2.4G; on MESH the pending   *)
(* key is carried out, or control is claimed again.                        *)
(***************************************************************************)
OnControl ==
  /\ toPage # <<>> /\ Head(toPage).t = "control" /\ toPage' = Tail(toPage)
  /\ owns' = Head(toPage).mine
  /\ LET free == way = "radio" /\ acquiring /\ ~owns'
         runs == owns' /\ wanted
     IN  /\ acquiring' = (acquiring /\ ~free)
         /\ again' = (again \/ (way = "mesh" /\ ~releasing /\ ~owns'))
         /\ wanted' = (wanted /\ ~owns')
         /\ IF runs /\ ~radioDirect
              THEN Send(<<[t |-> cyclePose]>>) /\ handoff' = "none"
              ELSE UNCHANGED <<toGw, handoff>>
         /\ Post((IF free THEN <<"on">> ELSE <<>>) \o
                 (IF runs /\ radioDirect THEN <<"on", cyclePose>> ELSE <<>>))
  /\ UNCHANGED <<dogVars, gwVars, rcVars, way, shellWay, posture, locked,
                 poseMem, releasing, bounds>>

-------------------------------------------------------------------------------
PostureNext ==
  \/ DispatchPose \/ StateReport
  \/ onRadio \/ standNow
  \/ renderState \/ syncRadioStanding \/ OnControl
  \/ PoseKey \/ PoseKeyClaims \/ EstopKey
  \/ togglePath \/ adoptWay \/ ClaimPosture

(***************************************************************************)
(* Everything but the operator's hand runs.                                *)
(***************************************************************************)
PostureFairness ==
  /\ WF_postureVars(DispatchPose) /\ WF_postureVars(StateReport)
  /\ WF_postureVars(onRadio) /\ WF_postureVars(standNow)
  /\ WF_postureVars(renderState) /\ WF_postureVars(syncRadioStanding)
  /\ WF_postureVars(OnControl)
  /\ WF_postureVars(adoptWay) /\ WF_postureVars(ClaimPosture)

PostureSpec == PostureInit /\ [][PostureNext]_postureVars /\ PostureFairness

-------------------------------------------------------------------------------
Opposite ==
  \/ dog = "up" /\ dog' = "prone" /\ (GwPose("stand_up", "prone", TRUE)
                                       \/ standUp \/ standNow)
  \/ dog = "prone" /\ dog' = "up" /\ (GwPose("sit_down", "standing", FALSE)
                                       \/ sitDown)

(***************************************************************************)
(* A key never makes the dog do the opposite of what it says (the comment  *)
(* above poseMem), on either path and after any number of switches, if     *)
(* nobody is hasty (the last key, and the answer to the claim of the last  *)
(* switch, have shown before the path is switched; no key comes TooSoon),  *)
(* the path is not switched with locked joints, of which the other side    *)
(* learns nothing, and the gateway has turned no "prone" down.             *)
(***************************************************************************)
NoOppositeMove == [][hasty \/ lockMoved \/ refused \/ ~Opposite]_postureVars

(***************************************************************************)
(* The button comes to say what the dog is: to lie down if it stands, to   *)
(* stand up if it lies, to unload if the joints are locked; with the same  *)
(* exceptions.                                                             *)
(***************************************************************************)
ButtonTellsTruth ==
  []<>(\/ hasty \/ lockMoved \/ refused
       \/ locked /\ dog = "locked"
       \/ ~locked /\ dog # "locked" /\ (isStandingUi <=> dog = "up"))

(***************************************************************************)
(* robot_service.cpp:640 turns the claim's posture down for fear that an   *)
(* old one makes a standing dog a lying one.  It is no more than that only *)
(* if it never keeps the memory of standing for a dog that lies.  No run   *)
(* checks this: TLC refutes it.  Up on MESH, down over 2.4G, back to MESH, *)
(* with reports beside the telemetry: motion_client.cpp:991 goes on taking *)
(* the dog for standing, and "sit_down" stands it up.                      *)
(***************************************************************************)
RefusalIsHarmless == [][hasty \/ lockMoved \/ ~Opposite]_postureVars

(***************************************************************************)
(* RadioLink.java:682: joints are unloaded only if they are locked; a dog  *)
(* that stands would be let down.                                          *)
(***************************************************************************)
UnloadsOnlyLocked ==
  [][\/ hasty \/ dog = "locked" \/ dog' = dog
     \/ ~(unload \/ (rcLocked /\ standUp))]_postureVars
===============================================================================
