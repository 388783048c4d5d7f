---------------------------- MODULE Posture_proofs ----------------------------
(***************************************************************************)
(* Who knows whether the dog stands, and who is in control: no key is      *)
(* taken for its opposite, for any number of keys, switches of the path    *)
(* and messages under way.                                                 *)
(***************************************************************************)
EXTENDS Posture, SequenceTheorems, TLAPS

-------------------------------------------------------------------------------
(***************************************************************************)
(* What the model does to its queues: the first message goes, messages are *)
(* appended.                                                               *)
(***************************************************************************)
LEMMA TailOf ==
  ASSUME NEW S, NEW s \in Seq(S), s # <<>>
  PROVE  /\ Tail(s) \in Seq(S) /\ Head(s) \in S
         /\ Len(s) \in Nat /\ Len(s) > 0 /\ Len(Tail(s)) = Len(s) - 1
         /\ DOMAIN s = 1..Len(s) /\ DOMAIN Tail(s) = 1..(Len(s) - 1)
         /\ Head(s) = s[1]
         /\ \A i \in DOMAIN Tail(s) : Tail(s)[i] = s[i + 1]
  OBVIOUS

LEMMA JoinOf ==
  ASSUME NEW S, NEW s \in Seq(S), NEW t \in Seq(S)
  PROVE  /\ s \o t \in Seq(S)
         /\ Len(s) \in Nat /\ Len(t) \in Nat /\ Len(s \o t) = Len(s) + Len(t)
         /\ DOMAIN s = 1..Len(s) /\ DOMAIN t = 1..Len(t)
         /\ DOMAIN (s \o t) = 1..(Len(s) + Len(t))
         /\ \A i \in 1..Len(s) : (s \o t)[i] = s[i]
         /\ \A i \in 1..Len(t) : (s \o t)[Len(s) + i] = t[i]
         /\ \A i \in DOMAIN (s \o t) : i > Len(s) => (s \o t)[i] = t[i - Len(s)]
  OBVIOUS

(***************************************************************************)
(* The type invariant: the dog and its gateway, RadioLink, what the page   *)
(* knows, and the path.                                                    *)
(***************************************************************************)
GwTyped ==
  /\ dog \in {"prone", "up", "locked"} /\ source \in {"memory", "beside", "instead"}
  /\ gwUp \in BOOLEAN /\ mine \in BOOLEAN
  /\ toGw \in Seq(Claims \cup Simple) /\ Len(toGw) <= MaxQueue

RcTyped ==
  /\ rcOn \in BOOLEAN /\ rcUp \in BOOLEAN /\ rcKnown \in BOOLEAN
  /\ rcLocked \in BOOLEAN /\ standLater \in BOOLEAN
  /\ jobs \in Seq(Jobs) /\ Len(jobs) <= MaxQueue

PageTyped ==
  /\ posture \in {"standing", "prone", "locked"} /\ locked \in BOOLEAN
  /\ handoff \in Poses \cup {"none"} /\ poseMem \in Poses
  /\ owns \in BOOLEAN /\ wanted \in BOOLEAN
  /\ toPage \in Seq(States \cup Controls)

PathTyped ==
  /\ way \in {"mesh", "radio"} /\ shellWay \in {"mesh", "radio"}
  /\ acquiring \in BOOLEAN /\ releasing \in BOOLEAN /\ again \in BOOLEAN
  /\ hasty \in BOOLEAN /\ lockMoved \in BOOLEAN /\ refused \in BOOLEAN
  /\ presses \in 0..MaxPresses /\ flips \in 0..MaxFlips

Typed == GwTyped /\ RcTyped /\ PageTyped /\ PathTyped

LEMMA TypeParts == PostureTypeOK <=> Typed
  BY DEF PostureTypeOK, Typed, GwTyped, RcTyped, PageTyped, PathTyped

LEMMA InitType == PostureInit => Typed
<1> SUFFICES ASSUME PostureInit PROVE Typed
  OBVIOUS
<1>1. GwTyped
  BY PostureAssumption DEF PostureInit, GwTyped, Poses
<1>2. RcTyped
  <2>1. /\ rcOn \in BOOLEAN /\ rcUp \in BOOLEAN /\ rcKnown \in BOOLEAN
        /\ rcLocked \in BOOLEAN /\ standLater \in BOOLEAN
    BY DEF PostureInit
  <2>2. jobs \in Seq(Jobs) /\ Len(jobs) <= MaxQueue
    BY PostureAssumption DEF PostureInit
  <2> QED
    BY <2>1, <2>2 DEF RcTyped
<1>3. PageTyped
  <2>1. owns \in BOOLEAN /\ locked \in BOOLEAN /\ wanted \in BOOLEAN
    BY DEF PostureInit
  <2>2. toPage \in Seq(States \cup Controls)
    BY DEF PostureInit
  <2>3. posture \in {"standing", "prone", "locked"}
    BY DEF PostureInit
  <2>4. handoff \in Poses \cup {"none"} /\ poseMem \in Poses
    BY DEF PostureInit, Poses
  <2> QED
    BY <2>1, <2>2, <2>3, <2>4 DEF PageTyped
<1>4. PathTyped
  <2>1. way \in {"mesh", "radio"} /\ shellWay \in {"mesh", "radio"}
    BY PostureAssumption DEF PostureInit
  <2>2. /\ acquiring \in BOOLEAN /\ releasing \in BOOLEAN /\ again \in BOOLEAN
        /\ hasty \in BOOLEAN /\ lockMoved \in BOOLEAN /\ refused \in BOOLEAN
    BY DEF PostureInit
  <2>3. presses \in 0..MaxPresses /\ flips \in 0..MaxFlips
    BY PostureAssumption DEF PostureInit
  <2> QED
    BY <2>1, <2>2, <2>3 DEF PathTyped
<1> QED
  BY <1>1, <1>2, <1>3, <1>4 DEF Typed

(***************************************************************************)
(* The three queues lose their heads.                                      *)
(***************************************************************************)
LEMMA GwTakes ==
  ASSUME Typed, NEW t, Take(t)
  PROVE  /\ toGw \in Seq(Claims \cup Simple) /\ toGw' \in Seq(Claims \cup Simple)
         /\ Len(toGw') <= MaxQueue
         /\ DOMAIN toGw = 1..Len(toGw) /\ Len(toGw) \in Nat /\ Len(toGw) > 0
         /\ DOMAIN toGw' = 1..(Len(toGw) - 1)
         /\ toGw[1].t = t /\ toGw[1] = Head(toGw) /\ toGw[1] \in Claims \cup Simple
         /\ \A i \in DOMAIN toGw' : toGw'[i] = toGw[i + 1]
<1>1. toGw \in Seq(Claims \cup Simple) /\ toGw # <<>> /\ toGw' = Tail(toGw)
      /\ Len(toGw) <= MaxQueue /\ Head(toGw).t = t
  BY DEF Typed, GwTyped, Take
<1> QED
  BY <1>1, TailOf, PostureAssumption

LEMMA RcRuns ==
  ASSUME Typed, NEW names, Run(names)
  PROVE  /\ jobs \in Seq(Jobs) /\ jobs' \in Seq(Jobs) /\ Len(jobs') <= MaxQueue
         /\ DOMAIN jobs = 1..Len(jobs) /\ Len(jobs) \in Nat /\ Len(jobs) > 0
         /\ DOMAIN jobs' = 1..(Len(jobs) - 1)
         /\ jobs[1] \in names /\ jobs[1] = Head(jobs) /\ jobs[1] \in Jobs
         /\ \A i \in DOMAIN jobs' : jobs'[i] = jobs[i + 1]
<1>1. jobs \in Seq(Jobs) /\ jobs # <<>> /\ jobs' = Tail(jobs)
      /\ Len(jobs) <= MaxQueue /\ Head(jobs) \in names
  BY DEF Typed, RcTyped, Run
<1> QED
  BY <1>1, TailOf, PostureAssumption

LEMMA PageTakes ==
  ASSUME Typed, toPage # <<>>, toPage' = Tail(toPage)
  PROVE  /\ toPage \in Seq(States \cup Controls) /\ toPage' \in Seq(States \cup Controls)
         /\ DOMAIN toPage = 1..Len(toPage) /\ Len(toPage) \in Nat /\ Len(toPage) > 0
         /\ DOMAIN toPage' = 1..(Len(toPage) - 1)
         /\ toPage[1] = Head(toPage) /\ toPage[1] \in States \cup Controls
         /\ \A i \in DOMAIN toPage' : toPage'[i] = toPage[i + 1]
<1>1. toPage \in Seq(States \cup Controls)
  BY DEF Typed, PageTyped
<1> QED
  BY <1>1, TailOf

(***************************************************************************)
(* Jobs and messages are appended.                                         *)
(***************************************************************************)
LEMMA Posting ==
  ASSUME Typed, NEW names \in Seq(Jobs), Post(names)
  PROVE  /\ jobs \in Seq(Jobs) /\ jobs' \in Seq(Jobs) /\ Len(jobs') <= MaxQueue
         /\ Len(jobs) \in Nat /\ Len(names) \in Nat
         /\ DOMAIN jobs = 1..Len(jobs)
         /\ DOMAIN jobs' = 1..(Len(jobs) + Len(names))
         /\ \A i \in 1..Len(jobs) : jobs'[i] = jobs[i]
         /\ \A i \in DOMAIN jobs' : i > Len(jobs) => jobs'[i] = names[i - Len(jobs)]
<1>1. jobs \in Seq(Jobs) /\ jobs' = jobs \o names /\ Len(jobs) + Len(names) <= MaxQueue
  BY DEF Typed, RcTyped, Post
<1> QED
  BY <1>1, JoinOf, PostureAssumption

LEMMA Sending ==
  ASSUME Typed, NEW m \in Claims \cup Simple, Send(<<m>>)
  PROVE  /\ toGw \in Seq(Claims \cup Simple) /\ toGw' \in Seq(Claims \cup Simple)
         /\ Len(toGw') <= MaxQueue /\ Len(toGw) \in Nat
         /\ DOMAIN toGw = 1..Len(toGw) /\ DOMAIN toGw' = 1..(Len(toGw) + 1)
         /\ \A i \in DOMAIN toGw : toGw'[i] = toGw[i]
         /\ toGw'[Len(toGw) + 1] = m
<1>1. toGw \in Seq(Claims \cup Simple) /\ toGw' = toGw \o <<m>> /\ Len(toGw) + 1 <= MaxQueue
  BY DEF Typed, GwTyped, Send
<1>2. <<m>> \in Seq(Claims \cup Simple) /\ Len(<<m>>) = 1 /\ <<m>>[1] = m
  OBVIOUS
<1> QED
  BY <1>1, <1>2, JoinOf, PostureAssumption

LEMMA Answering ==
  ASSUME Typed, NEW m \in States \cup Controls, toPage' = Append(toPage, m)
  PROVE  /\ toPage \in Seq(States \cup Controls) /\ toPage' \in Seq(States \cup Controls)
         /\ Len(toPage) \in Nat
         /\ DOMAIN toPage = 1..Len(toPage) /\ DOMAIN toPage' = 1..(Len(toPage) + 1)
         /\ \A i \in DOMAIN toPage : toPage'[i] = toPage[i]
         /\ toPage'[Len(toPage) + 1] = m
<1>1. toPage \in Seq(States \cup Controls)
  BY DEF Typed, PageTyped
<1> QED
  BY <1>1

(***************************************************************************)
(* What is posted and sent.                                                *)
(***************************************************************************)
LEMMA Messages ==
  ASSUME Typed
  PROVE  /\ claimMsg \in Claims \cup Simple
         /\ \A name \in Keys : [t |-> name] \in Claims \cup Simple /\ name \in Jobs
         /\ [t |-> "yield"] \in Claims \cup Simple
         /\ cyclePose \in Keys /\ Meant \subseteq Keys
         /\ {"stand_up", "sit_down", "unload", "estop"} \subseteq Keys
<1>1. claimMsg \in Claims
  BY DEF Typed, PageTyped, claimMsg, Claims
<1>2. cyclePose \in Keys /\ Meant \subseteq Keys
  BY DEF cyclePose, Meant, Keys
<1> QED
  BY <1>1, <1>2 DEF Simple, Keys, Jobs

LEMMA Postings ==
  /\ <<>> \in Seq(Jobs) /\ <<"off">> \in Seq(Jobs) /\ <<"on">> \in Seq(Jobs)
  /\ \A name \in Jobs : <<name>> \in Seq(Jobs) /\ <<"on", name>> \in Seq(Jobs)
                        /\ <<name, "on">> \in Seq(Jobs)
  BY DEF Jobs

LEMMA Answers ==
  /\ Typed => Report \in States /\ Report \in States \cup Controls
  /\ \A b \in BOOLEAN : [t |-> "control", mine |-> b] \in States \cup Controls
  BY DEF Report, States, Controls, View, Typed, GwTyped

LEMMA PosesNamed ==
  /\ \A up \in BOOLEAN : Pose(up) \in Poses
  /\ Typed => handoffPose \in Poses
<1>1. \A up \in BOOLEAN : Pose(up) \in Poses
  BY DEF Pose, Poses
<1> QED
  BY <1>1 DEF handoffPose, isStandingUi, Typed, PageTyped

LEMMA GwTypeStep == Typed /\ [PostureNext]_postureVars => GwTyped'
<1> SUFFICES ASSUME Typed, [PostureNext]_postureVars PROVE GwTyped'
  OBVIOUS
<1> USE DEF GwTyped
<1>1. CASE GwClaim \/ GwYield \/ GwEstop
  <2>1. toGw' \in Seq(Claims \cup Simple) /\ Len(toGw') <= MaxQueue
    BY <1>1, GwTakes DEF GwClaim, GwYield, GwEstop
  <2> QED
    BY <1>1, <2>1 DEF Typed, GwClaim, GwYield, GwEstop, gwOnly
<1>2. ASSUME NEW name, NEW from, NEW up \in BOOLEAN, GwPose(name, from, up)
      PROVE  GwTyped'
  BY <1>2, GwTakes DEF Typed, GwPose, gwOnly, StandSitToggle
<1>3. CASE onRadio \/ standNow
  BY <1>3 DEF Typed, onRadio, setEnabledOn, stop, adoptOnRadio, standUp, sitDown, unload,
              estop, Hears, Run, standNow, StandSitToggle, gwVars
<1>4. CASE StateReport \/ renderState \/ syncRadioStanding \/ togglePath \/ UNCHANGED postureVars
  BY <1>4 DEF Typed, StateReport, renderState, syncRadioStanding, togglePath, postureVars,
              dogVars, gwVars
<1>5. CASE OnControl
  <2>1. toGw' \in Seq(Claims \cup Simple) /\ Len(toGw') <= MaxQueue
    <3>1. CASE UNCHANGED toGw
      BY <3>1 DEF Typed
    <3>2. CASE Send(<<[t |-> cyclePose]>>)
      BY <3>2, Messages, Sending
    <3> QED
      BY <1>5, <3>1, <3>2 DEF OnControl
  <2> QED
    BY <1>5, <2>1 DEF OnControl, Typed, dogVars, gwVars
<1>6. CASE PoseKey \/ PoseKeyClaims \/ EstopKey
  <2>1. toGw' \in Seq(Claims \cup Simple) /\ Len(toGw') <= MaxQueue
    <3>1. CASE PoseKey
      BY <3>1, Messages, Sending DEF PoseKey, Typed
    <3>2. CASE PoseKeyClaims
      BY <3>2, Messages, Sending DEF PoseKeyClaims
    <3>3. CASE EstopKey
      BY <3>3, Messages, Sending DEF EstopKey
    <3> QED
      BY <1>6, <3>1, <3>2, <3>3
  <2>2. UNCHANGED <<dogVars, gwVars>>
    BY <1>6 DEF PoseKey, PoseKeyClaims, EstopKey, Pressed
  <2> QED
    BY <2>1, <2>2 DEF Typed, dogVars, gwVars
<1>7. CASE adoptWay \/ ClaimPosture
  <2>1. toGw' \in Seq(Claims \cup Simple) /\ Len(toGw') <= MaxQueue
    <3>1. CASE UNCHANGED toGw
      BY <3>1 DEF Typed
    <3>2. CASE Send(<<claimMsg>>) \/ Send(<<[t |-> "yield"]>>)
      BY <3>2, Messages, Sending
    <3> QED
      BY <1>7, <3>1, <3>2 DEF adoptWay, ClaimPosture, requestControl
  <2>2. UNCHANGED <<dogVars, gwVars>>
    BY <1>7 DEF adoptWay, ClaimPosture
  <2> QED
    BY <2>1, <2>2 DEF Typed, dogVars, gwVars
<1> QED
  BY <1>1, <1>2, <1>3, <1>4, <1>5, <1>6, <1>7 DEF PostureNext, DispatchPose

LEMMA RcTypeStep == Typed /\ [PostureNext]_postureVars => RcTyped'
<1> SUFFICES ASSUME Typed, [PostureNext]_postureVars PROVE RcTyped'
  OBVIOUS
<1> DEFINE Flags == /\ rcOn \in BOOLEAN /\ rcUp \in BOOLEAN /\ rcKnown \in BOOLEAN
                    /\ rcLocked \in BOOLEAN /\ standLater \in BOOLEAN
           Queue == jobs \in Seq(Jobs) /\ Len(jobs) <= MaxQueue
<1>0. Flags /\ Queue
  BY DEF Typed, RcTyped
<1>1. CASE onRadio
  <2>1. Queue'
    BY <1>1, RcRuns DEF onRadio, setEnabledOn, stop, adoptOnRadio, standUp, sitDown, unload,
                        estop, Hears
  <2>2. Flags'
    <3>1. CASE setEnabledOn \/ stop \/ adoptOnRadio
      BY <1>0, <3>1 DEF setEnabledOn, stop, adoptOnRadio
    <3>2. CASE standUp \/ sitDown
      BY <1>0, <3>2 DEF standUp, sitDown, Hears
    <3>3. CASE unload \/ estop
      BY <1>0, <3>3 DEF unload, estop, Hears
    <3> QED
      BY <1>1, <3>1, <3>2, <3>3 DEF onRadio
  <2> QED
    BY <2>1, <2>2 DEF RcTyped
<1>2. CASE standNow
  BY <1>0, <1>2 DEF standNow, RcTyped
<1>3. CASE DispatchPose
  BY <1>0, <1>3 DEF DispatchPose, GwClaim, GwYield, GwEstop, GwPose, gwOnly, rcVars, RcTyped
<1>4. CASE StateReport \/ renderState \/ syncRadioStanding \/ ClaimPosture \/ UNCHANGED postureVars
  BY <1>0, <1>4 DEF StateReport, renderState, syncRadioStanding, ClaimPosture, postureVars, rcVars,
                    RcTyped
<1>5. CASE PoseKey \/ PoseKeyClaims \/ EstopKey \/ togglePath \/ adoptWay \/ OnControl
  <2>1. UNCHANGED rcVars
    BY <1>5 DEF PoseKey, PoseKeyClaims, EstopKey, Pressed, togglePath, adoptWay, OnControl
  <2>2. UNCHANGED jobs \/ \E names \in Seq(Jobs) : Post(names)
    <3>1. CASE PoseKey
      BY <3>1, Messages, Postings DEF PoseKey
    <3>2. CASE PoseKeyClaims \/ EstopKey \/ togglePath
      BY <3>2, Messages, Postings DEF PoseKeyClaims, EstopKey, togglePath
    <3>3. CASE adoptWay
      <4>1. handoffPose \in Poses /\ Poses \subseteq Jobs
        BY PosesNamed DEF Jobs
      <4>2. Post(<<"off">>) \/ Post(<<handoffPose>> \o <<>>) \/ Post(<<handoffPose>> \o <<"on">>)
        BY <3>3 DEF adoptWay
      <4>3. <<handoffPose>> \o <<>> \in Seq(Jobs) /\ <<handoffPose>> \o <<"on">> \in Seq(Jobs)
        BY <4>1, Postings
      <4> QED
        BY <4>2, <4>3, Postings
    <3>4. CASE OnControl
      <4>1. \E a \in {<<>>, <<"on">>}, b \in {<<>>, <<"on", cyclePose>>} : Post(a \o b)
        BY <3>4 DEF OnControl
      <4>2. PICK a \in {<<>>, <<"on">>}, b \in {<<>>, <<"on", cyclePose>>} : Post(a \o b)
        BY <4>1
      <4>3. a \in Seq(Jobs) /\ b \in Seq(Jobs)
        BY Postings, Messages
      <4>4. a \o b \in Seq(Jobs)
        BY <4>3
      <4> QED
        BY <4>2, <4>4
    <3> QED
      BY <1>5, <3>1, <3>2, <3>3, <3>4
  <2> QED
    BY <1>0, <2>1, <2>2, Posting DEF rcVars, RcTyped
<1> QED
  BY <1>1, <1>2, <1>3, <1>4, <1>5 DEF PostureNext

LEMMA PageTypeStep == Typed /\ [PostureNext]_postureVars => PageTyped'
<1> SUFFICES ASSUME Typed, [PostureNext]_postureVars PROVE PageTyped'
  OBVIOUS
<1> DEFINE Known == /\ posture \in {"standing", "prone", "locked"} /\ locked \in BOOLEAN
                    /\ handoff \in Poses \cup {"none"} /\ poseMem \in Poses
           Queue == toPage \in Seq(States \cup Controls)
           Held == owns \in BOOLEAN /\ wanted \in BOOLEAN
<1>0. Known /\ Queue /\ Held
  BY DEF Typed, PageTyped
<1> USE DEF PageTyped
<1>1. CASE DispatchPose \/ StateReport
  <2>1. Queue'
    <3>1. UNCHANGED toPage \/ \E m \in States \cup Controls : toPage' = Append(toPage, m)
      BY <1>1, Answers DEF DispatchPose, GwClaim, GwYield, GwEstop, GwPose, StateReport
    <3> QED
      BY <1>0, <3>1, Answering
  <2>2. UNCHANGED <<knows, owns, wanted>>
    BY <1>1 DEF DispatchPose, GwClaim, GwYield, GwEstop, GwPose, gwOnly, StateReport, shake
  <2> QED
    BY <1>0, <2>1, <2>2 DEF knows
<1>2. CASE onRadio \/ standNow
  <2>1. UNCHANGED <<knows, owns, wanted, toPage>>
    BY <1>2 DEF onRadio, setEnabledOn, stop, adoptOnRadio, standUp, sitDown, unload,
                estop, Hears, Run, standNow, shake
  <2> QED
    BY <1>0, <2>1 DEF knows
<1>3. CASE togglePath \/ ClaimPosture \/ UNCHANGED postureVars
  <2>1. UNCHANGED <<knows, owns, wanted, toPage>>
    BY <1>3 DEF togglePath, ClaimPosture, postureVars, shake
  <2> QED
    BY <1>0, <2>1 DEF knows
<1>4. CASE renderState
  <2>1. Queue' /\ toPage[1] \in States /\ toPage[1] = Head(toPage)
    BY <1>4, PageTakes DEF renderState, States, Controls
  <2>2. Known'
    <3>1. CASE radioDirect
      BY <1>0, <1>4, <3>1 DEF renderState, knows
    <3>2. CASE ~radioDirect
      <4>1. posture' \in {"standing", "prone", "locked"} /\ handoff' \in Poses \cup {"none"}
        BY <1>0, <1>4, <2>1, <3>2 DEF renderState, Settles, States
      <4> QED
        BY <1>4, <3>2, <4>1, PosesNamed DEF renderState, isStandingUi
    <3> QED
      BY <3>1, <3>2
  <2> QED
    BY <1>0, <1>4, <2>1, <2>2 DEF renderState, shake
<1>5. CASE syncRadioStanding
  <2>1. posture' \in {"standing", "prone", "locked"} /\ handoff' \in Poses \cup {"none"}
    BY <1>0, <1>5 DEF syncRadioStanding, Settles, postureState
  <2>2. poseMem' \in Poses
    BY <1>0, <1>5, PosesNamed DEF syncRadioStanding
  <2>3. locked' \in BOOLEAN
    BY <1>5 DEF syncRadioStanding, Typed, RcTyped
  <2> QED
    BY <1>0, <1>5, <2>1, <2>2, <2>3 DEF syncRadioStanding, shake
<1>6. CASE PoseKey \/ PoseKeyClaims \/ EstopKey
  BY <1>0, <1>6 DEF PoseKey, PoseKeyClaims, EstopKey, Pressed, shake
<1>7. CASE adoptWay
  <2>1. Known'
    BY <1>0, <1>7, PosesNamed DEF adoptWay
  <2> QED
    BY <1>0, <1>7, <2>1 DEF adoptWay
<1>8. CASE OnControl
  <2>1. Queue' /\ toPage[1] \in Controls /\ toPage[1] = Head(toPage)
    BY <1>8, PageTakes DEF OnControl, States, Controls
  <2>2. Held'
    BY <1>0, <1>8, <2>1 DEF OnControl, Controls
  <2>3. Known'
    BY <1>0, <1>8 DEF OnControl
  <2> QED
    BY <2>1, <2>2, <2>3
<1> QED
  BY <1>1, <1>2, <1>3, <1>4, <1>5, <1>6, <1>7, <1>8 DEF PostureNext

LEMMA PathTypeStep == Typed /\ [PostureNext]_postureVars => PathTyped'
<1> SUFFICES ASSUME Typed, [PostureNext]_postureVars PROVE PathTyped'
  OBVIOUS
<1> DEFINE Ways == way \in {"mesh", "radio"} /\ shellWay \in {"mesh", "radio"}
           Shakes == acquiring \in BOOLEAN /\ releasing \in BOOLEAN /\ again \in BOOLEAN
           History == /\ hasty \in BOOLEAN /\ lockMoved \in BOOLEAN /\ refused \in BOOLEAN
                      /\ presses \in 0..MaxPresses /\ flips \in 0..MaxFlips
<1>0. Ways /\ Shakes /\ History
  BY DEF Typed, PathTyped
<1> USE DEF PathTyped
<1>1. CASE DispatchPose \/ StateReport \/ onRadio \/ standNow \/ renderState \/ syncRadioStanding
           \/ UNCHANGED postureVars
  <2>1. UNCHANGED <<way, shellWay, acquiring, releasing, again, hasty, lockMoved, presses, flips>>
    BY <1>1 DEF DispatchPose, GwClaim, GwYield, GwEstop, GwPose, gwOnly, StateReport, onRadio,
                setEnabledOn, stop, adoptOnRadio, standUp, sitDown, unload, estop, Hears, Run,
                standNow, renderState, syncRadioStanding, postureVars, bounds, shake
  <2>2. refused' \in BOOLEAN
    <3>1. CASE GwClaim
      BY <1>0, <3>1 DEF GwClaim
    <3>2. CASE ~GwClaim
      BY <1>0, <1>1, <3>2 DEF DispatchPose, GwYield, GwEstop, GwPose, StateReport, onRadio,
                setEnabledOn, stop, adoptOnRadio, standUp, sitDown, unload, estop, Hears, Run,
                standNow, renderState, syncRadioStanding, postureVars, bounds
    <3> QED
      BY <3>1, <3>2
  <2> QED
    BY <1>0, <2>1, <2>2
<1>2. CASE PoseKey \/ PoseKeyClaims \/ EstopKey
  <2>1. PICK amid : Pressed(amid)
    BY <1>2 DEF PoseKey, PoseKeyClaims, EstopKey
  <2>2. hasty' \in BOOLEAN /\ presses' \in 0..MaxPresses
    BY <1>0, <2>1, PostureAssumption DEF Pressed, TooSoon
  <2> QED
    BY <1>0, <2>1, <2>2 DEF Pressed, shake
<1>3. CASE togglePath
  <2>1. hasty' \in BOOLEAN /\ lockMoved' \in BOOLEAN
    BY <1>0, <1>3 DEF togglePath
  <2>2. flips' \in 0..MaxFlips
    BY <1>0, <1>3, PostureAssumption DEF togglePath
  <2> QED
    BY <1>0, <1>3, <2>1, <2>2 DEF togglePath, shake
<1>4. CASE adoptWay
  <2>1. acquiring' \in BOOLEAN /\ releasing' \in BOOLEAN /\ way' = shellWay
    BY <1>0, <1>4 DEF adoptWay, Typed, PageTyped
  <2> QED
    BY <1>0, <1>4, <2>1 DEF adoptWay, bounds
<1>5. CASE ClaimPosture
  BY <1>0, <1>5 DEF ClaimPosture, bounds
<1>6. CASE OnControl
  <2>1. Shakes'
    BY <1>0, <1>6 DEF OnControl
  <2> QED
    BY <1>0, <1>6, <2>1 DEF OnControl, bounds
<1> QED
  BY <1>1, <1>2, <1>3, <1>4, <1>5, <1>6 DEF PostureNext

LEMMA TypeStep == Typed /\ [PostureNext]_postureVars => Typed'
  BY GwTypeStep, RcTypeStep, PageTypeStep, PathTypeStep DEF Typed

(***************************************************************************)
(* Type correctness.                                                       *)
(***************************************************************************)
THEOREM PostureTypeCorrect == PostureSpec => []PostureTypeOK
<1>1. Typed => PostureTypeOK
  BY TypeParts
<1> QED
  BY InitType, TypeStep, <1>1, PTL DEF PostureSpec

-------------------------------------------------------------------------------
(***************************************************************************)
(* The page learns who is in control in the order in which the gateway     *)
(* decided it: the last answer on the way says it, or the page knows it.   *)
(***************************************************************************)
IsReport(m) == m.t = "state"

ReportsOnly == \A i \in DOMAIN toPage : IsReport(toPage[i])

Link ==
  /\ \A i \in DOMAIN toPage :
       ~IsReport(toPage[i]) /\ (\A j \in DOMAIN toPage : j > i => IsReport(toPage[j]))
         => toPage[i].mine = mine
  /\ ReportsOnly => owns = mine

LEMMA LinkInit == PostureInit => Link
<1> SUFFICES ASSUME PostureInit PROVE Link
  OBVIOUS
<1>1. toPage = <<>> /\ owns = mine
  BY DEF PostureInit
<1>2. DOMAIN toPage = {}
  BY <1>1
<1> QED
  BY <1>1, <1>2 DEF Link

LEMMA LinkAnswer ==
  ASSUME Typed, Link, NEW b \in BOOLEAN, mine' = b,
         toPage' = Append(toPage, [t |-> "control", mine |-> b])
  PROVE  Link'
<1> DEFINE m == [t |-> "control", mine |-> b]
<1>1. m \in States \cup Controls /\ ~IsReport(m) /\ m.mine = b
  BY DEF Controls, IsReport
<1> HIDE DEF m
<1>2. /\ Len(toPage) \in Nat /\ DOMAIN toPage = 1..Len(toPage)
      /\ DOMAIN toPage' = 1..(Len(toPage) + 1) /\ toPage'[Len(toPage) + 1] = m
      /\ \A i \in DOMAIN toPage : toPage'[i] = toPage[i]
  BY <1>1, Answering DEF m
<1> QED
  BY <1>1, <1>2 DEF Link, ReportsOnly

LEMMA LinkReport ==
  ASSUME Typed, Link, StateReport
  PROVE  Link'
<1>1. Report \in States \cup Controls /\ IsReport(Report)
  BY Answers DEF IsReport, Report
<1>2. /\ Len(toPage) \in Nat /\ DOMAIN toPage = 1..Len(toPage)
      /\ DOMAIN toPage' = 1..(Len(toPage) + 1) /\ toPage'[Len(toPage) + 1] = Report
      /\ \A i \in DOMAIN toPage : toPage'[i] = toPage[i]
  BY <1>1, Answering DEF StateReport
<1>3. owns' = owns /\ mine' = mine
  BY DEF StateReport, shake, gwVars
<1> QED
  BY <1>1, <1>2, <1>3 DEF Link, ReportsOnly

LEMMA LinkRead ==
  ASSUME Typed, Link, toPage # <<>>, toPage' = Tail(toPage), mine' = mine,
         owns' = IF IsReport(Head(toPage)) THEN owns ELSE Head(toPage).mine
  PROVE  Link'
<1>1. /\ DOMAIN toPage = 1..Len(toPage) /\ Len(toPage) \in Nat /\ Len(toPage) > 0
      /\ DOMAIN toPage' = 1..(Len(toPage) - 1) /\ toPage[1] = Head(toPage)
      /\ \A i \in DOMAIN toPage' : toPage'[i] = toPage[i + 1]
  BY PageTakes
<1>2. \A i \in DOMAIN toPage : i # 1 => i - 1 \in DOMAIN toPage' /\ toPage[i] = toPage'[i - 1]
  BY <1>1
<1>3. ASSUME NEW i \in DOMAIN toPage', ~IsReport(toPage'[i]),
             \A j \in DOMAIN toPage' : j > i => IsReport(toPage'[j])
      PROVE  toPage'[i].mine = mine'
  <2>1. i + 1 \in DOMAIN toPage /\ toPage[i + 1] = toPage'[i]
    BY <1>1
  <2>2. ASSUME NEW j \in DOMAIN toPage, j > i + 1 PROVE IsReport(toPage[j])
    <3>1. j # 1 /\ j - 1 > i
      BY <1>1, <2>2
    <3> QED
      BY <1>2, <1>3, <3>1
  <2> QED
    BY <1>3, <2>1, <2>2 DEF Link
<1>4. ASSUME ReportsOnly' PROVE owns' = mine'
  <2>1. ASSUME NEW j \in DOMAIN toPage, j > 1 PROVE IsReport(toPage[j])
    <3>1. j # 1
      BY <1>1, <2>1
    <3> QED
      BY <1>2, <1>4, <3>1 DEF ReportsOnly
  <2>2. CASE IsReport(toPage[1])
    BY <1>1, <2>1, <2>2 DEF Link, ReportsOnly
  <2>3. CASE ~IsReport(toPage[1])
    BY <1>1, <2>1, <2>3 DEF Link
  <2> QED
    BY <2>2, <2>3
<1> QED
  BY <1>3, <1>4 DEF Link

LEMMA LinkStep == Typed /\ Link /\ [PostureNext]_postureVars => Link'
<1> SUFFICES ASSUME Typed, Link, [PostureNext]_postureVars PROVE Link'
  OBVIOUS
<1>1. CASE GwClaim \/ GwYield
  <2>1. owns' = owns
    BY <1>1 DEF GwClaim, GwYield, gwOnly, shake
  <2>2. CASE toPage' = toPage /\ mine' = mine
    BY <2>1, <2>2 DEF Link, ReportsOnly
  <2>3. CASE \E b \in BOOLEAN : mine' = b /\ toPage' = Append(toPage, [t |-> "control", mine |-> b])
    BY <2>3, LinkAnswer
  <2> QED
    BY <1>1, <2>2, <2>3 DEF GwClaim, GwYield, Typed, GwTyped
<1>2. CASE StateReport
  BY <1>2, LinkReport
<1>3. CASE renderState
  BY <1>3, LinkRead DEF renderState, IsReport, gwVars, shake
<1>4. CASE OnControl
  BY <1>4, LinkRead DEF OnControl, IsReport, gwVars
<1>5. CASE UNCHANGED <<toPage, owns, mine>>
  BY <1>5 DEF Link, ReportsOnly
<1>6. CASE GwEstop \/ (\E name, from, up : GwPose(name, from, up)) \/ onRadio \/ standNow
  <2> SUFFICES UNCHANGED <<toPage, owns, mine>>
    BY <1>5
  <2> QED
    BY <1>6 DEF GwEstop, GwPose, gwOnly, onRadio, setEnabledOn, stop, adoptOnRadio, standUp,
                sitDown, unload, estop, Hears, Run, standNow, shake, gwVars
<1>7. CASE \/ syncRadioStanding \/ PoseKey \/ PoseKeyClaims \/ EstopKey \/ togglePath
           \/ adoptWay \/ ClaimPosture \/ UNCHANGED postureVars
  <2> SUFFICES UNCHANGED <<toPage, owns, mine>>
    BY <1>5
  <2> QED
    BY <1>7 DEF syncRadioStanding, PoseKey, PoseKeyClaims, EstopKey, Pressed, togglePath, adoptWay,
                ClaimPosture, postureVars, shake, gwVars
<1> QED
  BY <1>1, <1>2, <1>3, <1>4, <1>6, <1>7 DEF PostureNext, DispatchPose

-------------------------------------------------------------------------------
(***************************************************************************)
(* Whose memory is right, while the operator waits and no posture is       *)
(* turned down.  Beside fresh reports a memory that says lying does no     *)
(* harm.                                                                   *)
(***************************************************************************)
Calm == ~hasty /\ ~lockMoved /\ ~refused

GatewayKnows ==
  \/ source = "instead"
  \/ source = "beside" /\ (gwUp => dog = "up")
  \/ gwUp = (dog = "up")

RadioKnows == rcLocked = (dog = "locked") /\ rcUp = (dog = "up")

(***************************************************************************)
(* On MESH.  A gateway that is wrong gets the posture with the first claim *)
(* it hears, or the stop, before any key; until then the page is not in    *)
(* control and hears nothing that would end the handoff.                   *)
(***************************************************************************)
NoKeySent == \A i \in DOMAIN toGw : toGw[i].t \notin Keys

Posed(m) == m.t = "claim" /\ m.pose # "none"

ClaimsTrue ==
  \A i \in DOMAIN toGw : Posed(toGw[i]) =>
    toGw[i].pose = dog /\ \A j \in DOMAIN toGw : j < i => toGw[j].t \notin Keys

Told == \A i \in DOMAIN toPage : IsReport(toPage[i]) /\ toPage[i].up = gwUp

Unheard ==
  /\ ~mine /\ ~owns /\ Told
  /\ \/ toGw = <<>> /\ handoff # "none"
     \/ toGw # <<>> /\ (Posed(toGw[1]) \/ toGw[1].t = "estop")

RadioIdle == ~standLater /\ ~rcLocked /\ \A i \in DOMAIN jobs : jobs[i] = "off"

OnMesh ==
  /\ RadioIdle
  /\ handoff # "none" => handoff = dog /\ NoKeySent
  /\ ClaimsTrue
  /\ GatewayKnows \/ Unheard

(***************************************************************************)
(* The App has switched, the page has not noticed yet.                     *)
(***************************************************************************)
Still ==
  /\ toGw = <<>> /\ handoff = "none" /\ ~wanted
  /\ dog \in Poses /\ poseMem = dog
  /\ posture = IF dog = "up" THEN "standing" ELSE "prone"

Leaving == Still /\ RadioIdle /\ jobs = <<>> /\ ReportsOnly

Returning == Still /\ RadioIdle /\ Told /\ ~mine

(***************************************************************************)
(* On 2.4G.  RadioLink is right once the handoff has ended, unless a stop  *)
(* has reached the dog through the gateway first.  A stop is alone with    *)
(* its second half, and so is a key for locked joints.                     *)
(***************************************************************************)
NoKeyPosted == \A i \in DOMAIN jobs : jobs[i] \notin Keys

StopSent == \E i \in DOMAIN toGw : toGw[i].t = "estop"

StopPosted == \E i \in DOMAIN jobs : jobs[i] = "estop"

StopAlone ==
  StopSent \/ StopPosted =>
    /\ ~standLater
    /\ \A i \in DOMAIN jobs : jobs[i] \in Keys => jobs[i] = "estop"
    /\ StopPosted \/ dog = "locked"

OneKeyIfLocked ==
  dog = "locked" /\ ~StopSent /\ ~StopPosted =>
    \A i \in DOMAIN jobs, j \in DOMAIN jobs : jobs[i] \in Keys /\ jobs[j] \in Keys => i = j

LateStop == dog = "locked" /\ StopPosted

PosesTrue ==
  \A i \in DOMAIN jobs : jobs[i] \in Poses =>
    /\ jobs[i] = dog \/ LateStop
    /\ \A j \in DOMAIN jobs : j < i => jobs[j] \notin Keys

Handed == handoff = dog /\ ~rcLocked /\ ~standLater /\ ~StopSent /\ NoKeyPosted

Truth ==
  RadioKnows /\ (standLater => dog = "prone" /\ \A i \in DOMAIN jobs : jobs[i] = "on")

Yielding ==
  /\ ~wanted
  /\ \A i \in DOMAIN toGw : toGw[i].t \in {"yield", "estop"}
  /\ mine => \E i \in DOMAIN toGw : toGw[i].t = "yield"
  /\ \A i \in DOMAIN jobs : jobs[i] # "off"

OnRadio ==
  /\ Yielding
  /\ StopAlone /\ OneKeyIfLocked /\ PosesTrue
  /\ IF handoff = "none" THEN LateStop \/ Truth ELSE Handed

Remembered ==
  /\ way = "mesh" /\ shellWay = "mesh" => OnMesh
  /\ way = "mesh" /\ shellWay = "radio" => Leaving
  /\ way = "radio" /\ shellWay = "mesh" => Returning
  /\ way = "radio" /\ shellWay = "radio" => OnRadio

MemoryInv == Calm => Remembered

-------------------------------------------------------------------------------
LEMMA Kinds ==
  ASSUME NEW m \in Claims \cup Simple
  PROVE  /\ m.t \in Keys \cup {"claim", "yield"}
         /\ m.t = "claim" => m \in Claims /\ m.pose \in Poses \cup {"none"}
         /\ m.t \in Keys => ~Posed(m) /\ m.t # "claim" /\ m.t # "yield"
  BY DEF Claims, Simple, Keys, Posed, Poses

LEMMA MeshSendsClaim ==
  ASSUME Typed, OnMesh, Send(<<claimMsg>>),
         UNCHANGED <<dog, source, gwUp, mine, owns, toPage, jobs, standLater, rcLocked, handoff>>
  PROVE  OnMesh'
<1>1. claimMsg \in Claims \cup Simple /\ claimMsg.t = "claim" /\ claimMsg.pose = handoff
  BY Messages DEF claimMsg
<1>2. /\ Len(toGw) \in Nat
      /\ DOMAIN toGw = 1..Len(toGw) /\ DOMAIN toGw' = 1..(Len(toGw) + 1)
      /\ \A i \in DOMAIN toGw : toGw'[i] = toGw[i]
      /\ toGw'[Len(toGw) + 1] = claimMsg
  BY <1>1, Sending
<1>3. claimMsg.t \notin Keys
  BY <1>1 DEF Keys
<1>4. RadioIdle'
  BY DEF OnMesh, RadioIdle
<1>5. handoff' # "none" => handoff' = dog' /\ NoKeySent'
  BY <1>2, <1>3 DEF OnMesh, NoKeySent
<1>6. ClaimsTrue'
  BY <1>1, <1>2, <1>3 DEF OnMesh, ClaimsTrue, NoKeySent, Posed
<1>7. ASSUME ~GatewayKnows PROVE Unheard'
  <2>1. ~mine' /\ ~owns' /\ Told'
    BY <1>7 DEF OnMesh, Unheard, Told
  <2>2. toGw' # <<>>
    BY <1>2
  <2>3. CASE toGw = <<>>
    <3>1. toGw'[1] = claimMsg /\ handoff # "none"
      BY <1>2, <1>7, <2>3 DEF OnMesh, Unheard
    <3> QED
      BY <1>1, <2>1, <2>2, <3>1 DEF Unheard, Posed
  <2>4. CASE toGw # <<>>
    <3>1. toGw'[1] = toGw[1]
      BY <1>2, <2>4, EmptySeq
    <3> QED
      BY <1>7, <2>1, <2>2, <2>4, <3>1 DEF OnMesh, Unheard
  <2> QED
    BY <2>3, <2>4
<1> QED
  BY <1>4, <1>5, <1>6, <1>7 DEF OnMesh, GatewayKnows

LEMMA MeshSendsKey ==
  ASSUME Typed, OnMesh, NEW name \in Keys, Send(<<[t |-> name]>>), handoff' = "none",
         GatewayKnows \/ name = "estop",
         UNCHANGED <<dog, source, gwUp, mine, owns, toPage, jobs, standLater, rcLocked>>
  PROVE  OnMesh'
<1> DEFINE m == [t |-> name]
<1>1. m \in Claims \cup Simple /\ m.t = name /\ ~Posed(m)
  BY Messages DEF Posed, Keys
<1> HIDE DEF m
<1>2. /\ Len(toGw) \in Nat
      /\ DOMAIN toGw = 1..Len(toGw) /\ DOMAIN toGw' = 1..(Len(toGw) + 1)
      /\ \A i \in DOMAIN toGw : toGw'[i] = toGw[i]
      /\ toGw'[Len(toGw) + 1] = m
  BY <1>1, Sending DEF m
<1>3. RadioIdle'
  BY DEF OnMesh, RadioIdle
<1>4. ClaimsTrue'
  BY <1>1, <1>2 DEF OnMesh, ClaimsTrue
<1>5. ASSUME ~GatewayKnows PROVE Unheard'
  <2>1. ~mine' /\ ~owns' /\ Told' /\ name = "estop"
    BY <1>5 DEF OnMesh, Unheard, Told
  <2>2. toGw' # <<>>
    BY <1>2
  <2>3. CASE toGw = <<>>
    <3>1. toGw'[1] = m
      BY <1>2, <2>3
    <3> QED
      BY <1>1, <2>1, <2>2, <3>1 DEF Unheard
  <2>4. CASE toGw # <<>>
    <3>1. toGw'[1] = toGw[1]
      BY <1>2, <2>4, EmptySeq
    <3> QED
      BY <1>5, <2>1, <2>2, <2>4, <3>1 DEF OnMesh, Unheard
  <2> QED
    BY <2>3, <2>4
<1> QED
  BY <1>3, <1>4, <1>5 DEF OnMesh, GatewayKnows

(***************************************************************************)
(* The gateway takes a message: what is left is as it was, and behind a    *)
(* key there is no claim with a posture.                                   *)
(***************************************************************************)
LEMMA MeshTakes ==
  ASSUME Typed, OnMesh, NEW t, Take(t)
  PROVE  /\ NoKeySent => NoKeySent'
         /\ dog' = dog => ClaimsTrue'
         /\ t \in Keys => handoff = "none" /\ \A i \in DOMAIN toGw' : ~Posed(toGw'[i])
         /\ t \in (Keys \ {"estop"}) \cup {"yield"} => GatewayKnows
         /\ toGw # <<>> /\ toGw[1].t = t /\ toGw[1] = Head(toGw)
         /\ toGw[1] \in Claims \cup Simple
<1>1. /\ DOMAIN toGw = 1..Len(toGw) /\ Len(toGw) \in Nat /\ Len(toGw) > 0
      /\ DOMAIN toGw' = 1..(Len(toGw) - 1)
      /\ toGw[1].t = t /\ toGw[1] = Head(toGw) /\ toGw[1] \in Claims \cup Simple
      /\ \A i \in DOMAIN toGw' : toGw'[i] = toGw[i + 1]
      /\ toGw # <<>>
  BY GwTakes DEF Take
<1>2. \A i \in DOMAIN toGw' : i + 1 \in DOMAIN toGw /\ 1 < i + 1 /\ 1 \in DOMAIN toGw
  BY <1>1
<1>3. NoKeySent => NoKeySent'
  BY <1>1, <1>2 DEF NoKeySent
<1>4. ASSUME dog' = dog, NEW i \in DOMAIN toGw', Posed(toGw'[i])
      PROVE  toGw'[i].pose = dog' /\ \A j \in DOMAIN toGw' : j < i => toGw'[j].t \notin Keys
  <2>1. /\ toGw[i + 1].pose = dog
        /\ \A j \in DOMAIN toGw : j < i + 1 => toGw[j].t \notin Keys
    BY <1>1, <1>2, <1>4 DEF OnMesh, ClaimsTrue
  <2>2. \A j \in DOMAIN toGw' : j < i => j + 1 < i + 1
    BY <1>1
  <2> QED
    BY <1>1, <1>2, <1>4, <2>1, <2>2
<1>5. ASSUME t \in Keys PROVE handoff = "none" /\ \A i \in DOMAIN toGw' : ~Posed(toGw'[i])
  BY <1>1, <1>2, <1>5 DEF OnMesh, ClaimsTrue, NoKeySent
<1>6. ASSUME t \in (Keys \ {"estop"}) \cup {"yield"} PROVE GatewayKnows
  <2>1. ~Posed(toGw[1]) /\ toGw[1].t # "estop"
    BY <1>1, <1>6 DEF Posed, Keys
  <2> QED
    BY <1>1, <2>1 DEF OnMesh, Unheard
<1> QED
  BY <1>1, <1>3, <1>4, <1>5, <1>6 DEF ClaimsTrue

LEMMA MeshDispatch ==
  ASSUME Typed, OnMesh, DispatchPose, ~refused'
  PROVE  OnMesh'
<1>0. UNCHANGED <<source, standLater, rcLocked, jobs, handoff, owns>>
  BY DEF DispatchPose, GwClaim, GwYield, GwEstop, GwPose, gwOnly, rcVars, knows, shake
<1>00. RadioIdle'
  BY <1>0 DEF OnMesh, RadioIdle
<1>1. CASE GwClaim
  <2>1. Take("claim") /\ dog' = dog
    BY <1>1 DEF GwClaim
  <2>2. toGw[1].t = "claim" /\ toGw[1] = Head(toGw) /\ toGw # <<>>
        /\ toGw[1] \in Claims \cup Simple /\ 1 \in DOMAIN toGw
    BY <2>1, MeshTakes, GwTakes
  <2>3. toGw[1].pose # "none" => toGw[1].pose = dog
    BY <2>2 DEF OnMesh, ClaimsTrue, Posed
  <2>4. toGw[1].pose # "none" \/ GatewayKnows
    BY <2>2 DEF OnMesh, Unheard, Posed
  <2>5. toGw[1].pose \in {"up", "prone", "none"}
    BY <2>2, Kinds DEF Poses
  <2>6. ASSUME source = "memory" PROVE GatewayKnows'
    <3>1. gwUp' = IF toGw[1].pose # "none" THEN toGw[1].pose = "up" ELSE gwUp
      BY <1>1, <2>2, <2>6 DEF GwClaim
    <3> QED
      BY <1>0, <2>1, <2>3, <2>4, <2>6, <3>1 DEF GatewayKnows
  <2>7. ASSUME source # "memory" PROVE GatewayKnows'
    <3>1. gwUp' = gwUp /\ ~(source = "beside" /\ gwUp /\ toGw[1].pose = "prone")
      BY <1>1, <2>2, <2>7 DEF GwClaim
    <3> QED
      BY <1>0, <2>1, <2>3, <2>4, <2>5, <2>7, <3>1 DEF GatewayKnows, Typed, GwTyped
  <2>8. GatewayKnows'
    BY <2>6, <2>7
  <2> QED
    BY <1>0, <1>00, <2>1, <2>8, MeshTakes DEF OnMesh
<1>2. CASE GwYield
  <2>1. Take("yield") /\ dog' = dog /\ gwUp' = gwUp
    BY <1>2 DEF GwYield
  <2>2. GatewayKnows'
    BY <1>0, <2>1, MeshTakes DEF GatewayKnows
  <2> QED
    BY <1>0, <1>00, <2>1, <2>2, MeshTakes DEF OnMesh
<1>3. CASE GwEstop
  <2>1. Take("estop") /\ "estop" \in Keys /\ GatewayKnows'
    BY <1>3 DEF GwEstop, Keys, GatewayKnows
  <2> QED
    BY <1>0, <1>00, <2>1, MeshTakes DEF OnMesh, ClaimsTrue
<1>4. ASSUME NEW name \in Keys \ {"estop"}, NEW from, NEW up \in BOOLEAN, GwPose(name, from, up),
             name = "stand_up" => from = "prone" /\ up = TRUE,
             name # "stand_up" => from \in {"standing", "locked"} /\ up = FALSE
      PROVE  OnMesh'
  <2>1. Take(name)
    BY <1>4 DEF GwPose
  <2>2. GatewayKnows /\ handoff = "none" /\ \A i \in DOMAIN toGw' : ~Posed(toGw'[i])
    BY <2>1, MeshTakes
  <2>3. GatewayKnows'
    <3>1. CASE mine /\ View = from
      <4>1. gwUp' = up /\ StandSitToggle
        BY <1>4, <3>1 DEF GwPose
      <4> QED
        BY <1>0, <1>4, <2>2, <3>1, <4>1
           DEF GatewayKnows, View, Upright, StandSitToggle, Typed, GwTyped
    <3>2. CASE ~(mine /\ View = from)
      BY <1>0, <1>4, <2>2, <3>2 DEF GwPose, GatewayKnows
    <3> QED
      BY <3>1, <3>2
  <2> QED
    BY <1>0, <1>00, <2>2, <2>3 DEF OnMesh, ClaimsTrue
<1> QED
  BY <1>1, <1>2, <1>3, <1>4 DEF DispatchPose, Keys

LEMMA MeshReport ==
  ASSUME Typed, OnMesh, StateReport
  PROVE  OnMesh'
<1>1. UNCHANGED <<dog, source, gwUp, mine, owns, toGw, jobs, standLater, rcLocked, handoff>>
  BY DEF StateReport, dogVars, gwVars, rcVars, knows, shake
<1>2. Told => Told'
  <2>1. Report \in States \cup Controls /\ IsReport(Report) /\ Report.up = gwUp
    BY Answers DEF Report, IsReport
  <2>2. toPage' = Append(toPage, Report)
    BY DEF StateReport
  <2> QED
    BY <1>1, <2>1, <2>2, Answering DEF Told
<1> QED
  BY <1>1, <1>2 DEF OnMesh, RadioIdle, NoKeySent, ClaimsTrue, GatewayKnows, Unheard

(***************************************************************************)
(* A report ends the handoff only if the gateway remembers the same.       *)
(***************************************************************************)
LEMMA MeshRenders ==
  ASSUME Typed, OnMesh, way = "mesh", shellWay = "mesh", renderState
  PROVE  OnMesh'
<1>1. UNCHANGED <<dog, source, gwUp, mine, owns, toGw, jobs, standLater, rcLocked>>
  BY DEF renderState, dogVars, gwVars, rcVars, shake
<1>2. handoff' = handoff \/ handoff' = "none"
  BY DEF renderState, radioDirect, Settles
<1>3. ASSUME ~GatewayKnows PROVE Unheard'
  <2>1. /\ DOMAIN toPage = 1..Len(toPage) /\ Len(toPage) \in Nat /\ Len(toPage) > 0
        /\ DOMAIN toPage' = 1..(Len(toPage) - 1) /\ toPage[1] = Head(toPage)
        /\ \A i \in DOMAIN toPage' : toPage'[i] = toPage[i + 1]
    BY PageTakes DEF renderState
  <2>2. Unheard
    BY <1>3 DEF OnMesh
  <2>3. Head(toPage).up = gwUp /\ Told'
    BY <1>1, <2>1, <2>2 DEF Unheard, Told
  <2>4. handoff # "none" => handoff' = handoff
    <3>1. ASSUME handoff # "none" PROVE handoff # Pose(gwUp)
      <4>1. handoff = dog /\ dog \in Poses
        BY <3>1 DEF OnMesh, Typed, PageTyped
      <4> QED
        BY <1>3, <4>1 DEF GatewayKnows, Pose, Poses, Typed, GwTyped
    <3> QED
      BY <2>3, <3>1 DEF renderState, radioDirect, Settles
  <2> QED
    BY <1>1, <2>2, <2>3, <2>4 DEF Unheard
<1> QED
  BY <1>1, <1>2, <1>3 DEF OnMesh, RadioIdle, NoKeySent, ClaimsTrue, GatewayKnows

LEMMA MeshControl ==
  ASSUME Typed, OnMesh, way = "mesh", shellWay = "mesh", OnControl
  PROVE  OnMesh'
<1>1. UNCHANGED <<dog, source, gwUp, mine, standLater, rcLocked>>
  BY DEF OnControl, dogVars, gwVars, rcVars
<1>2. jobs' = jobs
  <2>1. jobs' = jobs \o (<<>> \o <<>>)
    BY DEF OnControl, Post, radioDirect
  <2> QED
    BY <2>1 DEF Typed, RcTyped
<1>3. GatewayKnows /\ GatewayKnows'
  <2>1. toPage # <<>> /\ ~IsReport(toPage[1]) /\ 1 \in DOMAIN toPage
    BY PageTakes DEF OnControl, IsReport
  <2> QED
    BY <1>1, <2>1 DEF OnMesh, Unheard, Told, GatewayKnows
<1>4. CASE UNCHANGED <<toGw, handoff>>
  BY <1>1, <1>2, <1>3, <1>4 DEF OnMesh, RadioIdle, NoKeySent, ClaimsTrue
<1>5. CASE Send(<<[t |-> cyclePose]>>) /\ handoff' = "none"
  <2>1. ClaimsTrue'
    <3> DEFINE m == [t |-> cyclePose]
    <3>1. m \in Claims \cup Simple /\ ~Posed(m)
      BY Messages DEF Posed, Keys
    <3> HIDE DEF m
    <3>2. /\ Len(toGw) \in Nat
          /\ DOMAIN toGw = 1..Len(toGw) /\ DOMAIN toGw' = 1..(Len(toGw) + 1)
          /\ \A i \in DOMAIN toGw : toGw'[i] = toGw[i]
          /\ toGw'[Len(toGw) + 1] = m
      BY <1>5, <3>1, Sending DEF m
    <3> QED
      BY <1>1, <3>1, <3>2 DEF OnMesh, ClaimsTrue
  <2> QED
    BY <1>1, <1>2, <1>3, <1>5, <2>1 DEF OnMesh, RadioIdle
<1> QED
  BY <1>4, <1>5 DEF OnControl

(***************************************************************************)
(* Nothing is under way: nothing is in the queues.                         *)
(***************************************************************************)
LEMMA UnderWayIs ==
  ASSUME Typed, NEW names
  PROVE  UnderWay(names) <=> \/ \E i \in DOMAIN jobs : jobs[i] \in names
                             \/ \E i \in DOMAIN toGw : toGw[i].t \in names
  BY DEF UnderWay, Range

LEMMA NothingSent ==
  ASSUME Typed, ~UnderWay(Keys), ~UnderWay({"claim", "yield"})
  PROVE  toGw = <<>>
<1>1. \A i \in DOMAIN toGw : toGw[i] \in Claims \cup Simple
  BY DEF Typed, GwTyped
<1>2. \A i \in DOMAIN toGw : FALSE
  BY <1>1, UnderWayIs, Kinds
<1>3. toGw # <<>> => 1 \in DOMAIN toGw
  BY TailOf DEF Typed, GwTyped
<1> QED
  BY <1>2, <1>3

LEMMA Seen ==
  ASSUME Typed, ~Unseen
  PROVE  /\ toGw = <<>> /\ jobs = <<>> /\ handoff = "none" /\ ~wanted /\ ~standLater
         /\ way = shellWay /\ ReportsOnly /\ Told
         /\ LET now == IF radioDirect THEN postureState ELSE View
            IN  posture = now /\ poseMem = Pose(now = "standing")
<1>1. toGw = <<>>
  BY NothingSent DEF Unseen
<1>2. \A i \in DOMAIN toPage : toPage[i].t # "control" /\ toPage[i] = Report
  BY DEF Unseen, Range
<1>3. ReportsOnly /\ Told
  BY <1>2 DEF ReportsOnly, Told, IsReport, Report
<1> QED
  BY <1>1, <1>3 DEF Unseen

LEMMA MeshLeaves ==
  ASSUME Typed, OnMesh, way = "mesh", shellWay = "mesh", togglePath, ~hasty', ~lockMoved'
  PROVE  Leaving' /\ way' = "mesh" /\ shellWay' = "radio"
<1>1. ~Unseen /\ dog # "locked"
  BY DEF togglePath
<1>2. UNCHANGED <<dog, toGw, jobs, handoff, wanted, standLater, rcLocked, poseMem, posture, toPage>>
  BY DEF togglePath, dogVars, rcVars, knows
<1>3. GatewayKnows
  BY <1>1, Seen DEF OnMesh, Unheard
<1>4. dog \in Poses /\ poseMem = dog /\ posture = IF dog = "up" THEN "standing" ELSE "prone"
  BY <1>1, <1>3, Seen DEF radioDirect, GatewayKnows, View, Upright, Pose, Typed, GwTyped, Poses
<1>5. ReportsOnly'
  BY <1>1, <1>2, Seen DEF ReportsOnly
<1>6. RadioIdle'
  BY <1>2 DEF OnMesh, RadioIdle
<1> QED
  BY <1>1, <1>2, <1>4, <1>5, <1>6, Seen DEF togglePath, Leaving, Still

LEMMA MeshStep ==
  ASSUME Typed, OnMesh, way = "mesh", shellWay = "mesh", [PostureNext]_postureVars,
         ~hasty', ~lockMoved', ~refused'
  PROVE  Remembered'
<1>1. CASE togglePath
  BY <1>1, MeshLeaves DEF Remembered
<1>2. CASE ~togglePath
  <2>0. way' = "mesh" /\ shellWay' = "mesh"
    BY <1>2 DEF PostureNext, DispatchPose, GwClaim, GwYield, GwEstop, GwPose, gwOnly, StateReport,
                onRadio, setEnabledOn, stop, adoptOnRadio, standUp, sitDown, unload, estop, Hears,
                Run, standNow, renderState, syncRadioStanding, OnControl, PoseKey, PoseKeyClaims,
                EstopKey, Pressed, adoptWay, ClaimPosture, postureVars
  <2> SUFFICES OnMesh'
    BY <2>0 DEF Remembered
  <2>1. CASE DispatchPose
    BY <2>1, MeshDispatch
  <2>2. CASE StateReport
    BY <2>2, MeshReport
  <2>3. CASE onRadio
    <3>1. ASSUME NEW names, Run(names) PROVE jobs[1] = "off" /\ jobs[1] \in names
      BY <3>1, RcRuns DEF OnMesh, RadioIdle
    <3>2. stop
      BY <2>3, <3>1 DEF onRadio, setEnabledOn, adoptOnRadio, standUp, sitDown, unload, estop,
                        Hears, Poses
    <3>3. \A i \in DOMAIN jobs' : jobs'[i] = "off"
      BY <3>2, RcRuns DEF stop, OnMesh, RadioIdle
    <3>4. RadioIdle'
      BY <3>2, <3>3 DEF stop, OnMesh, RadioIdle
    <3>5. UNCHANGED <<dog, source, gwUp, mine, owns, toGw, toPage, handoff>>
      BY <3>2 DEF stop, Run, gwVars, knows, shake
    <3> QED
      BY <3>4, <3>5 DEF OnMesh, NoKeySent, ClaimsTrue, GatewayKnows, Unheard, Told
  <2>4. CASE standNow
    BY <2>4 DEF standNow, OnMesh, RadioIdle
  <2>5. CASE renderState
    BY <2>5, MeshRenders
  <2>6. CASE syncRadioStanding \/ adoptWay
    BY <2>6 DEF syncRadioStanding, adoptWay
  <2>7. CASE OnControl
    BY <2>7, MeshControl
  <2>8. CASE PoseKey
    <3>1. GatewayKnows
      BY <2>8 DEF PoseKey, radioDirect, OnMesh, Unheard
    <3>2. PICK name \in Keys : Send(<<[t |-> name]>>) /\ handoff' = "none" /\ UNCHANGED jobs
      BY <2>8, Messages DEF PoseKey, radioDirect
    <3>3. UNCHANGED <<dog, source, gwUp, mine, owns, toPage, standLater, rcLocked>>
      BY <2>8 DEF PoseKey, Pressed, dogVars, gwVars, rcVars, shake
    <3> QED
      BY <3>1, <3>2, <3>3, MeshSendsKey
  <2>9. CASE EstopKey
    <3>1. "estop" \in Keys /\ Send(<<[t |-> "estop"]>>) /\ handoff' = "none" /\ UNCHANGED jobs
      BY <2>9 DEF EstopKey, radioDirect, Keys
    <3>2. UNCHANGED <<dog, source, gwUp, mine, owns, toPage, standLater, rcLocked>>
      BY <2>9 DEF EstopKey, Pressed, dogVars, gwVars, rcVars, shake
    <3> QED
      BY <3>1, <3>2, MeshSendsKey
  <2>10. CASE PoseKeyClaims
    BY <2>10, MeshSendsClaim DEF PoseKeyClaims, Pressed, dogVars, gwVars, rcVars, shake
  <2>11. CASE ClaimPosture
    <3>1. UNCHANGED <<dog, source, gwUp, mine, owns, toPage, jobs, standLater, rcLocked, handoff>>
      BY <2>11 DEF ClaimPosture, dogVars, gwVars, rcVars, knows
    <3>2. CASE Send(<<claimMsg>>)
      BY <3>1, <3>2, MeshSendsClaim
    <3>3. CASE UNCHANGED toGw
      BY <3>1, <3>3 DEF OnMesh, RadioIdle, NoKeySent, ClaimsTrue, GatewayKnows, Unheard, Told
    <3> QED
      BY <2>11, <3>2, <3>3 DEF ClaimPosture, requestControl
  <2>12. CASE UNCHANGED postureVars
    BY <2>12 DEF postureVars, dogVars, gwVars, rcVars, knows, shake,
                 OnMesh, RadioIdle, NoKeySent, ClaimsTrue, GatewayKnows, Unheard, Told
  <2> QED
    BY <1>2, <2>1, <2>2, <2>3, <2>4, <2>5, <2>6, <2>7, <2>8, <2>9, <2>10, <2>11, <2>12
       DEF PostureNext
<1> QED
  BY <1>1, <1>2

-------------------------------------------------------------------------------
(***************************************************************************)
(* Between the App and the page nobody moves the dog.                      *)
(***************************************************************************)
LEMMA StillStep ==
  ASSUME Typed, Still, RadioIdle, ReportsOnly, way # shellWay,
         [PostureNext]_postureVars, ~hasty', ~adoptWay
  PROVE  /\ UNCHANGED <<way, shellWay, dog, gwUp, mine>>
         /\ Still' /\ RadioIdle' /\ ReportsOnly' /\ (jobs = <<>> => jobs' = <<>>)
         /\ Told => Told'
<1> DEFINE kept == UNCHANGED <<way, shellWay, dog, gwUp, mine, toGw, handoff, wanted, poseMem,
                               posture, rcLocked>>
           queues == /\ ReportsOnly' /\ (Told => Told')
                     /\ ~standLater' /\ (\A i \in DOMAIN jobs' : jobs'[i] = "off")
                     /\ (jobs = <<>> => jobs' = <<>>)
<1> SUFFICES kept /\ queues
  BY DEF Still, RadioIdle
<1>0. radioDirect
  BY DEF radioDirect, Typed, PathTyped
<1>1. CASE DispatchPose
  BY <1>1 DEF DispatchPose, GwClaim, GwYield, GwEstop, GwPose, Take, Still
<1>2. CASE StateReport
  <2>1. Report \in States \cup Controls /\ IsReport(Report) /\ Report.up = gwUp
    BY Answers DEF Report, IsReport
  <2>2. toPage' = Append(toPage, Report) /\ kept /\ UNCHANGED <<jobs, standLater>>
    BY <1>2 DEF StateReport, dogVars, gwVars, rcVars, knows
  <2>3. ReportsOnly' /\ (Told => Told')
    BY <2>1, <2>2, Answering DEF ReportsOnly, Told
  <2> QED
    BY <2>2, <2>3 DEF RadioIdle
<1>3. CASE onRadio
  <2>1. ASSUME NEW names, Run(names) PROVE jobs[1] = "off" /\ jobs[1] \in names /\ jobs # <<>>
    BY <1>3, <2>1, RcRuns DEF RadioIdle, Run
  <2>2. stop
    BY <1>3, <2>1 DEF onRadio, setEnabledOn, adoptOnRadio, standUp, sitDown, unload, estop,
                      Hears, Poses
  <2>3. (\A i \in DOMAIN jobs' : jobs'[i] = "off") /\ jobs # <<>>
    BY <2>2, <2>1, RcRuns DEF stop, RadioIdle
  <2> QED
    BY <2>2, <2>3 DEF stop, Run, gwVars, knows, ReportsOnly, Told, RadioIdle
<1>4. CASE standNow \/ syncRadioStanding
  BY <1>4 DEF standNow, RadioIdle, syncRadioStanding
<1>5. CASE renderState
  <2>1. /\ DOMAIN toPage = 1..Len(toPage) /\ Len(toPage) \in Nat /\ Len(toPage) > 0
        /\ DOMAIN toPage' = 1..(Len(toPage) - 1)
        /\ \A i \in DOMAIN toPage' : toPage'[i] = toPage[i + 1]
    BY <1>5, PageTakes DEF renderState
  <2>2. kept /\ UNCHANGED <<jobs, standLater>>
    BY <1>0, <1>5 DEF renderState, dogVars, gwVars, rcVars, knows
  <2> QED
    BY <2>1, <2>2 DEF ReportsOnly, Told, RadioIdle
<1>6. CASE OnControl
  BY <1>6, PageTakes DEF OnControl, ReportsOnly, IsReport
<1>7. CASE PoseKey \/ PoseKeyClaims \/ EstopKey
  BY <1>7 DEF PoseKey, PoseKeyClaims, EstopKey, Pressed, TooSoon
<1>8. CASE togglePath
  BY <1>8 DEF togglePath, Unseen
<1>9. CASE ClaimPosture
  BY <1>0, <1>9 DEF ClaimPosture, requestControl, dogVars, gwVars, rcVars, knows, ReportsOnly,
                    Told, RadioIdle
<1>10. CASE UNCHANGED postureVars
  BY <1>10 DEF postureVars, dogVars, gwVars, rcVars, knows, ReportsOnly, Told, RadioIdle
<1> QED
  BY <1>1, <1>2, <1>3, <1>4, <1>5, <1>6, <1>7, <1>8, <1>9, <1>10 DEF PostureNext

(***************************************************************************)
(* The posture goes over as it is.                                         *)
(***************************************************************************)
LEMMA HandsOver == Typed /\ Still => handoffPose = dog
  BY DEF Typed, GwTyped, Still, handoffPose, isStandingUi, Pose, Poses

LEMMA ArrivesOnRadio ==
  ASSUME Typed, Link, Leaving, way = "mesh", shellWay = "radio", adoptWay
  PROVE  OnRadio' /\ way' = "radio" /\ shellWay' = "radio"
<1>1. /\ handoffPose = dog /\ dog \in Poses /\ owns = mine /\ jobs = <<>> /\ toGw = <<>>
      /\ handoff' = dog
  BY HandsOver DEF Leaving, Still, Link, adoptWay
<1>2. UNCHANGED <<dog, mine, wanted, standLater, rcLocked, shellWay>> /\ way' = "radio"
  BY DEF adoptWay, dogVars, gwVars, rcVars
<1>3. jobs' = <<dog>> \/ jobs' = <<dog, "on">>
  BY <1>1 DEF adoptWay, Post
<1>4. \A i \in DOMAIN jobs' : jobs'[i] \in {dog, "on"} /\ (jobs'[i] = dog => i = 1)
  BY <1>1, <1>3 DEF Poses
<1>5. IF mine THEN toGw' = <<[t |-> "yield"]>> ELSE toGw' = <<>>
  BY <1>1 DEF adoptWay, Send
<1>6. /\ \A i \in DOMAIN toGw' : toGw'[i].t = "yield"
      /\ mine => \E i \in DOMAIN toGw' : toGw'[i].t = "yield"
  BY <1>5
<1>7. NoKeyPosted' /\ ~StopPosted' /\ ~StopSent' /\ \A i \in DOMAIN jobs' : jobs'[i] # "off"
  BY <1>1, <1>4, <1>6 DEF NoKeyPosted, StopPosted, StopSent, Keys, Poses
<1>8. PosesTrue'
  BY <1>1, <1>2, <1>4, <1>7 DEF PosesTrue, NoKeyPosted, Poses
<1>9. dog' # "locked" /\ handoff' # "none"
  BY <1>1, <1>2 DEF Poses
<1>10. Handed'
  BY <1>1, <1>2, <1>7 DEF Handed, Leaving, RadioIdle
<1> QED
  BY <1>1, <1>2, <1>6, <1>7, <1>8, <1>9, <1>10
     DEF OnRadio, Yielding, StopAlone, OneKeyIfLocked, Leaving, Still

LEMMA ArrivesOnMesh ==
  ASSUME Typed, Link, Returning, way = "radio", shellWay = "mesh", adoptWay
  PROVE  OnMesh' /\ way' = "mesh" /\ shellWay' = "mesh"
<1>1. /\ handoffPose = dog /\ dog \in Poses /\ ~mine /\ toGw = <<>> /\ handoff' = dog
      /\ ReportsOnly /\ Told
  BY HandsOver DEF Returning, Still, adoptWay, Told, ReportsOnly
<1>2. /\ UNCHANGED <<dog, mine, owns, source, gwUp, toGw, toPage, standLater, rcLocked, shellWay>>
      /\ way' = "mesh"
  BY DEF adoptWay, dogVars, gwVars, rcVars
<1>3. ~owns
  BY <1>1 DEF Link
<1>4. \A i \in DOMAIN jobs' : jobs'[i] = "off"
  <2> DEFINE calls == <<"off">>
  <2>1. Post(calls) /\ calls \in Seq(Jobs) /\ Len(calls) = 1 /\ calls[1] = "off"
    BY Postings DEF adoptWay
  <2> HIDE DEF calls
  <2>2. /\ Len(jobs) \in Nat /\ DOMAIN jobs = 1..Len(jobs) /\ DOMAIN jobs' = 1..(Len(jobs) + 1)
        /\ \A i \in 1..Len(jobs) : jobs'[i] = jobs[i]
        /\ \A i \in DOMAIN jobs' : i > Len(jobs) => jobs'[i] = calls[i - Len(jobs)]
    BY <2>1, Posting
  <2>3. \A i \in DOMAIN jobs' : i > Len(jobs) => i - Len(jobs) = 1
    BY <2>2
  <2> QED
    BY <2>1, <2>2, <2>3 DEF Returning, RadioIdle
<1>5. Unheard'
  BY <1>1, <1>2, <1>3 DEF Unheard, Told, Poses
<1>6. DOMAIN toGw' = {}
  BY <1>1, <1>2
<1> QED
  BY <1>1, <1>2, <1>4, <1>5, <1>6 DEF OnMesh, RadioIdle, Returning, NoKeySent, ClaimsTrue

LEMMA SwitchStep ==
  ASSUME Typed, Link, way # shellWay, Remembered, [PostureNext]_postureVars, ~hasty'
  PROVE  Remembered'
<1>0. \/ way = "mesh" /\ shellWay = "radio" /\ Leaving
      \/ way = "radio" /\ shellWay = "mesh" /\ Returning
  BY DEF Remembered, Typed, PathTyped
<1>1. CASE adoptWay
  BY <1>0, <1>1, ArrivesOnRadio, ArrivesOnMesh DEF Remembered
<1>2. CASE ~adoptWay
  <2>1. Still /\ RadioIdle /\ ReportsOnly
    BY <1>0 DEF Leaving, Returning, Told, ReportsOnly
  <2> QED
    BY <1>0, <1>2, <2>1, StillStep DEF Remembered, Leaving, Returning
<1> QED
  BY <1>1, <1>2

-------------------------------------------------------------------------------
(***************************************************************************)
(* RadioLink's thread takes a job.                                         *)
(***************************************************************************)
LEMMA RadioRuns ==
  ASSUME Typed, OnRadio, NEW names, Run(names)
  PROVE  /\ jobs[1] \in names /\ jobs[1] = Head(jobs) /\ 1 \in DOMAIN jobs
         /\ \A i \in DOMAIN jobs' : /\ i + 1 \in DOMAIN jobs /\ jobs'[i] = jobs[i + 1]
                                    /\ i # 0 /\ i + 1 # 1
         /\ UNCHANGED <<mine, toGw, toPage, handoff, wanted, owns>>
         /\ Yielding'
         /\ NoKeyPosted => NoKeyPosted'
         /\ StopPosted' => StopPosted
         /\ jobs[1] # "estop" /\ StopPosted => StopPosted'
<1>1. /\ DOMAIN jobs = 1..Len(jobs) /\ Len(jobs) \in Nat /\ Len(jobs) > 0
      /\ DOMAIN jobs' = 1..(Len(jobs) - 1)
      /\ jobs[1] \in names /\ jobs[1] = Head(jobs)
      /\ \A i \in DOMAIN jobs' : jobs'[i] = jobs[i + 1]
  BY RcRuns
<1>2. \A i \in DOMAIN jobs' : /\ i + 1 \in DOMAIN jobs /\ jobs'[i] = jobs[i + 1]
                              /\ i # 0 /\ i + 1 # 1
  BY <1>1
<1>3. UNCHANGED <<mine, toGw, toPage, handoff, wanted, owns>>
  BY DEF Run, gwVars, knows, shake
<1>4. Yielding'
  BY <1>2, <1>3 DEF OnRadio, Yielding
<1>5. (NoKeyPosted => NoKeyPosted') /\ (StopPosted' => StopPosted)
  BY <1>2 DEF NoKeyPosted, StopPosted
<1>6. ASSUME jobs[1] # "estop", StopPosted PROVE StopPosted'
  <2>1. PICK i \in DOMAIN jobs : jobs[i] = "estop"
    BY <1>6 DEF StopPosted
  <2>2. i - 1 \in DOMAIN jobs' /\ jobs'[i - 1] = jobs[i]
    BY <1>1, <1>6, <2>1
  <2> QED
    BY <2>1, <2>2 DEF StopPosted
<1> QED
  BY <1>1, <1>2, <1>3, <1>4, <1>5, <1>6

(***************************************************************************)
(* An enabling or a posture, which is not a key.                           *)
(***************************************************************************)
LEMMA RadioAdopts ==
  ASSUME Typed, OnRadio, setEnabledOn \/ adoptOnRadio
  PROVE  OnRadio'
<1>1. \E names : Run(names) /\ names \in {{"on"}, Poses}
  BY DEF setEnabledOn, adoptOnRadio
<1>2. PICK names : Run(names) /\ names \in {{"on"}, Poses}
  BY <1>1
<1>3. UNCHANGED <<dog, rcLocked, standLater>>
  BY DEF setEnabledOn, adoptOnRadio
<1>4. jobs[1] \notin Keys /\ jobs[1] # "estop" /\ (adoptOnRadio => jobs[1] \in Poses)
  BY <1>2, RadioRuns DEF Keys, Poses, adoptOnRadio
<1>5. /\ StopPosted' <=> StopPosted
      /\ StopSent' <=> StopSent
      /\ UNCHANGED <<mine, toGw, handoff>> /\ Yielding' /\ (NoKeyPosted => NoKeyPosted')
  BY <1>2, <1>4, RadioRuns DEF StopSent
<1>6. \A i \in DOMAIN jobs' : /\ i + 1 \in DOMAIN jobs /\ jobs'[i] = jobs[i + 1]
                              /\ i # 0 /\ i + 1 # 1
  BY <1>2, RadioRuns
<1>7. StopAlone' /\ OneKeyIfLocked'
  <2>1. StopAlone'
    BY <1>3, <1>5, <1>6 DEF OnRadio, StopAlone
  <2>2. \A i \in DOMAIN jobs', j \in DOMAIN jobs' : i + 1 = j + 1 => i = j
    BY <1>2, RcRuns
  <2>3. OneKeyIfLocked'
    BY <1>3, <1>5, <1>6, <2>2 DEF OnRadio, OneKeyIfLocked
  <2> QED
    BY <2>1, <2>3
<1>8. PosesTrue'
  <2>1. ASSUME NEW i \in DOMAIN jobs', jobs'[i] \in Poses
        PROVE  /\ jobs'[i] = dog' \/ LateStop'
               /\ \A j \in DOMAIN jobs' : j < i => jobs'[j] \notin Keys
    <3>1. \A j \in DOMAIN jobs' : j < i => j + 1 < i + 1
      BY <1>2, RcRuns
    <3> QED
      BY <1>3, <1>5, <1>6, <2>1, <3>1 DEF OnRadio, PosesTrue, LateStop
  <2> QED
    BY <2>1 DEF PosesTrue
<1>9. CASE handoff # "none"
  BY <1>3, <1>5, <1>7, <1>8, <1>9 DEF OnRadio, Handed
<1>10. CASE handoff = "none"
  <2>1. LateStop => LateStop'
    BY <1>3, <1>5 DEF LateStop
  <2>2. ASSUME ~LateStop, Truth PROVE Truth'
    <3>1. rcUp' = (dog = "up")
      <4>1. CASE adoptOnRadio
        <5>1. jobs[1] = dog
          BY <1>2, <1>4, <2>2, <4>1, RadioRuns DEF OnRadio, PosesTrue
        <5> QED
          BY <1>2, <4>1, <5>1, RadioRuns DEF adoptOnRadio
      <4>2. CASE setEnabledOn
        BY <2>2, <4>2 DEF setEnabledOn, Truth, RadioKnows
      <4> QED
        BY <4>1, <4>2
    <3> QED
      BY <1>3, <1>6, <2>2, <3>1 DEF Truth, RadioKnows
  <2> QED
    BY <1>5, <1>7, <1>8, <1>10, <2>1, <2>2 DEF OnRadio
<1> QED
  BY <1>9, <1>10

(***************************************************************************)
(* A key reaches RadioLink: it was pressed after the handoff.              *)
(***************************************************************************)
LEMMA RadioHears ==
  ASSUME Typed, OnRadio, NEW name \in Keys, Hears(name)
  PROVE  /\ handoff' = "none" /\ handoff = "none" /\ Yielding'
         /\ \A i \in DOMAIN jobs' : jobs'[i] \notin Poses
         /\ PosesTrue'
         /\ StopSent' <=> StopSent
         /\ name # "estop" => ~StopSent /\ ~StopPosted /\ ~StopPosted' /\ Truth /\ ~standLater
         /\ name # "estop" /\ dog = "locked" => \A i \in DOMAIN jobs' : jobs'[i] \notin Keys
         /\ name = "estop" => \A i \in DOMAIN jobs' : jobs'[i] \in Keys => jobs'[i] = "estop"
<1>1. Run({name})
  BY DEF Hears
<1>2. /\ jobs[1] = name /\ 1 \in DOMAIN jobs
      /\ \A i \in DOMAIN jobs' : /\ i + 1 \in DOMAIN jobs /\ jobs'[i] = jobs[i + 1]
                                 /\ i # 0 /\ i + 1 # 1
      /\ UNCHANGED <<toGw, handoff>> /\ Yielding' /\ (StopPosted' => StopPosted)
  BY <1>1, RadioRuns
<1>3. handoff = "none"
  BY <1>2 DEF OnRadio, Handed, NoKeyPosted
<1>4. \A i \in DOMAIN jobs' : jobs'[i] \notin Poses
  <2>1. \A i \in DOMAIN jobs' : 1 < i + 1
    BY <1>1, RcRuns
  <2> QED
    BY <1>2, <2>1 DEF OnRadio, PosesTrue
<1>5. ASSUME name # "estop"
      PROVE  ~StopSent /\ ~StopPosted /\ ~StopPosted' /\ Truth /\ ~standLater
  <2>1. ~StopSent /\ ~StopPosted
    BY <1>2, <1>5 DEF OnRadio, StopAlone
  <2>2. Truth
    BY <1>3, <2>1 DEF OnRadio, LateStop
  <2>3. ~standLater
    BY <1>2, <2>2 DEF Truth, Keys
  <2> QED
    BY <1>2, <2>1, <2>2, <2>3
<1>6. name # "estop" /\ dog = "locked" => \A i \in DOMAIN jobs' : jobs'[i] \notin Keys
  BY <1>2, <1>5 DEF OnRadio, OneKeyIfLocked
<1>7. name = "estop" => \A i \in DOMAIN jobs' : jobs'[i] \in Keys => jobs'[i] = "estop"
  <2>1. name = "estop" => StopPosted
    BY <1>2 DEF StopPosted
  <2> QED
    BY <1>2, <2>1 DEF OnRadio, StopAlone
<1> QED
  BY <1>2, <1>3, <1>4, <1>5, <1>6, <1>7 DEF StopSent, PosesTrue

LEMMA RadioKey ==
  ASSUME Typed, OnRadio, standUp \/ sitDown \/ unload
  PROVE  OnRadio'
<1>1. \E name \in Keys \ {"estop"} : Hears(name)
  BY DEF standUp, sitDown, unload, Keys
<1>2. PICK name \in Keys \ {"estop"} : Hears(name)
  BY <1>1
<1>3. /\ handoff' = "none" /\ Yielding' /\ PosesTrue' /\ ~StopSent' /\ ~StopPosted' /\ Truth
      /\ ~standLater
      /\ \A i \in DOMAIN jobs' : jobs'[i] \notin Poses
      /\ dog = "locked" => \A i \in DOMAIN jobs' : jobs'[i] \notin Keys
  BY <1>2, RadioHears
<1>4. StopAlone'
  BY <1>3 DEF StopAlone
<1>5. \A i \in DOMAIN jobs' : jobs'[i] \in Keys \cup Poses \cup {"on"}
  <2>1. \A i \in DOMAIN jobs' : jobs'[i] \in Jobs /\ jobs'[i] # "off"
    BY <1>2, <1>3, RcRuns DEF Hears, Yielding
  <2> QED
    BY <2>1 DEF Jobs
<1>6. dog' = "locked" => dog = "locked"
  BY DEF standUp, sitDown, unload, StandSitToggle
<1>7. OneKeyIfLocked'
  BY <1>3, <1>6 DEF OneKeyIfLocked
<1>8. Truth'
  <2>1. CASE standUp
    <3>1. CASE rcLocked
      <4>1. \A i \in DOMAIN jobs' : jobs'[i] = "on"
        BY <1>3, <1>5, <3>1 DEF Truth, RadioKnows
      <4> QED
        BY <1>3, <2>1, <3>1, <4>1 DEF standUp, StandSitToggle, Truth, RadioKnows
    <3>2. CASE ~rcLocked
      <4>1. standLater' = FALSE
        BY <1>3, <2>1, <3>2 DEF standUp, Typed, RcTyped
      <4> QED
        BY <1>3, <2>1, <3>2, <4>1
           DEF standUp, StandSitToggle, Truth, RadioKnows, Typed, GwTyped, RcTyped
    <3> QED
      BY <3>1, <3>2
  <2>2. CASE sitDown
    <3>1. standLater' = FALSE
      BY <1>3, <2>2 DEF sitDown, Typed, RcTyped
    <3> QED
      BY <1>3, <2>2, <3>1 DEF sitDown, StandSitToggle, Truth, RadioKnows, Typed, GwTyped, RcTyped
  <2>3. CASE unload
    <3>1. standLater' = FALSE
      BY <1>3, <2>3 DEF unload, Typed, RcTyped
    <3> QED
      BY <1>3, <2>3, <3>1 DEF unload, StandSitToggle, Truth, RadioKnows, Typed, GwTyped, RcTyped
  <2> QED
    BY <2>1, <2>2, <2>3
<1> QED
  BY <1>3, <1>4, <1>7, <1>8 DEF OnRadio

LEMMA RadioStops ==
  ASSUME Typed, OnRadio, estop
  PROVE  OnRadio'
<1>1. Hears("estop") /\ "estop" \in Keys
  BY DEF estop, Keys
<1>2. /\ handoff' = "none" /\ Yielding' /\ PosesTrue'
      /\ \A i \in DOMAIN jobs' : jobs'[i] \in Keys => jobs'[i] = "estop"
  BY <1>1, RadioHears
<1>3. Truth' /\ dog' = "locked" /\ ~standLater'
  BY DEF estop, Truth, RadioKnows
<1>4. StopAlone' /\ OneKeyIfLocked'
  BY <1>2, <1>3 DEF StopAlone, OneKeyIfLocked, StopPosted
<1> QED
  BY <1>2, <1>3, <1>4 DEF OnRadio

LEMMA RadioStandsLate ==
  ASSUME Typed, OnRadio, standNow
  PROVE  OnRadio'
<1>1. standLater /\ ~StopSent /\ ~StopPosted
  BY DEF standNow, OnRadio, StopAlone
<1>2. handoff = "none" /\ Truth
  BY <1>1 DEF OnRadio, Handed, LateStop
<1>3. dog = "prone" /\ (\A i \in DOMAIN jobs : jobs[i] = "on") /\ dog' = "up" /\ rcUp' = TRUE
      /\ ~rcLocked /\ ~standLater'
  BY <1>1, <1>2 DEF Truth, RadioKnows, standNow, StandSitToggle
<1>4. UNCHANGED <<rcLocked, jobs, handoff, wanted, toGw, mine>>
  BY DEF standNow, knows, gwVars
<1>5. PosesTrue'
  BY <1>3, <1>4 DEF PosesTrue, Poses
<1> QED
  BY <1>1, <1>2, <1>3, <1>4, <1>5
     DEF OnRadio, Yielding, StopAlone, OneKeyIfLocked, StopSent, StopPosted, Truth, RadioKnows

(***************************************************************************)
(* The gateway hears of a yield or a stop only.                            *)
(***************************************************************************)
LEMMA RadioDispatch ==
  ASSUME Typed, OnRadio, DispatchPose
  PROVE  OnRadio'
<1>0. UNCHANGED <<rcUp, rcLocked, standLater, jobs, handoff, wanted>>
  BY DEF DispatchPose, GwClaim, GwYield, GwEstop, GwPose, gwOnly, rcVars, knows
<1>1. ASSUME NEW t, Take(t) PROVE t \in {"yield", "estop"}
  BY <1>1, GwTakes DEF OnRadio, Yielding
<1>2. CASE GwYield
  <2>1. Take("yield") /\ dog' = dog /\ ~mine'
    BY <1>2 DEF GwYield
  <2>2. /\ DOMAIN toGw = 1..Len(toGw) /\ Len(toGw) \in Nat /\ Len(toGw) > 0
        /\ DOMAIN toGw' = 1..(Len(toGw) - 1) /\ toGw[1].t = "yield"
        /\ \A i \in DOMAIN toGw' : toGw'[i] = toGw[i + 1]
    BY <2>1, GwTakes
  <2>3. \A i \in DOMAIN toGw : toGw[i].t = "estop" =>
            i - 1 \in DOMAIN toGw' /\ toGw'[i - 1] = toGw[i]
    BY <2>2
  <2>4. \A i \in DOMAIN toGw' : i + 1 \in DOMAIN toGw
    BY <2>2
  <2>5. (StopSent' <=> StopSent) /\ (StopPosted' <=> StopPosted)
    BY <1>0, <2>2, <2>3, <2>4 DEF StopSent, StopPosted
  <2>6. Yielding'
    BY <1>0, <2>1, <2>2, <2>4 DEF OnRadio, Yielding
  <2> QED
    BY <1>0, <2>1, <2>5, <2>6 DEF OnRadio, StopAlone, OneKeyIfLocked, PosesTrue, LateStop, Truth,
                                  RadioKnows, Handed, NoKeyPosted
<1>3. CASE GwEstop
  <2>1. Take("estop") /\ dog' = "locked" /\ mine' = mine
    BY <1>3 DEF GwEstop
  <2>2. /\ DOMAIN toGw = 1..Len(toGw) /\ Len(toGw) \in Nat /\ Len(toGw) > 0
        /\ DOMAIN toGw' = 1..(Len(toGw) - 1) /\ toGw[1].t = "estop"
        /\ \A i \in DOMAIN toGw' : toGw'[i] = toGw[i + 1]
    BY <2>1, GwTakes
  <2>3. StopSent /\ (StopPosted' <=> StopPosted)
    BY <1>0, <2>2 DEF StopSent, StopPosted
  <2>4. /\ ~standLater /\ handoff = "none"
        /\ \A i \in DOMAIN jobs : jobs[i] \in Keys => jobs[i] = "estop"
        /\ StopPosted \/ dog = "locked"
    BY <2>3 DEF OnRadio, StopAlone, Handed
  <2>5. Yielding'
    <3>1. \A i \in DOMAIN toGw : toGw[i].t = "yield" =>
            i - 1 \in DOMAIN toGw' /\ toGw'[i - 1] = toGw[i]
      BY <2>2
    <3>2. \A i \in DOMAIN toGw' : i + 1 \in DOMAIN toGw
      BY <2>2
    <3> QED
      BY <1>0, <2>1, <2>2, <3>1, <3>2 DEF OnRadio, Yielding
  <2>6. StopAlone' /\ OneKeyIfLocked'
    BY <1>0, <2>1, <2>4, <2>3 DEF StopAlone, OneKeyIfLocked, StopPosted
  <2>7. PosesTrue'
    BY <1>0, <2>1, <2>3, <2>4 DEF OnRadio, PosesTrue, LateStop, Poses
  <2>8. LateStop' \/ Truth'
    BY <1>0, <2>1, <2>3, <2>4 DEF OnRadio, LateStop, Truth, RadioKnows
  <2> QED
    BY <1>0, <2>4, <2>5, <2>6, <2>7, <2>8 DEF OnRadio
<1> QED
  BY <1>1, <1>2, <1>3 DEF DispatchPose, GwClaim, GwPose

(***************************************************************************)
(* The page ends the handoff once RadioLink remembers the same.            *)
(***************************************************************************)
LEMMA RadioShows ==
  ASSUME Typed, OnRadio, syncRadioStanding
  PROVE  OnRadio'
<1>0. UNCHANGED <<dog, rcUp, rcLocked, standLater, jobs, wanted, toGw, mine>>
  BY DEF syncRadioStanding, dogVars, gwVars, rcVars
<1>1. handoff' = handoff \/ (handoff' = "none" /\ handoff = Pose(rcUp))
  BY DEF syncRadioStanding, Settles
<1>2. ASSUME handoff # "none", handoff = Pose(rcUp) PROVE Truth
  <2>1. handoff = dog /\ ~rcLocked /\ ~standLater /\ dog \in Poses
    BY <1>2 DEF OnRadio, Handed, Typed, PageTyped
  <2>2. RadioKnows
    BY <1>2, <2>1 DEF RadioKnows, Pose, Poses, Typed, RcTyped
  <2> QED
    BY <2>1, <2>2 DEF Truth
<1>3. Yielding' /\ StopAlone' /\ OneKeyIfLocked' /\ PosesTrue'
  BY <1>0 DEF OnRadio, Yielding, StopAlone, OneKeyIfLocked, PosesTrue, StopSent, StopPosted, LateStop
<1>4. (LateStop => LateStop') /\ (Truth => Truth') /\ (handoff' = handoff /\ Handed => Handed')
  BY <1>0 DEF LateStop, Truth, RadioKnows, Handed, StopPosted, StopSent, NoKeyPosted
<1> QED
  BY <1>1, <1>2, <1>3, <1>4 DEF OnRadio

(***************************************************************************)
(* Enabling RadioLink is posted behind what is posted.                     *)
(***************************************************************************)
LEMMA RadioControl ==
  ASSUME Typed, OnRadio, way = "radio", OnControl
  PROVE  OnRadio'
<1>0. /\ UNCHANGED <<dog, rcUp, rcLocked, standLater, handoff, toGw, mine>> /\ ~wanted'
      /\ ~wanted
  BY DEF OnRadio, Yielding, OnControl, dogVars, gwVars, rcVars
<1>1. \E calls \in {<<>>, <<"on">>} : Post(calls \o <<>>)
  BY <1>0 DEF OnControl
<1>2. PICK calls \in {<<>>, <<"on">>} : Post(calls \o <<>>)
  BY <1>1
<1>3. calls \o <<>> = calls /\ calls \in Seq(Jobs) /\ \A i \in DOMAIN calls : calls[i] = "on"
      /\ DOMAIN calls = 1..Len(calls)
  <2>1. CASE calls = <<>>
    BY <2>1, Postings
  <2>2. CASE calls = <<"on">>
    BY <2>2, Postings
  <2> QED
    BY <2>1, <2>2
<1>4. /\ Len(jobs) \in Nat /\ Len(calls) \in Nat /\ DOMAIN jobs = 1..Len(jobs)
      /\ DOMAIN jobs' = 1..(Len(jobs) + Len(calls))
      /\ \A i \in 1..Len(jobs) : jobs'[i] = jobs[i]
      /\ \A i \in DOMAIN jobs' : i > Len(jobs) => jobs'[i] = calls[i - Len(jobs)]
  BY <1>2, <1>3, Posting
<1>5. /\ \A i \in DOMAIN jobs : i \in DOMAIN jobs' /\ jobs'[i] = jobs[i]
      /\ \A i \in DOMAIN jobs' : jobs'[i] # "on" => i \in DOMAIN jobs /\ jobs'[i] = jobs[i]
  BY <1>3, <1>4
<1>6. (StopPosted' <=> StopPosted) /\ (StopSent' <=> StopSent)
  BY <1>0, <1>5 DEF StopPosted, StopSent
<1>7. Yielding'
  BY <1>0, <1>5 DEF OnRadio, Yielding
<1>8. "on" \notin Keys /\ "on" \notin Poses
  BY DEF Keys, Poses
<1>9. StopAlone' /\ OneKeyIfLocked'
  BY <1>0, <1>5, <1>6, <1>8 DEF OnRadio, StopAlone, OneKeyIfLocked
<1>10. PosesTrue'
  BY <1>0, <1>5, <1>6, <1>8 DEF OnRadio, PosesTrue, LateStop
<1>11. (LateStop => LateStop') /\ (Truth => Truth') /\ (Handed => Handed')
  BY <1>0, <1>5, <1>6, <1>8 DEF LateStop, Truth, RadioKnows, Handed, NoKeyPosted
<1> QED
  BY <1>0, <1>7, <1>9, <1>10, <1>11 DEF OnRadio

(***************************************************************************)
(* The operator presses a key once the last one shows.                     *)
(***************************************************************************)
LEMMA RadioPresses ==
  ASSUME Typed, OnRadio, way = "radio", NEW name \in Keys, NEW amid, Pressed(amid), ~hasty',
         {"estop"} \subseteq amid, dog = "locked" => amid = Keys,
         Post(<<"on", name>>), wanted' = wanted, handoff' = "none",
         name = "estop" => amid = Keys /\ Send(<<[t |-> "estop"]>>),
         name # "estop" => UNCHANGED toGw
  PROVE  OnRadio'
<1>0. UNCHANGED <<dog, rcUp, rcLocked, standLater, mine>>
  BY DEF Pressed, dogVars, gwVars, rcVars
<1>1. ~standLater /\ handoff = "none" /\ ~UnderWay(amid)
  BY DEF Pressed, TooSoon, radioDirect
<1>2. /\ \A i \in DOMAIN jobs : jobs[i] \notin amid
      /\ \A i \in DOMAIN toGw : toGw[i].t \notin amid
  BY <1>1, UnderWayIs
<1>3. ~StopPosted /\ ~StopSent /\ Truth
  BY <1>1, <1>2 DEF StopPosted, StopSent, OnRadio, LateStop
<1>4. name = "estop" \/ dog = "locked" => NoKeyPosted
  BY <1>2 DEF NoKeyPosted
<1> DEFINE calls == <<"on", name>>
<1>5. Post(calls) /\ calls \in Seq(Jobs) /\ Len(calls) = 2 /\ calls[1] = "on" /\ calls[2] = name
  BY Postings, Messages
<1> HIDE DEF calls
<1>6. /\ Len(jobs) \in Nat /\ DOMAIN jobs = 1..Len(jobs) /\ DOMAIN jobs' = 1..(Len(jobs) + 2)
      /\ \A i \in 1..Len(jobs) : jobs'[i] = jobs[i]
      /\ \A i \in DOMAIN jobs' : i > Len(jobs) => jobs'[i] = calls[i - Len(jobs)]
  BY <1>5, Posting
<1>7. /\ jobs'[Len(jobs) + 1] = "on" /\ jobs'[Len(jobs) + 2] = name
      /\ Len(jobs) + 2 \in DOMAIN jobs'
      /\ \A i \in DOMAIN jobs' :
           i \in DOMAIN jobs \/ i = Len(jobs) + 1 \/ i = Len(jobs) + 2
  BY <1>5, <1>6
<1>8. "on" \notin Keys /\ "on" \notin Poses /\ name \notin Poses /\ name # "off"
  BY DEF Keys, Poses
<1>9. StopPosted' <=> name = "estop"
  BY <1>3, <1>6, <1>7 DEF StopPosted
<1>10. /\ \A i \in DOMAIN toGw' : toGw'[i].t \in {"yield", "estop"}
       /\ \A i \in DOMAIN toGw : i \in DOMAIN toGw' /\ toGw'[i] = toGw[i]
       /\ StopSent' <=> name = "estop"
  <2>1. CASE name # "estop"
    BY <1>3, <2>1 DEF OnRadio, Yielding, StopSent
  <2>2. CASE name = "estop"
    <3> DEFINE m == [t |-> "estop"]
    <3>1. m \in Claims \cup Simple /\ Send(<<m>>) /\ m.t = "estop"
      BY <2>2, Messages
    <3> HIDE DEF m
    <3>2. /\ Len(toGw) \in Nat
          /\ DOMAIN toGw = 1..Len(toGw) /\ DOMAIN toGw' = 1..(Len(toGw) + 1)
          /\ \A i \in DOMAIN toGw : toGw'[i] = toGw[i]
          /\ toGw'[Len(toGw) + 1] = m
      BY <3>1, Sending
    <3> QED
      BY <2>2, <3>1, <3>2 DEF OnRadio, Yielding, StopSent
  <2> QED
    BY <2>1, <2>2
<1>11. Yielding'
  BY <1>0, <1>6, <1>7, <1>8, <1>10 DEF OnRadio, Yielding
<1>12. StopAlone'
  BY <1>0, <1>1, <1>4, <1>6, <1>7, <1>8, <1>9, <1>10 DEF StopAlone, NoKeyPosted
<1>13. OneKeyIfLocked'
  BY <1>0, <1>4, <1>6, <1>7, <1>8 DEF OneKeyIfLocked, NoKeyPosted
<1>14. PosesTrue'
  <2>1. ASSUME NEW i \in DOMAIN jobs', jobs'[i] \in Poses
        PROVE  jobs'[i] = dog' /\ \A j \in DOMAIN jobs' : j < i => jobs'[j] \notin Keys
    <3>1. i \in DOMAIN jobs /\ jobs'[i] = jobs[i]
      BY <1>6, <1>7, <1>8, <2>1
    <3>2. \A j \in DOMAIN jobs' : j < i => j \in DOMAIN jobs /\ jobs'[j] = jobs[j]
      BY <1>6, <3>1
    <3> QED
      BY <1>0, <1>3, <2>1, <3>1, <3>2 DEF OnRadio, PosesTrue, LateStop
  <2> QED
    BY <2>1 DEF PosesTrue
<1>15. Truth'
  BY <1>0, <1>1, <1>3 DEF Truth, RadioKnows
<1> QED
  BY <1>11, <1>12, <1>13, <1>14, <1>15 DEF OnRadio

LEMMA RadioLeaves ==
  ASSUME Typed, OnRadio, way = "radio", shellWay = "radio", togglePath, ~hasty', ~lockMoved'
  PROVE  Returning' /\ way' = "radio" /\ shellWay' = "mesh"
<1>1. ~Unseen /\ dog # "locked"
  BY DEF togglePath
<1>2. UNCHANGED <<dog, toGw, handoff, wanted, standLater, rcLocked, poseMem, posture, toPage, mine,
                  gwUp>>
  BY DEF togglePath, dogVars, gwVars, rcVars, knows
<1>3. toGw = <<>> /\ jobs = <<>> /\ handoff = "none" /\ ~wanted /\ ~standLater /\ Told
  BY <1>1, Seen
<1>4. Truth /\ ~mine
  BY <1>1, <1>3 DEF OnRadio, Yielding, LateStop
<1>5. ~rcLocked /\ dog \in Poses /\ rcUp = (dog = "up")
  BY <1>1, <1>4 DEF Truth, RadioKnows, Typed, GwTyped, Poses
<1>6. poseMem = dog /\ posture = IF dog = "up" THEN "standing" ELSE "prone"
  BY <1>1, <1>5, Seen DEF radioDirect, postureState, Pose, Poses
<1>7. jobs' = <<"off">>
  BY <1>3 DEF togglePath, Post
<1>8. RadioIdle'
  BY <1>2, <1>3, <1>5, <1>7 DEF RadioIdle
<1>9. Told'
  BY <1>2, <1>3 DEF Told
<1> QED
  BY <1>2, <1>3, <1>4, <1>5, <1>6, <1>8, <1>9 DEF Returning, Still, togglePath

LEMMA RadioStep ==
  ASSUME Typed, OnRadio, way = "radio", shellWay = "radio", [PostureNext]_postureVars,
         ~hasty', ~lockMoved'
  PROVE  Remembered'
<1>1. CASE togglePath
  BY <1>1, RadioLeaves DEF Remembered
<1>2. CASE ~togglePath
  <2>0. way' = "radio" /\ shellWay' = "radio"
    BY <1>2 DEF PostureNext, DispatchPose, GwClaim, GwYield, GwEstop, GwPose, gwOnly, StateReport,
                onRadio, setEnabledOn, stop, adoptOnRadio, standUp, sitDown, unload, estop, Hears,
                Run, standNow, renderState, syncRadioStanding, OnControl, PoseKey, PoseKeyClaims,
                EstopKey, Pressed, adoptWay, ClaimPosture, postureVars
  <2> SUFFICES OnRadio'
    BY <2>0 DEF Remembered
  <2>1. CASE DispatchPose
    BY <2>1, RadioDispatch
  <2>2. CASE UNCHANGED <<dog, rcUp, rcLocked, standLater, jobs, handoff, wanted, toGw, mine>>
    BY <2>2 DEF OnRadio, Yielding, StopAlone, OneKeyIfLocked, PosesTrue, LateStop, Truth,
                RadioKnows, Handed, NoKeyPosted, StopSent, StopPosted
  <2>3. CASE StateReport \/ renderState \/ ClaimPosture \/ UNCHANGED postureVars
    <3> SUFFICES UNCHANGED <<dog, rcUp, rcLocked, standLater, jobs, handoff, wanted, toGw, mine>>
      BY <2>2
    <3> QED
      BY <2>3 DEF StateReport, renderState, ClaimPosture, requestControl, radioDirect, postureVars,
                  dogVars, gwVars, rcVars, knows
  <2>4. CASE onRadio
    <3>1. ~stop
      BY RadioRuns DEF stop, OnRadio, Yielding
    <3> QED
      BY <2>4, <3>1, RadioAdopts, RadioKey, RadioStops DEF onRadio
  <2>5. CASE standNow
    BY <2>5, RadioStandsLate
  <2>6. CASE syncRadioStanding
    BY <2>6, RadioShows
  <2>7. CASE OnControl
    BY <2>7, RadioControl
  <2>8. CASE PoseKey
    <3> DEFINE amid == IF dog = "locked" THEN Keys ELSE {"estop"}
    <3>1. Pressed(amid) /\ {"estop"} \subseteq amid /\ (dog = "locked" => amid = Keys)
      BY <2>8 DEF PoseKey, Keys
    <3> HIDE DEF amid
    <3>2. PICK name \in Meant : Post(<<"on", name>>) /\ UNCHANGED <<handoff, toGw>>
      BY <2>8 DEF PoseKey, radioDirect
    <3>3. name \in Keys /\ name # "estop"
      BY Messages DEF Meant, cyclePose
    <3>4. handoff = "none" /\ wanted' = wanted
      BY <2>8, <3>1 DEF Pressed, TooSoon, radioDirect, PoseKey
    <3> QED
      BY <3>1, <3>2, <3>3, <3>4, RadioPresses
  <2>9. CASE EstopKey
    <3>1. Pressed(Keys) /\ "estop" \in Keys /\ {"estop"} \subseteq Keys
      BY <2>9 DEF EstopKey, Keys
    <3>2. /\ Post(<<"on", "estop">>) /\ Send(<<[t |-> "estop"]>>) /\ handoff' = "none"
          /\ wanted' = wanted
      BY <2>9 DEF EstopKey, radioDirect
    <3> QED
      BY <3>1, <3>2, RadioPresses
  <2>10. CASE PoseKeyClaims \/ adoptWay
    BY <2>10 DEF PoseKeyClaims, radioDirect, adoptWay
  <2> QED
    BY <1>2, <2>1, <2>3, <2>4, <2>5, <2>6, <2>7, <2>8, <2>9, <2>10 DEF PostureNext
<1> QED
  BY <1>1, <1>2

-------------------------------------------------------------------------------
(***************************************************************************)
(* The inductive invariant.                                                *)
(***************************************************************************)
PostureInv == Typed /\ Link /\ MemoryInv

LEMMA MemoryInit == PostureInit => MemoryInv
<1> SUFFICES ASSUME PostureInit PROVE Remembered
  BY DEF MemoryInv
<1>1. /\ DOMAIN jobs = {} /\ DOMAIN toGw = {} /\ way = shellWay /\ handoff = "none"
      /\ ~standLater /\ ~rcLocked /\ ~wanted /\ dog \in Poses
      /\ mine = (way = "mesh") /\ gwUp = (dog = "up") /\ rcUp = (~mine /\ dog = "up")
  BY DEF PostureInit
<1>2. OnMesh
  BY <1>1 DEF OnMesh, RadioIdle, ClaimsTrue, GatewayKnows
<1>3. ASSUME way = "radio" PROVE OnRadio
  <2>1. mine = FALSE
    BY <1>3 DEF PostureInit
  <2>11. rcUp = (dog = "up")
    BY <2>1 DEF PostureInit
  <2>12. rcLocked = FALSE /\ dog # "locked"
    BY DEF PostureInit, Poses
  <2>13. RadioKnows
    BY <2>11, <2>12 DEF RadioKnows
  <2>2. Truth /\ Yielding
    BY <1>1, <2>1, <2>13 DEF Truth, Yielding
  <2>3. StopAlone /\ OneKeyIfLocked /\ PosesTrue
    BY <1>1 DEF StopAlone, OneKeyIfLocked, PosesTrue, StopSent, StopPosted
  <2> QED
    BY <1>1, <2>2, <2>3 DEF OnRadio
<1> QED
  BY <1>1, <1>2, <1>3 DEF Remembered

LEMMA Histories ==
  [PostureNext]_postureVars => (hasty => hasty') /\ (lockMoved => lockMoved') /\ (refused => refused')
<1> SUFFICES ASSUME [PostureNext]_postureVars
             PROVE  (hasty => hasty') /\ (lockMoved => lockMoved') /\ (refused => refused')
  OBVIOUS
<1>1. CASE togglePath
  BY <1>1 DEF togglePath
<1>2. CASE PoseKey \/ PoseKeyClaims \/ EstopKey
  <2>1. PICK amid : Pressed(amid)
    BY <1>2 DEF PoseKey, PoseKeyClaims, EstopKey
  <2> QED
    BY <2>1 DEF Pressed
<1>3. CASE GwClaim
  BY <1>3 DEF GwClaim, gwOnly
<1>4. CASE ~(togglePath \/ PoseKey \/ PoseKeyClaims \/ EstopKey \/ GwClaim)
  BY <1>4 DEF PostureNext, DispatchPose, GwYield, GwEstop, GwPose, gwOnly, StateReport,
              onRadio, setEnabledOn, stop, adoptOnRadio, standUp, sitDown, unload, estop, Hears,
              Run, standNow, renderState, syncRadioStanding, OnControl, adoptWay, ClaimPosture,
              postureVars, bounds
<1> QED
  BY <1>1, <1>2, <1>3, <1>4

LEMMA MemoryStep ==
  Typed /\ Link /\ MemoryInv /\ [PostureNext]_postureVars => MemoryInv'
<1> SUFFICES ASSUME Typed, Link, MemoryInv, [PostureNext]_postureVars,
                    ~hasty', ~lockMoved', ~refused'
             PROVE  Remembered'
  BY DEF MemoryInv, Calm
<1>1. Remembered
  BY Histories DEF MemoryInv, Calm
<1>2. CASE way = "mesh" /\ shellWay = "mesh"
  BY <1>1, <1>2, MeshStep DEF Remembered
<1>3. CASE way = "radio" /\ shellWay = "radio"
  BY <1>1, <1>3, RadioStep DEF Remembered
<1>4. CASE way # shellWay
  BY <1>1, <1>4, SwitchStep
<1> QED
  BY <1>2, <1>3, <1>4 DEF Typed, PathTyped

LEMMA PostureInduction == PostureSpec => []PostureInv
<1>1. PostureInit => PostureInv
  BY InitType, LinkInit, MemoryInit DEF PostureInv
<1>2. PostureInv /\ [PostureNext]_postureVars => PostureInv'
  BY TypeStep, LinkStep, MemoryStep DEF PostureInv
<1> QED
  BY <1>1, <1>2, PTL DEF PostureSpec

(***************************************************************************)
(* Nobody takes a key for its opposite while every memory in charge is     *)
(* right.                                                                  *)
(***************************************************************************)
LEMMA NeverOpposite ==
  ASSUME Typed, Remembered
  PROVE  ~Opposite
<1>1. CASE way = "radio" /\ shellWay = "radio"
  <2>0. OnRadio
    BY <1>1 DEF Remembered
  <2>1. ASSUME NEW t, Take(t) PROVE t \in {"yield", "estop"}
    BY <2>0, <2>1, GwTakes DEF OnRadio, Yielding
  <2>2. ASSUME standUp \/ sitDown PROVE RadioKnows
    <3>1. \E name \in {"stand_up", "sit_down"} : Hears(name)
      BY <2>2 DEF standUp, sitDown
    <3>2. PICK name \in {"stand_up", "sit_down"} : Hears(name)
      BY <3>1
    <3>3. name \in Keys /\ name # "estop"
      BY DEF Keys
    <3> QED
      BY <2>0, <3>2, <3>3, RadioHears DEF Truth
  <2>3. standNow => dog = "prone"
    BY <2>0 DEF standNow, OnRadio, StopAlone, LateStop, Handed, Truth
  <2>4. ~(dog = "up" /\ dog' = "prone" /\ standUp)
    BY <2>2 DEF standUp, RadioKnows
  <2>5. ~(dog = "prone" /\ dog' = "up" /\ sitDown)
    BY <2>2 DEF sitDown, RadioKnows
  <2> QED
    BY <2>1, <2>3, <2>4, <2>5 DEF Opposite, GwPose
<1>2. CASE ~(way = "radio" /\ shellWay = "radio")
  <2>1. RadioIdle
    BY <1>2 DEF Remembered, OnMesh, Leaving, Returning, Typed, PathTyped
  <2>2. ~standUp /\ ~sitDown /\ ~standNow
    <3>1. ASSUME NEW name, Run({name}) PROVE name = "off"
      BY <2>1, <3>1, RcRuns DEF RadioIdle
    <3> QED
      BY <2>1, <3>1 DEF standUp, sitDown, Hears, standNow, RadioIdle
  <2>3. ASSUME NEW name \in {"stand_up", "sit_down"}, Take(name) PROVE GatewayKnows
    <3>1. OnMesh
      BY <1>2, <2>3 DEF Remembered, Leaving, Returning, Still, Take, Typed, PathTyped
    <3>2. name \in Keys /\ name # "estop"
      BY DEF Keys
    <3> QED
      BY <2>3, <3>1, <3>2, MeshTakes
  <2>4. ~(dog = "up" /\ dog' = "prone" /\ GwPose("stand_up", "prone", TRUE))
    BY <2>3 DEF GwPose, View, Upright, GatewayKnows
  <2>5. ~(dog = "prone" /\ dog' = "up" /\ GwPose("sit_down", "standing", FALSE))
    BY <2>3 DEF GwPose, View, Upright, GatewayKnows
  <2> QED
    BY <2>2, <2>4, <2>5 DEF Opposite
<1> QED
  BY <1>1, <1>2

(***************************************************************************)
(* A key never makes the dog do the opposite of what it says, after any    *)
(* number of keys and switches of the path, with queues of any length.     *)
(***************************************************************************)
THEOREM NoKeyIsTakenForItsOpposite == PostureSpec => NoOppositeMove
<1>1. PostureInv /\ [PostureNext]_postureVars
        => [hasty \/ lockMoved \/ refused \/ ~Opposite]_postureVars
  BY NeverOpposite DEF PostureInv, MemoryInv, Calm
<1> QED
  BY <1>1, PostureInduction, PTL DEF PostureSpec, NoOppositeMove

(***************************************************************************)
(* The page's control flag follows the gateway's decisions in order.       *)
(***************************************************************************)
THEOREM PageFollowsController == PostureSpec => []Link
  BY PostureInduction, PTL DEF PostureInv
===============================================================================
