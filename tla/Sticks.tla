-------------------------------- MODULE Sticks ---------------------------------
(***************************************************************************)
(* From the operator's thumb to the dog: the sticks of the G20 and of a    *)
(* USB pad (web/gamepad.js, G20Rc.java), the two on the screen, the 20 Hz  *)
(* loop of the page (web/app.js) and RadioLink's, which reads the G20 by   *)
(* itself.  Each stage keeps a copy of the stick, refreshed by a timer of  *)
(* its own; some of them are cleared when their source goes quiet.         *)
(*                                                                         *)
(* A stick is pushed or in the middle.  driving stands for everything that *)
(* lets axes through: control of the gateway, the march, no LIO alignment, *)
(* or RadioLink's axesApply; without it nothing is sent and the gateway's  *)
(* deadline, or the end of the march, stops the dog.                       *)
(***************************************************************************)
CONSTANT Kinds \* of consoles: "browser", and the App on "mesh" or "radio"

ASSUME KindsAssumption == Kinds \subseteq {"browser", "mesh", "radio"}

VARIABLES
  kind,
  stick, finger, deadKey, \* what the operator's hands do
  plugged,    \* the browser sees a pad; RCSDK is connected to the G20
  reads,      \* RCSDK answers when it is asked for the channels
  ch,         \* G20Rc.ch, the channels as they were read last
  padSource,  \* state.source of gamepad.js
  channels,   \* state.channels are not zero
  layout,     \* what buildCore finds: no map, one without or with deadman
  deadmanOn,
  muted,      \* the key probe of the settings is open
  hidden,
  screen,     \* app.left, app.right
  scr,        \* RadioLink's copy of it, "old" after SCREEN_AXIS_HOLD_MS
  driving,
  ordered     \* what the dog was told last

hands == <<stick, finger, deadKey>>
rc == <<plugged, reads, ch>>
pad == <<padSource, channels, layout, deadmanOn, muted>>
stickVars == <<kind, hands, rc, pad, hidden, screen, scr, driving, ordered>>

Positions == {"mid", "go"}

SticksTypeOK ==
  /\ kind \in Kinds
  /\ {stick, finger, screen, ordered} \subseteq Positions
  /\ {deadKey, plugged, reads, channels, deadmanOn, muted, hidden,
      driving} \subseteq BOOLEAN
  /\ ch \in Positions \cup {"none"}
  /\ scr \in Positions \cup {"old"}
  /\ padSource \in {"none", "pad", "g20"}
  /\ layout \in {"none", "bare", "deadman"}

SticksInit ==
  /\ kind \in Kinds
  /\ stick = "mid" /\ finger = "mid" /\ deadKey = FALSE
  /\ plugged = FALSE /\ reads = TRUE /\ ch = "none"
  /\ padSource = "none" /\ channels = FALSE /\ muted = FALSE
  /\ layout \in IF kind = "browser" THEN {"none", "bare", "deadman"}
                                    ELSE {"none"}
  /\ deadmanOn \in IF kind = "browser" THEN BOOLEAN ELSE {FALSE}
  /\ hidden = FALSE /\ screen = "mid" /\ scr = "old"
  /\ driving = FALSE /\ ordered = "mid"

-------------------------------------------------------------------------------
(***************************************************************************)
(* The operator.  A screen stick takes a finger only while it is usable    *)
(* (makeStick, updateStickAvailability), and lets go of one at any time.   *)
(***************************************************************************)
MoveStick(p) ==
  /\ stick' = p
  /\ UNCHANGED <<kind, finger, deadKey, rc, pad, hidden, screen, scr, driving,
                 ordered>>

HoldDeadman ==
  /\ kind = "browser" /\ deadKey' = ~deadKey
  /\ UNCHANGED <<kind, stick, finger, rc, pad, hidden, screen, scr, driving,
                 ordered>>

Touch(p) ==
  /\ p = "go" => driving /\ ~hidden
  /\ finger' = p /\ screen' = p
  /\ UNCHANGED <<kind, stick, deadKey, rc, pad, hidden, scr, driving, ordered>>

Drive ==
  /\ driving' = ~driving
  /\ UNCHANGED <<kind, hands, rc, pad, hidden, screen, scr, ordered>>

(***************************************************************************)
(* zero(), and what calls it: the page is hidden, the key probe mutes.     *)
(***************************************************************************)
Visibility ==
  /\ hidden' = ~hidden
  /\ channels' = (channels /\ ~hidden')
  /\ ordered' = IF hidden' /\ driving /\ kind # "radio" THEN "mid" ELSE ordered
  /\ UNCHANGED <<kind, hands, rc, padSource, layout, deadmanOn, muted, screen,
                 scr, driving>>

setMuted ==
  /\ ~hidden /\ muted' = ~muted
  /\ channels' = (channels /\ ~muted')
  /\ UNCHANGED <<kind, hands, rc, padSource, layout, deadmanOn, hidden, screen,
                 scr, driving, ordered>>

(***************************************************************************)
(* The gamepad panel: a map is pasted or cleared, the dead man's switch is *)
(* wanted or not.  The core is built anew; channels wait for the next poll.*)
(***************************************************************************)
buildCore(map) == IF map = "none" THEN "none" ELSE "pad"

GamepadPanel ==
  /\ kind = "browser" /\ ~hidden
  /\ layout' \in {"none", "bare", "deadman"}
  /\ deadmanOn' \in BOOLEAN
  /\ padSource' = IF plugged THEN buildCore(layout') ELSE padSource
  /\ UNCHANGED <<kind, hands, rc, channels, muted, hidden, screen, scr,
                 driving, ordered>>

-------------------------------------------------------------------------------
(***************************************************************************)
(* G20Rc: connected and disconnected by RCSDK, asked for the channels ten  *)
(* times a second.  A read that fails, or the loss of the connection,      *)
(* leaves the channels as they were.                                       *)
(***************************************************************************)
Plug ==
  /\ plugged' = ~plugged
  /\ UNCHANGED <<kind, hands, reads, ch, pad, hidden, screen, scr, driving,
                 ordered>>

ReadsFail ==
  /\ kind # "browser" /\ reads' = ~reads
  /\ UNCHANGED <<kind, hands, plugged, ch, pad, hidden, screen, scr, driving,
                 ordered>>

onChannels ==
  /\ kind # "browser" /\ plugged /\ reads /\ ch # stick
  /\ ch' = stick
  /\ UNCHANGED <<kind, hands, plugged, reads, pad, hidden, screen, scr,
                 driving, ordered>>

(***************************************************************************)
(* A channel near its middle reads as zero (pwmAxis and the dead zone).    *)
(***************************************************************************)
g20Channels == ch = "go"

(***************************************************************************)
(* Mutant: a G20 that is gone leaves its last channels.                    *)
(***************************************************************************)
pollG20Keeping ==
  /\ kind # "browser" /\ ~hidden
  /\ IF plugged /\ ch # "none"
       THEN padSource' = "g20" /\ channels' = (g20Channels /\ ~muted)
       ELSE UNCHANGED <<padSource, channels>>
  /\ UNCHANGED <<kind, hands, rc, layout, deadmanOn, muted, hidden, screen,
                 scr, driving, ordered>>

(***************************************************************************)
(* poll, with every frame of a visible page: the G20 (applyG20), or a pad. *)
(***************************************************************************)
pollG20 ==
  /\ kind # "browser" /\ ~hidden
  /\ IF plugged /\ ch # "none"
       THEN padSource' = "g20" /\ channels' = (g20Channels /\ ~muted)
       ELSE IF padSource = "g20" THEN padSource' = "none" /\ channels' = FALSE
       ELSE UNCHANGED <<padSource, channels>>
  /\ UNCHANGED <<kind, hands, rc, layout, deadmanOn, muted, hidden, screen,
                 scr, driving, ordered>>

(***************************************************************************)
(* makeCore: the dead man's switch gates the stick; wanted but not mapped, *)
(* it gates it for good.                                                   *)
(***************************************************************************)
gated == deadmanOn /\ ~(layout = "deadman" /\ deadKey)

pollPad ==
  /\ kind = "browser" /\ ~hidden
  /\ padSource' = IF plugged THEN buildCore(layout) ELSE "none"
  /\ channels' = (padSource' = "pad" /\ stick = "go" /\ ~gated /\ ~muted)
  /\ UNCHANGED <<kind, hands, rc, layout, deadmanOn, muted, hidden, screen,
                 scr, driving, ordered>>

-------------------------------------------------------------------------------
(***************************************************************************)
(* activeChannels: the G20 rules as soon as it is there, a pad while it is *)
(* engaged, else the screen.                                               *)
(***************************************************************************)
activeChannels ==
  IF padSource = "g20" \/ channels
    THEN IF channels THEN "go" ELSE "mid"
    ELSE screen

(***************************************************************************)
(* The 20 Hz loop over MESH, or the gateway's deadline when it sends no    *)
(* more.                                                                   *)
(***************************************************************************)
sendVel ==
  /\ kind # "radio"
  /\ ordered' = IF driving THEN activeChannels ELSE "mid"
  /\ UNCHANGED <<kind, hands, rc, pad, hidden, screen, scr, driving>>

(***************************************************************************)
(* Under 2.4G it hands RadioLink the screen, unless the G20 is there       *)
(* (sendRadioVel).  A page in the background does not get to it.           *)
(***************************************************************************)
setScreenAxes ==
  /\ kind = "radio" /\ ~hidden /\ padSource # "g20"
  /\ scr' = activeChannels
  /\ UNCHANGED <<kind, hands, rc, pad, hidden, screen, driving, ordered>>

ScreenAxesExpire ==
  /\ kind = "radio" /\ scr # "old" /\ (hidden \/ padSource = "g20")
  /\ scr' = "old"
  /\ UNCHANGED <<kind, hands, rc, pad, hidden, screen, driving, ordered>>

(***************************************************************************)
(* RadioLink.onTick with effAxes: the G20 first, read from the snapshot    *)
(* whether or not it is connected; in the middle, the screen's copy.       *)
(***************************************************************************)
effAxes == IF ch = "go" THEN "go" ELSE IF scr = "go" THEN "go" ELSE "mid"

onTick ==
  /\ kind = "radio"
  /\ ordered' = IF driving THEN effAxes ELSE "mid"
  /\ UNCHANGED <<kind, hands, rc, pad, hidden, screen, scr, driving>>

-------------------------------------------------------------------------------
Timers == \/ onChannels \/ pollG20 \/ pollPad \/ sendVel
          \/ setScreenAxes \/ ScreenAxesExpire \/ onTick

SticksNext ==
  \/ \E p \in Positions : MoveStick(p) \/ Touch(p)
  \/ HoldDeadman \/ Drive \/ Visibility \/ setMuted \/ GamepadPanel
  \/ Plug \/ ReadsFail
  \/ Timers

(***************************************************************************)
(* Only the timers are sure to run.  A connection to the G20 that comes    *)
(* back lasts for a read, which takes a tenth of a second.                 *)
(***************************************************************************)
SticksFairness ==
  /\ SF_stickVars(onChannels)
  /\ WF_stickVars(pollG20) /\ WF_stickVars(pollPad)
  /\ WF_stickVars(sendVel)
  /\ WF_stickVars(setScreenAxes \/ ScreenAxesExpire)
  /\ WF_stickVars(onTick)

SticksSpec == SticksInit /\ [][SticksNext]_stickVars /\ SticksFairness

-------------------------------------------------------------------------------
HandsOff == stick = "mid" /\ finger = "mid"

(***************************************************************************)
(* Channels that were read with the stick pushed and that nothing reads    *)
(* again or takes away: RCSDK stopped answering, or, under 2.4G, was lost. *)
(***************************************************************************)
Frozen ==
  ch = "go" /\ IF kind = "radio" THEN ~reads \/ ~plugged
                                 ELSE ~reads /\ plugged

(***************************************************************************)
(* A dog whose operator has let go of every stick is told to stop, on each *)
(* of the paths and whatever was hidden, muted, unplugged or built anew in *)
(* the meantime, unless the G20's channels are frozen.                     *)
(***************************************************************************)
LettingGoStops ==
  <>[](HandsOff /\ ~Frozen) => []<>(ordered = "mid")

(***************************************************************************)
(* tools/gamepad_test.js:714: when the sticks are gone they must be zeroed *)
(* at once, or the dog walks on with the last speed (RadioLink.java:1626   *)
(* says so of the sticks of the screen).                                   *)
(***************************************************************************)
QuietSourceStops == <>[]HandsOff => []<>(ordered = "mid")
===============================================================================
