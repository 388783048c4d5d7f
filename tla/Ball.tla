---------------------------------- MODULE Ball ----------------------------------
(***************************************************************************)
(* The surveillance ball, turned with the small stick of the G20 in the    *)
(* App (web/ptzball.js, the part of web/app.js that feeds it, and          *)
(* CameraCgi.java, which carries the calls).                               *)
(*                                                                         *)
(* The ball turns until it is told to stop.  The page remembers what it    *)
(* told it last, and says stop when it is called with the stick in the     *)
(* middle; it is called only while the main view is the ball's and the     *)
(* stick is not the cannon's.  The calls wait in a queue, in which a newer *)
(* one displaces older ones, and none is repeated.  Hands and calls are    *)
(* free; the loops run.                                                    *)
(***************************************************************************)
EXTENDS Integers, Sequences

VARIABLES
  thumb,      \* the small stick
  g20,        \* g20Live(): without it the small stick reads as middle
  mainView,   \* viewLayout.main is 'ptz_vis', or another view
  workMode,
  webStickTarget,
  lastMoveKey, armAt,
  fireQueue, fetching, \* CameraCgi: what waits, what is on its way
  ball,
  lostStop    \* history: the last stop was displaced or never arrived

asks == <<thumb, g20, mainView, workMode, webStickTarget>>
tells == <<lastMoveKey, armAt>>
ballVars == <<asks, tells, fireQueue, fetching, ball, lostStop>>

Calls == {"turn", "zoom", "stop", "pip"}

BallTypeOK ==
  /\ {thumb, lastMoveKey} \subseteq {"mid", "pan", "zoom"}
  /\ {g20, armAt, lostStop} \subseteq BOOLEAN
  /\ mainView \in {"ball", "other"} /\ workMode \in {"inspect", "cannon"}
  /\ webStickTarget \in {"dog", "ptz"}
  /\ fireQueue \in Seq(Calls) /\ Len(fireQueue) <= 2
  /\ fetching \in Calls \cup {"none"}
  /\ ball \in {"still", "turning"}

(***************************************************************************)
(* initBall: the page starts on the camera of the dog; boostAudio's call   *)
(* is over.                                                                *)
(***************************************************************************)
BallInit ==
  /\ thumb = "mid" /\ g20 = FALSE /\ mainView = "other"
  /\ workMode \in {"inspect", "cannon"} /\ webStickTarget = "dog"
  /\ lastMoveKey = "mid" /\ armAt = FALSE
  /\ fireQueue = <<>> /\ fetching = "none"
  /\ ball = "still" /\ lostStop = FALSE

-------------------------------------------------------------------------------
(***************************************************************************)
(* CameraCgi.fire: stop empties the queue; another call drops a stop that  *)
(* still waits, with all before it, and the calls of its own kind, of      *)
(* which a turn and a change of the picture are one.                       *)
(***************************************************************************)
actionKind(call) == IF call \in {"turn", "pip"} THEN "move" ELSE call

(***************************************************************************)
(* Mutant: calls are queued one behind the other.                          *)
(***************************************************************************)
fireAll(call) == fireQueue' = Append(fireQueue, call) /\ UNCHANGED lostStop

Without(s, kind) ==
  LET kept[n \in 0..Len(s)] ==
        IF n = 0 THEN <<>>
        ELSE IF actionKind(s[n]) = kind THEN kept[n - 1]
        ELSE Append(kept[n - 1], s[n])
  IN  kept[Len(s)]

fire(call) ==
  LET waiting == IF fireQueue # <<>> /\ fireQueue[Len(fireQueue)] = "stop"
                   THEN <<>> ELSE fireQueue
  IN  /\ fireQueue' = IF call = "stop" THEN <<"stop">>
                      ELSE Append(Without(waiting, actionKind(call)), call)
      /\ lostStop' = (lostStop \/ (call # "stop" /\ waiting # fireQueue))

quiet == UNCHANGED <<fireQueue, lostStop>>

(***************************************************************************)
(* Mutant: only a pan needs to be stopped.                                 *)
(***************************************************************************)
ReleasePan ==
  /\ armAt' = FALSE /\ lastMoveKey' = "mid"
  /\ IF lastMoveKey = "pan" THEN fire("stop") ELSE quiet

(***************************************************************************)
(* move: in the middle, stop what was told; out of it, wait a moment       *)
(* (START_HOLD_MS), then tell the direction when it or the speed changes,  *)
(* and the zoom every 280 ms.                                              *)
(***************************************************************************)
Release ==
  /\ armAt' = FALSE /\ lastMoveKey' = "mid"
  /\ IF lastMoveKey = "mid" THEN quiet ELSE fire("stop")

Arm == armAt' = TRUE /\ UNCHANGED lastMoveKey /\ quiet

Turn(p) ==
  /\ lastMoveKey' = p /\ UNCHANGED armAt
  /\ \/ fire(IF p = "pan" THEN "turn" ELSE "zoom")
     \/ (p = "zoom" \/ lastMoveKey = p) /\ quiet

move(p) ==
  IF p = "mid" THEN Release
  ELSE IF lastMoveKey = "mid" /\ ~armAt THEN Arm
  ELSE Turn(p) \/ (lastMoveKey = "mid" /\ Arm)

(***************************************************************************)
(* sendAuxPayload, 20 times a second.                                      *)
(***************************************************************************)
auxStick == IF g20 THEN thumb ELSE "mid"

Tended == mainView = "ball" /\ workMode = "inspect"

sendAuxPayload ==
  /\ Tended
  /\ move(auxStick)
  /\ UNCHANGED <<asks, fetching, ball>>

(***************************************************************************)
(* The operator: the stick, the views, the mode, the ball's picture.       *)
(* applyLayout stops the ball when it takes the screen's sticks from it.   *)
(***************************************************************************)
MoveThumb(p) ==
  /\ thumb' = p
  /\ UNCHANGED <<g20, mainView, workMode, webStickTarget, tells, fireQueue,
                 fetching, ball, lostStop>>

PlugG20 ==
  /\ g20' = ~g20
  /\ UNCHANGED <<thumb, mainView, workMode, webStickTarget, tells, fireQueue,
                 fetching, ball, lostStop>>

applyBallLayout(v) ==
  /\ mainView' = v
  /\ IF ~g20 /\ v = "ball"
       THEN webStickTarget' = "ptz" /\ UNCHANGED tells /\ quiet
     ELSE IF webStickTarget = "ptz"
       THEN webStickTarget' = "dog" /\ Release
     ELSE UNCHANGED <<webStickTarget, tells>> /\ quiet
  /\ UNCHANGED <<thumb, g20, workMode, fetching, ball>>

setWorkMode(m) ==
  /\ workMode' = m
  /\ UNCHANGED <<thumb, g20, mainView, webStickTarget, tells, fireQueue,
                 fetching, ball, lostStop>>

(***************************************************************************)
(* The chip: the mode with the G20, else whom the screen's sticks move.    *)
(***************************************************************************)
ChipStick ==
  \/ g20 /\ workMode' \in {"inspect", "cannon"} \ {workMode}
         /\ UNCHANGED webStickTarget
  \/ ~g20 /\ mainView = "ball"
          /\ webStickTarget' \in {"dog", "ptz"} \ {webStickTarget}
          /\ UNCHANGED workMode

Chip ==
  /\ ChipStick
  /\ UNCHANGED <<thumb, g20, mainView, tells, fireQueue, fetching, ball,
                 lostStop>>

setPip ==
  /\ fire("pip")
  /\ UNCHANGED <<asks, tells, fetching, ball>>

-------------------------------------------------------------------------------
(***************************************************************************)
(* drainFire: one call at a time.  It fails by its timeouts or because a   *)
(* stop tears the connection down, and may have reached the ball all the   *)
(* same.                                                                   *)
(***************************************************************************)
drainFire ==
  /\ fetching = "none" /\ fireQueue # <<>>
  /\ fetching' = Head(fireQueue) /\ fireQueue' = Tail(fireQueue)
  /\ UNCHANGED <<asks, tells, ball, lostStop>>

fetchReaches ==
  /\ fetching # "none" /\ fetching' = "none"
  /\ ball' = CASE fetching = "stop" -> "still"
               [] fetching = "pip" -> ball
               [] OTHER -> "turning"
  /\ lostStop' = (lostStop /\ fetching # "stop")
  /\ UNCHANGED <<asks, tells, fireQueue>>

fetchFails ==
  /\ fetching # "none" /\ fetching' = "none"
  /\ lostStop' = (lostStop \/ fetching = "stop")
  /\ UNCHANGED <<asks, tells, fireQueue, ball>>

-------------------------------------------------------------------------------
BallNext ==
  \/ \E p \in {"mid", "pan", "zoom"} : MoveThumb(p)
  \/ \E v \in {"ball", "other"} : applyBallLayout(v)
  \/ \E m \in {"inspect", "cannon"} : setWorkMode(m)
  \/ PlugG20 \/ Chip \/ setPip \/ sendAuxPayload
  \/ drainFire \/ fetchReaches \/ fetchFails

BallFairness ==
  /\ WF_ballVars(sendAuxPayload)
  /\ WF_ballVars(drainFire)
  /\ WF_ballVars(fetchReaches \/ fetchFails)

BallSpec == BallInit /\ [][BallNext]_ballVars /\ BallFairness

-------------------------------------------------------------------------------
(***************************************************************************)
(* The page remembers that the ball turns and is no longer called.         *)
(***************************************************************************)
Abandoned == lastMoveKey # "mid" /\ ~Tended

(***************************************************************************)
(* Once the small stick is let go of for good the ball comes to rest, also *)
(* if its calls, the picture's and the views' changes crossed on the way,  *)
(* unless a stop was displaced or lost, or the page has turned elsewhere.  *)
(***************************************************************************)
BallStops ==
  <>[](auxStick = "mid") => []<>(ball = "still" \/ lostStop \/ Abandoned)

(***************************************************************************)
(* app.js:2381: leaving the ball's view must stop the ball, or the stick   *)
(* goes on turning it.                                                     *)
(***************************************************************************)
LeavingStops ==
  <>[](mainView = "other") => []<>(ball = "still" \/ lostStop)
===============================================================================
