------------------------------- MODULE Pictures ---------------------------------
(***************************************************************************)
(* The main picture in the App (web/dogcam24.js and NativeVideo.java).     *)
(*                                                                         *)
(* The page decides which camera is pulled and by which route: the ball    *)
(* over WiFi; the camera of the dog through the gateway's relay, or, under *)
(* 2.4G and after the relay has failed, directly over the radio.  Its      *)
(* calls are posted to the UI thread and errors come back later, so that   *)
(* one may belong to the stream before.  The player keeps its own idea of  *)
(* what is wanted, to survive the background without the page's help.      *)
(***************************************************************************)
EXTENDS Integers, Sequences

CONSTANTS
  MaxCalls,  \* bound: calls on their way to the UI thread
  MaxErrors  \* bound: errors on their way to the page

ASSUME PicturesAssumption == MaxCalls \in Nat /\ MaxCalls > 2 /\ MaxErrors \in Nat

VARIABLES
  mainId,     \* of the pane that is the main one
  radio24,    \* the document has the class radio-24
  seen,       \* not document.hidden
  frame,      \* applyLayout's animation frame has been requested
  wantedNow, playKeyNow, meshRelayFailed,
  calls,      \* posted to the UI thread
  errors,     \* number of error reports on their way
  active,     \* the activity is resumed
  natWanted, natUrl, \* wanted, url with bindRadio, of NativeVideo
  player,
  retry       \* a retry is scheduled

pageSide == <<wantedNow, playKeyNow, meshRelayFailed>>
nativeSide == <<natWanted, natUrl, player, retry>>
pictureVars == <<mainId, radio24, seen, frame, pageSide, calls, errors, active,
                 nativeSide>>

Streams == {"ball", "relay", "direct"}

PicturesTypeOK ==
  /\ mainId \in {"ptz_vis", "dog_cam", "cloud"}
  /\ {radio24, seen, frame, wantedNow, meshRelayFailed, active, natWanted,
      retry} \subseteq BOOLEAN
  /\ {playKeyNow, natUrl} \subseteq Streams \cup {""}
  /\ calls \in Seq(Streams \cup {"stop"}) /\ Len(calls) <= MaxCalls
  /\ errors \in 0..MaxErrors
  /\ player \in {"none", "up", "broken"}

-------------------------------------------------------------------------------
playKey(id, radio, failed) ==
  CASE id = "ptz_vis" -> "ball"
    [] id = "dog_cam" -> IF radio \/ failed THEN "direct" ELSE "relay"
    [] OTHER -> ""

wantsVideo(id, visible) == visible /\ id \in {"ptz_vis", "dog_cam"}

(***************************************************************************)
(* stop and sync, over the state they find; posted is what was posted      *)
(* before them by the same handler.                                        *)
(***************************************************************************)
stop(posted) ==
  /\ wantedNow' = FALSE /\ playKeyNow' = "" /\ meshRelayFailed' = FALSE
  /\ calls' = calls \o posted \o <<"stop">>

sync(posted, on, key, failed) ==
  IF ~wantsVideo(mainId', seen')
    THEN IF on THEN stop(posted)
         ELSE /\ wantedNow' = on /\ playKeyNow' = key
              /\ meshRelayFailed' = failed
              /\ calls' = calls \o posted
    ELSE LET want == playKey(mainId', radio24', failed)
         IN  /\ wantedNow' = TRUE /\ playKeyNow' = want
             /\ meshRelayFailed' = failed
             /\ calls' = calls \o posted
                           \o IF on /\ key = want THEN <<>> ELSE <<want>>

Resync == sync(<<>>, wantedNow, playKeyNow, meshRelayFailed)

Roomy == Len(calls) + 2 <= MaxCalls

PicturesInit ==
  /\ mainId = "dog_cam" /\ radio24 \in BOOLEAN /\ seen \in BOOLEAN
  /\ frame = FALSE /\ meshRelayFailed = FALSE
  /\ wantedNow = wantsVideo(mainId, seen)
  /\ playKeyNow = IF wantedNow THEN playKey(mainId, radio24, FALSE) ELSE ""
  /\ calls = IF wantedNow THEN <<playKeyNow>> ELSE <<>>
  /\ errors = 0 /\ active = TRUE
  /\ natWanted = FALSE /\ natUrl = "" /\ player = "none" /\ retry = FALSE

-------------------------------------------------------------------------------
(***************************************************************************)
(* Another view is chosen; the pictures follow with the next frame, which  *)
(* a page in the background does not get.                                  *)
(***************************************************************************)
selectView(id) ==
  /\ mainId' = id /\ frame' = TRUE
  /\ UNCHANGED <<radio24, seen, pageSide, calls, errors, active, nativeSide>>

onStageLayout ==
  /\ frame /\ seen /\ Roomy
  /\ frame' = FALSE
  /\ UNCHANGED <<mainId, radio24, seen, errors, active, nativeSide>>
  /\ Resync

(***************************************************************************)
(* adoptRadioPath calls it with every change of path; the timer calls it   *)
(* while nothing is pulled.                                                *)
(***************************************************************************)
onRadioPath(radio) ==
  /\ Roomy /\ seen
  /\ radio24' = radio
  /\ UNCHANGED <<mainId, seen, frame, errors, active, nativeSide>>
  /\ sync(<<>>, wantedNow, playKeyNow, FALSE)

AdoptPath == onRadioPath(~radio24)
Timer == ~wantedNow /\ onRadioPath(radio24)

(***************************************************************************)
(* setUrl, setPtzUrl: another address was saved in the settings.           *)
(***************************************************************************)
setUrl ==
  /\ Roomy /\ seen /\ wantedNow
  /\ UNCHANGED <<mainId, radio24, seen, frame, errors, active, nativeSide>>
  /\ sync(<<"stop">>, FALSE, "", FALSE)

(***************************************************************************)
(* visibilitychange, which the system may leave out.                       *)
(***************************************************************************)
Hide ==
  /\ Roomy /\ seen
  /\ seen' = FALSE
  /\ stop(<<>>)
  /\ UNCHANGED <<mainId, radio24, frame, errors, active, nativeSide>>

Show ==
  /\ Roomy /\ ~seen /\ active
  /\ seen' = TRUE
  /\ UNCHANGED <<mainId, radio24, frame, errors, active, nativeSide>>
  /\ Resync

(***************************************************************************)
(* onState with an error: the relay is given up for the direct stream,     *)
(* whichever stream the error came from.                                   *)
(***************************************************************************)
onState ==
  /\ errors > 0 /\ Roomy
  /\ errors' = errors - 1
  /\ UNCHANGED <<mainId, radio24, seen, frame, active, nativeSide>>
  /\ IF mainId = "dog_cam" /\ ~radio24 /\ ~meshRelayFailed
       THEN sync(<<>>, wantedNow, "", TRUE)
       ELSE UNCHANGED <<pageSide, calls>>

-------------------------------------------------------------------------------
(***************************************************************************)
(* NativeVideo on the UI thread.  start is a no-op for the stream that     *)
(* plays already.                                                          *)
(***************************************************************************)
openStream == player' = "up" /\ UNCHANGED retry

(***************************************************************************)
(* Mutant: whatever plays is taken for the stream that is asked for.       *)
(***************************************************************************)
startOnce(key) ==
  IF natWanted /\ player # "none"
    THEN UNCHANGED nativeSide
    ELSE natUrl' = key /\ natWanted' = TRUE /\ openStream

start(key) ==
  IF natWanted /\ natUrl = key /\ player # "none"
    THEN UNCHANGED nativeSide
    ELSE natUrl' = key /\ natWanted' = TRUE /\ openStream

nativeStop ==
  /\ natWanted' = FALSE /\ player' = "none" /\ retry' = FALSE
  /\ UNCHANGED natUrl

RunPosted ==
  /\ calls # <<>> /\ calls' = Tail(calls)
  /\ IF Head(calls) = "stop" THEN nativeStop ELSE start(Head(calls))
  /\ UNCHANGED <<mainId, radio24, seen, frame, pageSide, errors, active>>

onPlayerError ==
  /\ player = "up" /\ errors < MaxErrors
  /\ player' = "broken" /\ errors' = errors + 1
  /\ retry' = (retry \/ natWanted)
  /\ UNCHANGED <<mainId, radio24, seen, frame, pageSide, calls, active,
                 natWanted, natUrl>>

Retry ==
  /\ retry /\ retry' = FALSE /\ player' = "up"
  /\ UNCHANGED <<mainId, radio24, seen, frame, pageSide, calls, errors, active,
                 natWanted, natUrl>>

(***************************************************************************)
(* Reconnecting to get rid of latency, and after the picture in the        *)
(* picture has changed.                                                    *)
(***************************************************************************)
Reopen ==
  /\ natWanted /\ (natUrl = "ball" \/ player = "up")
  /\ openStream
  /\ UNCHANGED <<mainId, radio24, seen, frame, pageSide, calls, errors, active,
                 natWanted, natUrl>>

pauseForBackground ==
  /\ active /\ active' = FALSE
  /\ player' = "none" /\ retry' = FALSE
  /\ UNCHANGED <<mainId, radio24, seen, frame, pageSide, calls, errors,
                 natWanted, natUrl>>

resumeIfWanted ==
  /\ ~active /\ active' = TRUE
  /\ player' = IF natWanted /\ player = "none" THEN "up" ELSE player
  /\ UNCHANGED <<mainId, radio24, seen, frame, pageSide, calls, errors,
                 natWanted, natUrl, retry>>

-------------------------------------------------------------------------------
FromPage == onStageLayout \/ Timer \/ onState

PicturesNext ==
  \/ \E id \in {"ptz_vis", "dog_cam", "cloud"} : selectView(id)
  \/ AdoptPath \/ setUrl \/ Hide \/ Show \/ FromPage
  \/ RunPosted \/ onPlayerError \/ Retry \/ Reopen
  \/ pauseForBackground \/ resumeIfWanted

(***************************************************************************)
(* The page's frames and timers, the UI thread and its retries run.        *)
(***************************************************************************)
PicturesFairness ==
  /\ WF_pictureVars(onStageLayout) /\ WF_pictureVars(Timer)
  /\ WF_pictureVars(onState)
  /\ WF_pictureVars(RunPosted) /\ WF_pictureVars(Retry)

PicturesSpec ==
  PicturesInit /\ [][PicturesNext]_pictureVars /\ PicturesFairness

-------------------------------------------------------------------------------
(***************************************************************************)
(* The streams that show a view: over MESH the camera of the dog may come  *)
(* either way.                                                             *)
(***************************************************************************)
Routes(id, radio) ==
  CASE id = "ptz_vis" -> {"ball"}
    [] id = "dog_cam" -> IF radio THEN {"direct"} ELSE {"relay", "direct"}
    [] OTHER -> {}

Followed ==
  IF Routes(mainId, radio24) = {}
    THEN ~natWanted /\ player = "none"
    ELSE natWanted /\ natUrl \in Routes(mainId, radio24) /\ player # "none"

(***************************************************************************)
(* While the App is on the screen the player ends up with a stream of the  *)
(* view that is shown, over a route that fits the path, and with none for  *)
(* a view without one: whatever was posted, refused as already playing,    *)
(* failed, retried, hidden or paused in between.                           *)
(***************************************************************************)
PictureFollowsView ==
  <>[][/\ UNCHANGED <<mainId, radio24>> /\ ~setUrl]_pictureVars
    /\ <>[](seen /\ active) => <>[]Followed
===============================================================================
