--------------------------------- MODULE MCPage ---------------------------------
(***************************************************************************)
(* The parts of a console page that do not wait for each other: the        *)
(* subscription to the point cloud, the map, the gait menu, the sticks,    *)
(* the ball, the App's main picture, a browser's tile, the settings, the   *)
(* cannon, the main view.  part says which of them a behaviour is about;   *)
(* the others stay as they begin.                                          *)
(***************************************************************************)
EXTENDS CloudView, CloudMap, GaitMenu, Sticks, Ball, Pictures, Tiles, Settings,
        Cannon, MainView

CONSTANTS v1, v2, walk, slope

VARIABLE part

pageVars == <<part, vars, mapVars, gaitMenuVars, stickVars, ballVars,
              pictureVars, tilesVars, settingsVars, cannonVars, mainViewVars>>

MCVoxels == {v1, v2}
MCSources == {"leg", "scan", "lio"}
MCGaits == {walk, slope}
MCCycle == <<walk, slope>>

Parts == {"subscription", "map", "menu", "sticks", "ball", "picture", "tile",
          "settings", "cannon", "view"}

(***************************************************************************)
(* A part that stays as it begins begins in one state.                     *)
(***************************************************************************)
PageInit ==
  /\ part \in Parts
  /\ Init /\ MapInit /\ GaitMenuInit /\ SticksInit /\ BallInit /\ PicturesInit
  /\ TilesInit /\ SettingsInit /\ CannonInit /\ MainViewInit
  /\ part # "subscription" => enabled /\ ~others
  /\ part # "menu" => dogGait = Walk
  /\ part # "sticks" => kind = "mesh"
  /\ part # "ball" => workMode = "inspect"
  /\ part # "picture" => ~radio24 /\ ~seen
  /\ part # "settings" => gwHolder = "none"
  /\ part # "cannon" => ~cannonMode
  /\ part # "view" => \A c \in Consoles : ~measured[c]

Still(p, v) == IF part = p THEN TRUE ELSE UNCHANGED v

PageNext ==
  /\ UNCHANGED part
  /\ \/ part = "subscription" /\ Next
     \/ part = "map" /\ MapNext
     \/ part = "menu" /\ GaitMenuNext
     \/ part = "sticks" /\ SticksNext
     \/ part = "ball" /\ BallNext
     \/ part = "picture" /\ PicturesNext
     \/ part = "tile" /\ TilesNext
     \/ part = "settings" /\ SettingsNext
     \/ part = "cannon" /\ CannonNext
     \/ part = "view" /\ MainViewNext
  /\ Still("subscription", vars) /\ Still("map", mapVars)
  /\ Still("menu", gaitMenuVars) /\ Still("sticks", stickVars)
  /\ Still("ball", ballVars) /\ Still("picture", pictureVars)
  /\ Still("tile", tilesVars) /\ Still("settings", settingsVars)
  /\ Still("cannon", cannonVars) /\ Still("view", mainViewVars)

(***************************************************************************)
(* The fairness of each module, for the part a behaviour is about.         *)
(***************************************************************************)
In(p) == part = p

PageFairness ==
  /\ WF_vars(In("subscription") /\ initCloud)
  /\ WF_vars(In("subscription") /\ onWsOpen)
  /\ WF_vars(In("subscription") /\ DispatchMessage)
  /\ WF_vars(In("subscription") /\ StateLoop)
  /\ WF_vars(In("subscription") /\ EmitSend)
  /\ WF_vars(In("subscription") /\ FromGateway)
  /\ WF_gaitMenuVars(In("menu") /\ PendingTimer)
  /\ WF_gaitMenuVars(In("menu") /\ (onGaitResult \/ adoptGaitTelem))
  /\ WF_gaitMenuVars(In("menu") /\ TakeOrder)
  /\ WF_gaitMenuVars(In("menu")
                       /\ (KeepForMarch \/ SendGait \/ FinishSwitch))
  /\ WF_gaitMenuVars(In("menu") /\ DogTakes)
  /\ WF_gaitMenuVars(In("menu") /\ ReportGait)
  /\ WF_gaitMenuVars(In("menu") /\ OpenSocket)
  /\ SF_stickVars(In("sticks") /\ onChannels)
  /\ WF_stickVars(In("sticks") /\ pollG20)
  /\ WF_stickVars(In("sticks") /\ pollPad)
  /\ WF_stickVars(In("sticks") /\ sendVel)
  /\ WF_stickVars(In("sticks") /\ (setScreenAxes \/ ScreenAxesExpire))
  /\ WF_stickVars(In("sticks") /\ onTick)
  /\ WF_ballVars(In("ball") /\ sendAuxPayload)
  /\ WF_ballVars(In("ball") /\ drainFire)
  /\ WF_ballVars(In("ball") /\ (fetchReaches \/ fetchFails))
  /\ WF_pictureVars(In("picture") /\ onStageLayout)
  /\ WF_pictureVars(In("picture") /\ Timer)
  /\ WF_pictureVars(In("picture") /\ onState)
  /\ WF_pictureVars(In("picture") /\ RunPosted)
  /\ WF_pictureVars(In("picture") /\ Retry)
  /\ WF_settingsVars(In("settings") /\ FlushTimer)
  /\ WF_settingsVars(In("settings") /\ Heard)
  /\ WF_settingsVars(In("settings") /\ OpenWire)
  /\ WF_settingsVars(In("settings") /\ GwTakes)
  /\ WF_settingsVars(In("settings") /\ RestartGateway)
  /\ WF_cannonVars(In("cannon") /\ onCannonFire)
  /\ WF_cannonVars(In("cannon") /\ ~pageHidden /\ feedCannon)
  /\ WF_cannonVars(In("cannon") /\ ~cannonMode /\ Stale)
  /\ WF_cannonVars(In("cannon") /\ (Snapshot \/ HangUp \/ connectCannon
                                     \/ SendSnapshot))
  /\ WF_cannonVars(In("cannon") /\ CannonReads)
  /\ \A c \in Consoles :
       /\ WF_mainViewVars(In("view") /\ reportCaps(c))
       /\ WF_mainViewVars(In("view") /\ onLayout(c))
       /\ WF_mainViewVars(In("view") /\ onBlankPlan(c))
       /\ WF_mainViewVars(In("view") /\ TakeMail(c))

PageSpec == PageInit /\ [][PageNext]_pageVars /\ PageFairness

PageTypeOK ==
  /\ part \in Parts
  /\ TypeOK /\ MapTypeOK /\ GaitMenuTypeOK /\ SticksTypeOK /\ BallTypeOK
  /\ PicturesTypeOK /\ TilesTypeOK /\ SettingsTypeOK /\ CannonTypeOK
  /\ MainViewTypeOK
===============================================================================
