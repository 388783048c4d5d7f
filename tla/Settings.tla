-------------------------------- MODULE Settings --------------------------------
(***************************************************************************)
(* Saving the configuration of the gateway from the settings panel         *)
(* (web/settings.js; robot_service.cpp answers).                           *)
(*                                                                         *)
(* The second press of the button confirms.  A page in control yields      *)
(* first and writes when it hears that it has lost control or after 280    *)
(* ms, whichever comes first; until the save has ended it claims nothing.  *)
(* The gateway restarts itself after writing.  The panel may be closed at  *)
(* any time, and what arrives then is partly ignored.                      *)
(***************************************************************************)
EXTENDS Integers, Sequences

CONSTANTS
  MaxWire,  \* bound: messages on the socket, both directions together
  MaxFlush  \* bound: flush timers that are running

ASSUME SettingsAssumption == {MaxWire, MaxFlush} \subseteq Nat \ {0}

VARIABLES
  panel,      \* state.open
  current,    \* the gateway's settings have been read
  changed,    \* changedFields() is not empty
  saveArmed, saving, pendingDiff, waitingRestart,
  saveOff,    \* the button is disabled
  flushTimers,
  hasCtl,     \* app.hasControl
  wire,       \* the socket is open
  toGw, toPage,
  gwHolder,
  restartDue, \* the gateway is about to restart
  forsaken    \* history: the save in progress cannot be seen to its end

form == <<panel, current, changed, saveArmed, saveOff>>
saves == <<saving, pendingDiff, waitingRestart, flushTimers, forsaken>>
gwSide == <<gwHolder, restartDue>>
settingsVars == <<form, saves, hasCtl, wire, toGw, toPage, gwSide>>

SettingsTypeOK ==
  /\ {panel, current, changed, saveArmed, saving, pendingDiff, waitingRestart,
      saveOff, hasCtl, wire, restartDue, forsaken} \subseteq BOOLEAN
  /\ flushTimers \in 0..MaxFlush
  /\ toGw \in Seq({"claim", "yield", "config_get", "config_set"})
  /\ toPage \in Seq({"have", "lost", "config", "saved", "restarting",
                     "refused", "bad_token"})
  /\ Len(toGw) + Len(toPage) <= MaxWire + 1
  /\ gwHolder \in {"none", "me", "other"}

SettingsInit ==
  /\ panel = FALSE /\ current = FALSE /\ changed = FALSE
  /\ saveArmed = FALSE /\ saveOff = FALSE
  /\ saving = FALSE /\ pendingDiff = FALSE /\ waitingRestart = FALSE
  /\ flushTimers = 0 /\ forsaken = FALSE
  /\ hasCtl = FALSE /\ wire = FALSE /\ toGw = <<>> /\ toPage = <<>>
  /\ gwHolder \in {"none", "other"} /\ restartDue = FALSE

-------------------------------------------------------------------------------
Space == Len(toGw) + Len(toPage) < MaxWire

sendFn(m) == toGw' = IF wire THEN Append(toGw, m) ELSE toGw

openPanel ==
  /\ ~panel /\ panel' = TRUE
  /\ UNCHANGED <<current, changed, saveArmed, saveOff, saves, hasCtl, wire,
                 toGw, toPage, gwSide>>

(***************************************************************************)
(* close gives up what has not been sent, but not the wait for its end.    *)
(***************************************************************************)
closePanel ==
  /\ panel /\ panel' = FALSE
  /\ saveArmed' = FALSE /\ saveOff' = FALSE /\ pendingDiff' = FALSE
  /\ forsaken' = (forsaken \/ saving)
  /\ UNCHANGED <<current, changed, saving, waitingRestart, flushTimers, hasCtl,
                 wire, toGw, toPage, gwSide>>

unlock ==
  /\ panel /\ ~current /\ Space
  /\ sendFn("config_get")
  /\ UNCHANGED <<form, saves, hasCtl, wire, toPage, gwSide>>

EditForm ==
  /\ panel /\ current /\ changed' = ~changed
  /\ UNCHANGED <<panel, current, saveArmed, saveOff, saves, hasCtl, wire, toGw,
                 toPage, gwSide>>

(***************************************************************************)
(* save: without a change, with the first press, with the second.          *)
(***************************************************************************)
flushPendingSave(pending) ==
  /\ pendingDiff' = FALSE
  /\ IF pending THEN sendFn("config_set") ELSE UNCHANGED toGw

SaveNothing ==
  /\ ~changed
  /\ saveArmed' = FALSE /\ saveOff' = FALSE
  /\ UNCHANGED <<saves, toGw>>

ArmSave ==
  /\ changed /\ ~saveArmed
  /\ saveArmed' = TRUE
  /\ UNCHANGED <<saveOff, saves, toGw>>

ConfirmSave ==
  /\ changed /\ saveArmed /\ Space
  /\ saveArmed' = FALSE /\ saveOff' = TRUE /\ saving' = TRUE
  /\ forsaken' = (~wire \/ waitingRestart)
  /\ IF hasCtl
       THEN /\ flushTimers < MaxFlush /\ flushTimers' = flushTimers + 1
            /\ pendingDiff' = TRUE
            /\ sendFn("yield")
       ELSE flushPendingSave(TRUE) /\ UNCHANGED flushTimers
  /\ UNCHANGED waitingRestart

save ==
  /\ panel /\ current /\ ~saveOff
  /\ SaveNothing \/ ArmSave \/ ConfirmSave
  /\ UNCHANGED <<panel, current, changed, hasCtl, wire, toPage, gwSide>>

FlushTimer ==
  /\ flushTimers > 0 /\ flushTimers' = flushTimers - 1
  /\ flushPendingSave(pendingDiff)
  /\ UNCHANGED <<form, saving, waitingRestart, forsaken, hasCtl, wire, toPage,
                 gwSide>>

(***************************************************************************)
(* requestControl asks blockClaim first.                                   *)
(***************************************************************************)
blockClaim == saving \/ pendingDiff

requestCtl ==
  /\ ~blockClaim /\ ~hasCtl /\ wire /\ Space
  /\ sendFn("claim")
  /\ UNCHANGED <<form, saves, hasCtl, wire, toPage, gwSide>>

-------------------------------------------------------------------------------
(***************************************************************************)
(* What the page hears.  A save has ended when its answer or the loss of   *)
(* the socket says so.                                                     *)
(***************************************************************************)
Hear(kinds) ==
  /\ toPage # <<>> /\ Head(toPage) \in kinds /\ toPage' = Tail(toPage)
  /\ UNCHANGED <<panel, wire, gwSide, flushTimers>>

Ended == saving' = FALSE /\ pendingDiff' = FALSE /\ saveOff' = FALSE
         /\ forsaken' = FALSE

onControl ==
  /\ Hear({"have", "lost"})
  /\ hasCtl' = (Head(toPage) = "have")
  /\ IF Head(toPage) = "lost"
       THEN flushPendingSave(pendingDiff)
       ELSE UNCHANGED <<pendingDiff, toGw>>
  /\ UNCHANGED <<current, changed, saveArmed, saveOff, saving, waitingRestart,
                 forsaken>>

onConfig ==
  /\ Hear({"config"})
  /\ current' = TRUE /\ changed' = FALSE /\ waitingRestart' = FALSE
  /\ UNCHANGED <<saveArmed, saveOff, saving, pendingDiff, forsaken, hasCtl,
                 toGw>>

onConfigSaved ==
  /\ Hear({"saved", "restarting"})
  /\ Ended
  /\ current' = TRUE /\ changed' = FALSE
  /\ waitingRestart' = (Head(toPage) = "restarting")
  /\ UNCHANGED <<saveArmed, hasCtl, toGw>>

onError ==
  /\ Hear({"refused", "bad_token"})
  /\ IF panel
       THEN /\ Ended /\ saveArmed' = FALSE
            /\ current' = (current /\ Head(toPage) # "bad_token")
       ELSE UNCHANGED <<current, saveArmed, saveOff, saving, pendingDiff,
                        forsaken>>
  /\ UNCHANGED <<changed, waitingRestart, hasCtl, toGw>>

(***************************************************************************)
(* Mutant: a lost socket does not end the save.                            *)
(***************************************************************************)
onLinkLostWaiting == UNCHANGED <<saving, pendingDiff, saveOff, forsaken>>

(***************************************************************************)
(* onWsClose, after an attempt to connect that failed too, ends in         *)
(* onLink(false).                                                          *)
(***************************************************************************)
onLinkLost ==
  IF panel /\ ~waitingRestart /\ saving
    THEN Ended
    ELSE UNCHANGED <<saving, pendingDiff, saveOff, forsaken>>

WireCloses ==
  /\ wire' = FALSE /\ toGw' = <<>> /\ toPage' = <<>> /\ hasCtl' = FALSE
  /\ onLinkLost
  /\ UNCHANGED <<panel, current, changed, saveArmed, waitingRestart,
                 flushTimers>>

LoseWire ==
  /\ wire /\ WireCloses
  /\ gwHolder' = IF gwHolder = "me" THEN "none" ELSE gwHolder
  /\ UNCHANGED restartDue

ConnectFails == ~wire /\ WireCloses /\ UNCHANGED gwSide

(***************************************************************************)
(* The socket opens, and onHello reads the settings again if the panel is  *)
(* open and a password has been given.                                     *)
(***************************************************************************)
OpenWire ==
  /\ ~wire /\ wire' = TRUE
  /\ \/ toGw' = <<>>
     \/ panel /\ toGw' = <<"config_get">>
  /\ UNCHANGED <<form, saves, hasCtl, toPage, gwSide>>

-------------------------------------------------------------------------------
(***************************************************************************)
(* The gateway.  A wrong password, somebody else in control, a bad value   *)
(* or a disk that is full refuse; otherwise it writes, answers and, under  *)
(* systemd, restarts 400 ms later.                                         *)
(***************************************************************************)
Replies(m) == toPage' = Append(toPage, m)

Grant ==
  /\ gwHolder' = IF gwHolder = "none" THEN "me" ELSE gwHolder
  /\ Replies(IF gwHolder' = "me" THEN "have" ELSE "lost")
  /\ UNCHANGED restartDue

ReleaseControl ==
  /\ gwHolder' = IF gwHolder = "me" THEN "none" ELSE gwHolder
  /\ Replies("lost")
  /\ UNCHANGED restartDue

HandleConfigGet ==
  /\ Replies("config") \/ Replies("bad_token")
  /\ UNCHANGED gwSide

HandleConfigSet ==
  /\ \/ (Replies("refused") \/ Replies("bad_token")) /\ UNCHANGED restartDue
     \/ gwHolder # "other" /\ Replies("saved") /\ UNCHANGED restartDue
     \/ gwHolder # "other" /\ Replies("restarting") /\ restartDue' = TRUE
  /\ UNCHANGED gwHolder

GwTakes ==
  /\ toGw # <<>> /\ toGw' = Tail(toGw)
  /\ CASE Head(toGw) = "claim" -> Grant
       [] Head(toGw) = "yield" -> ReleaseControl
       [] Head(toGw) = "config_get" -> HandleConfigGet
       [] Head(toGw) = "config_set" -> HandleConfigSet
  /\ UNCHANGED <<form, saves, hasCtl, wire>>

RestartGateway ==
  /\ restartDue /\ restartDue' = FALSE
  /\ gwHolder' = "none"
  /\ WireCloses

OtherHolds ==
  /\ gwHolder # "me" /\ Space
  /\ gwHolder' = IF gwHolder = "none" THEN "other" ELSE "none"
  /\ IF wire THEN Replies("lost") ELSE UNCHANGED toPage
  /\ UNCHANGED <<form, saves, hasCtl, wire, toGw, restartDue>>

-------------------------------------------------------------------------------
Heard == onControl \/ onConfig \/ onConfigSaved \/ onError

SettingsNext ==
  \/ openPanel \/ closePanel \/ unlock \/ EditForm \/ save \/ FlushTimer
  \/ requestCtl \/ Heard
  \/ LoseWire \/ ConnectFails \/ OpenWire
  \/ GwTakes \/ RestartGateway \/ OtherHolds

(***************************************************************************)
(* Timers fire, messages are taken, the socket is opened again and the     *)
(* gateway restarts when it has said so.                                   *)
(***************************************************************************)
SettingsFairness ==
  /\ WF_settingsVars(FlushTimer) /\ WF_settingsVars(Heard)
  /\ WF_settingsVars(OpenWire)
  /\ WF_settingsVars(GwTakes) /\ WF_settingsVars(RestartGateway)

SettingsSpec ==
  SettingsInit /\ [][SettingsNext]_settingsVars /\ SettingsFairness

-------------------------------------------------------------------------------
(***************************************************************************)
(* A save that was confirmed comes to an end that the open panel shows,    *)
(* and claims are free again, by whatever crossing of timers, control      *)
(* messages, refusals, restarts and lost sockets; unless the panel was     *)
(* closed meanwhile, or the save was confirmed while the socket was down   *)
(* or the gateway about to restart.                                        *)
(***************************************************************************)
SaveEnds == []<>(~saving \/ ~panel \/ forsaken)
===============================================================================
