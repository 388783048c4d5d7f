-------------------------------- MODULE Motion --------------------------------
(***************************************************************************)
(* MotionClient (rk3588/src/motion_client.cpp): the gateway's memory of    *)
(* the march, the timed toggles TxLoop sends for it, and the velocity      *)
(* axes.                                                                   *)
(*                                                                         *)
(* Standing up and sitting down is one toggle code, and so is starting and *)
(* stopping to march; the motion host reports its state late, sometimes    *)
(* wrong, over three channels.  So the gateway remembers what it has sent. *)
(* The memory is shared by the session threads (one that holds control,    *)
(* another that may stop the robot or hand control over), the 50 Hz TxLoop *)
(* and the threads that receive reports.  A step of the model is one       *)
(* critical section of state_mutex_ or axis_mutex_.                        *)
(***************************************************************************)
EXTENDS Integers

CONSTANTS
  Operator,     \* session thread of the client in control
  Other,        \* another session thread: estop, release, claim
  Telemetry     \* what state_ may say of the three channels when it is read

(***************************************************************************)
(* BasicState; Fallen is a code of the body monitor only.                  *)
(***************************************************************************)
Sitting == 0
SitToStand == 1
InitialStanding == 2
TorqueStanding == 3
Marching == 4
StandToSit == 5
EmergencyOrFall == 6
Rl == 16
BasicStates == 0 .. 6 \cup {Rl}
Fallen == 7
BodyStates == BasicStates \cup {Fallen}

ASSUME ThreadsAssumption == Operator # Other

(***************************************************************************)
(* Reports may replace any part of state_ between two critical sections,   *)
(* so the model stores none of it: a step that reads telemetry reads some  *)
(* element of Telemetry.  udp is telemetry_alive, ros the freshness of     *)
(* rosBasic, body is body_monitor_alive; lock is an emergency_source of    *)
(* its own.  Values of a channel that went silent stay readable.           *)
(***************************************************************************)
ASSUME TelemetryAssumption ==
  Telemetry \subseteq [udp : BOOLEAN, basic : BasicStates, lock : BOOLEAN,
                       ros : BOOLEAN, rosBasic : BasicStates \cup {-1},
                       body : BOOLEAN, bodyState : BodyStates \cup {-1}]

VARIABLES
  march,        \* stepping_, step_sent_, step_at_ and motion_phase_
  sitAt,        \* sit_at_
  stood,        \* last_stand_sit_
  cmdAge,       \* the time since motion_command_at_: under 800 ms, under 2.5 s
  axes,         \* axis values are not zero and axis_deadline_ has not passed
  commanding,   \* commanding_
  pc,           \* where the session threads are
  local,        \* what a session thread remembers between critical sections
  tx,           \* where TxLoop is, and whether it will send axes
  late          \* history: velocity frames sent with no march remembered
                \* since TxLoop last found the march under way

memory == <<march, sitAt, stood, cmdAge>>

vars == <<march, sitAt, stood, cmdAge, axes, commanding, pc, local, tx, late>>

Callers == {Operator, Other}

Phases == {"unavailable", "stopped", "torque", "starting", "walking",
           "stopping"}
Timers == {"off", "running", "due"}

ZeroSteps == {"zero", "standZero", "sitZero", "toggleZero", "unloadZero",
              "estopZero", "yieldZero"}
Steps == ZeroSteps \cup
  {"idle", "view", "arm", "torqueView", "torque", "stop", "standCheck",
   "standMark", "sitCheck", "sitLeave", "sitMark", "toggleCheck", "toggleMark",
   "unloadMark", "estopMark", "velCheck", "velWrite", "adopt",
   "silence", "clear"}

TypeOK ==
  /\ march \in [stepping : BOOLEAN, sent : BOOLEAN, at : Timers, phase : Phases]
  /\ sitAt \in Timers
  /\ stood \in {"unknown", "stood", "sat"}
  /\ cmdAge \in {"fresh", "recent", "old"}
  /\ axes \in BOOLEAN
  /\ commanding \in BOOLEAN
  /\ pc \in [Callers -> Steps]
  /\ local \in [Callers -> {"none", "leave", "upright"}]
  /\ tx \in {"gate", "due", "dueAxes", "axes", "frame"}
  /\ late \in 0 .. 2

Cleared(phase) ==
  [stepping |-> FALSE, sent |-> FALSE, at |-> "off", phase |-> phase]

Init ==
  /\ march = Cleared("unavailable")
  /\ sitAt = "off"
  /\ stood = "unknown"
  /\ cmdAge = "old"
  /\ axes = FALSE
  /\ commanding = FALSE
  /\ pc = [c \in Callers |-> "idle"]
  /\ local = [c \in Callers |-> "none"]
  /\ tx = "gate"
  /\ late = 0

-------------------------------------------------------------------------------
(***************************************************************************)
(* View: posture and phase merged from the three channels and the memory.  *)
(***************************************************************************)
UprightStates == {InitialStanding, TorqueStanding, Marching, Rl}
Transient(s) == s \in {SitToStand, StandToSit}

JointsLocked(t) == t.lock \/ t.basic = EmergencyOrFall

Official(t) == t.body /\ t.bodyState >= 0

UseRos(t) ==
  t.ros /\ (t.udp => t.basic = Sitting /\ t.rosBasic # Sitting)

UseOfficial(t) ==
  /\ ~UseRos(t)
  /\ Official(t)
  /\ \/ ~t.udp
     \/ t.bodyState = Rl
     \/ t.basic = Sitting /\ t.bodyState \in 1 .. 5

Effective(t) ==
  IF UseRos(t) THEN t.rosBasic
  ELSE IF UseOfficial(t) THEN t.bodyState
  ELSE t.basic

Locked(t) ==
  \/ t.udp /\ JointsLocked(t)
  \/ t.ros /\ t.rosBasic = EmergencyOrFall
  \/ Official(t) /\ t.bodyState = EmergencyOrFall

Upright(t) ==
  \/ Effective(t) \in UprightStates
  \/ ~UseRos(t) /\ ~UseOfficial(t) /\ stood = "stood" /\ t.basic = Sitting

Posture(t) ==
  IF Locked(t) THEN "locked"
  ELSE IF Effective(t) = SitToStand THEN "rising"
  ELSE IF Effective(t) = StandToSit THEN "falling"
  ELSE IF Upright(t) THEN "standing"
  ELSE "prone"

ReportedPhase(t) ==
  IF Effective(t) = Marching THEN "walking"
  ELSE IF Effective(t) = TorqueStanding THEN "torque"
  ELSE "stopped"

ViewPhase(t) ==
  IF Posture(t) # "standing" THEN "unavailable"
  ELSE IF march.phase = "unavailable" THEN ReportedPhase(t)
  ELSE IF march.phase = "stopping" /\ Effective(t) = TorqueStanding
       THEN "stopped"
  ELSE march.phase

-------------------------------------------------------------------------------
(***************************************************************************)
(* The commands of session threads.  Sending a toggle changes nothing here *)
(* and is part of the step before it; axis and stand/sit hold-offs, which  *)
(* run out after 300 ms, and the 8 s of just_stood are choices.            *)
(***************************************************************************)
UnderWay == march.stepping /\ march.sent

Goto(c, from, to) ==
  /\ pc[c] = from
  /\ pc' = [pc EXCEPT ![c] = to]

(***************************************************************************)
(* RobotService's own guard: who holds control has commanding_ on, and     *)
(* View must allow the command.  View is read again later.                 *)
(***************************************************************************)
FirstStep == [start |-> "view", stop |-> "stop", torque |-> "torqueView",
              stand |-> "standCheck", sit |-> "sitCheck",
              toggle |-> "toggleCheck", unload |-> "unloadZero",
              release |-> "zero", vel |-> "velCheck"]

Allowed(cmd, t) ==
  CASE cmd \in {"torque", "sit"} -> Posture(t) = "standing"
    [] cmd = "stand"  -> Posture(t) = "prone"
    [] cmd = "unload" -> Posture(t) = "locked"
    [] cmd = "start"  -> ViewPhase(t) \in {"stopped", "torque"}
    [] OTHER          -> TRUE

Command(cmd, t) ==
  /\ commanding
  /\ Allowed(cmd, t)
  /\ Goto(Operator, "idle", FirstStep[cmd])
  /\ UNCHANGED <<memory, axes, commanding, local, tx, late>>

EmergencyStop ==
  /\ Goto(Other, "idle", "estopZero")
  /\ UNCHANGED <<memory, axes, commanding, local, tx, late>>

(***************************************************************************)
(* ReleaseAxes, and what the command that calls it does next.              *)
(***************************************************************************)
AfterZero == [zero |-> "idle", standZero |-> "standMark", sitZero |-> "sitMark",
              toggleZero |-> "toggleMark", unloadZero |-> "unloadMark",
              estopZero |-> "estopMark", yieldZero |-> "silence"]

ReleaseAxes(c) ==
  /\ pc[c] \in ZeroSteps
  /\ Goto(c, pc[c], AfterZero[pc[c]])
  /\ axes' = FALSE
  /\ UNCHANGED <<memory, commanding, local, tx, late>>

(***************************************************************************)
(* StartStepping: its View and the step that arms step_at_ are apart.      *)
(***************************************************************************)
ViewBeforeStart(c, t) ==
  /\ Goto(c, "view",
          IF ViewPhase(t) \in {"stopped", "torque"} THEN "arm" ELSE "idle")
  /\ UNCHANGED <<memory, axes, commanding, local, tx, late>>

StartStepping(c) ==
  /\ Goto(c, "arm", "idle")
  /\ IF march.stepping /\ (march.sent \/ march.at # "off")
     THEN UNCHANGED <<march, cmdAge>>
     ELSE /\ march' = [stepping |-> TRUE, sent |-> FALSE, at |-> "running",
                       phase |-> "starting"]
          /\ cmdAge' = "fresh"
  /\ UNCHANGED <<sitAt, stood, axes, commanding, local, tx, late>>

(***************************************************************************)
(* StopStepping: cancels a start that TxLoop has not sent, else toggles.   *)
(***************************************************************************)
StopToggles(t) ==
  /\ \/ march.sent
     \/ t.basic = Marching
     \/ t.body /\ t.bodyState = Marching
  /\ march.at # "off" => march.sent

StopStepping(c, t) ==
  /\ Goto(c, "stop", "zero")
  /\ march' = Cleared(IF StopToggles(t) THEN "stopping" ELSE "stopped")
  /\ cmdAge' = "fresh"
  /\ UNCHANGED <<sitAt, stood, axes, commanding, local, tx, late>>

ViewBeforeTorque(c, t) ==
  /\ Goto(c, "torqueView", IF Posture(t) = "standing" THEN "torque" ELSE "idle")
  /\ UNCHANGED <<memory, axes, commanding, local, tx, late>>

EnterTorqueStand(c) ==
  /\ Goto(c, "torque", "zero")
  /\ march' = Cleared(IF UnderWay THEN "stopped" ELSE "torque")
  /\ cmdAge' = "fresh"
  /\ sitAt' = "off"
  /\ UNCHANGED <<stood, axes, commanding, local, tx, late>>

(***************************************************************************)
(* StandUp, SitDown: on locked joints both unload; a repetition of the     *)
(* same one within 300 ms is ignored.                                      *)
(***************************************************************************)
CheckBeforeStand(c, t) ==
  /\ \/ t.udp /\ JointsLocked(t) /\ Goto(c, "standCheck", "unloadZero")
     \/ ~(t.udp /\ JointsLocked(t)) /\ Goto(c, "standCheck", "standZero")
     \/ ~(t.udp /\ JointsLocked(t)) /\ stood = "stood"
        /\ Goto(c, "standCheck", "idle")
  /\ UNCHANGED <<memory, axes, commanding, local, tx, late>>

StandUp(c) ==
  /\ Goto(c, "standMark", "idle")
  /\ march' = Cleared("stopped")
  /\ sitAt' = "off"
  /\ stood' = "stood"
  /\ UNCHANGED <<cmdAge, axes, commanding, local, tx, late>>

CheckBeforeSit(c, t) ==
  /\ \/ t.udp /\ JointsLocked(t) /\ Goto(c, "sitCheck", "unloadZero")
     \/ ~(t.udp /\ JointsLocked(t)) /\ Goto(c, "sitCheck", "sitLeave")
     \/ ~(t.udp /\ JointsLocked(t)) /\ stood = "sat"
        /\ Goto(c, "sitCheck", "idle")
  /\ UNCHANGED <<memory, axes, commanding, local, tx, late>>

(***************************************************************************)
(* leave_step: the toggle that ends the march is sent in this step.        *)
(***************************************************************************)
LeaveStep(c) ==
  /\ Goto(c, "sitLeave", "sitZero")
  /\ local' = [local EXCEPT ![c] = IF UnderWay THEN "leave" ELSE "none"]
  /\ UNCHANGED <<memory, axes, commanding, tx, late>>

SitDown(c) ==
  /\ Goto(c, "sitMark", "idle")
  /\ march' = Cleared("unavailable")
  /\ sitAt' = IF local[c] = "leave" THEN "running" ELSE "off"
  /\ stood' = "sat"
  /\ local' = [local EXCEPT ![c] = "none"]
  /\ UNCHANGED <<cmdAge, axes, commanding, tx, late>>

(***************************************************************************)
(* StandOrSit, the old tablets' one button: stands up or goes on as        *)
(* SitDown, by the basic_state it read first and by what it sent last.     *)
(***************************************************************************)
CheckBeforeToggle(c, t) ==
  /\ Goto(c, "toggleCheck",
          IF t.udp /\ Transient(t.basic) THEN "idle"
          ELSE IF t.udp /\ JointsLocked(t) THEN "unloadZero"
          ELSE "toggleZero")
  /\ local' = [local EXCEPT ![c] =
       IF t.udp /\ ~Transient(t.basic) /\ ~JointsLocked(t)
         /\ t.basic \in UprightStates
       THEN "upright" ELSE "none"]
  /\ UNCHANGED <<memory, axes, commanding, tx, late>>

StandOrSit(c) ==
  /\ \/ /\ local[c] = "upright" \/ stood = "stood"
        /\ Goto(c, "toggleMark", "sitCheck")
        /\ stood' = "sat"
        /\ UNCHANGED <<march, sitAt>>
     \/ /\ local[c] # "upright"
        /\ Goto(c, "toggleMark", "idle")
        /\ stood' = "stood"
        /\ march' = Cleared(march.phase)
        /\ sitAt' = "off"
  /\ local' = [local EXCEPT ![c] = "none"]
  /\ UNCHANGED <<cmdAge, axes, commanding, tx, late>>

(***************************************************************************)
(* UnloadForce and SoftEmergencyStop forget every pending toggle.          *)
(***************************************************************************)
ForgetAll ==
  /\ march' = Cleared("unavailable")
  /\ sitAt' = "off"
  /\ stood' = "sat"

UnloadForce(c) ==
  /\ Goto(c, "unloadMark", "idle")
  /\ ForgetAll
  /\ UNCHANGED <<cmdAge, axes, commanding, local, tx, late>>

SoftEmergencyStop(c) ==
  /\ Goto(c, "estopMark", "idle")
  /\ ForgetAll
  /\ UNCHANGED <<cmdAge, axes, commanding, local, tx, late>>

(***************************************************************************)
(* SetVelocity: the march is looked up first, the axes are written later;  *)
(* the values written may be zero.                                         *)
(***************************************************************************)
CheckMarch(c) ==
  /\ Goto(c, "velCheck", IF UnderWay THEN "velWrite" ELSE "idle")
  /\ UNCHANGED <<memory, axes, commanding, local, tx, late>>

SetVelocity(c) ==
  /\ Goto(c, "velWrite", "idle")
  /\ axes' \in BOOLEAN
  /\ UNCHANGED <<memory, commanding, local, tx, late>>

-------------------------------------------------------------------------------
(***************************************************************************)
(* Handing over: a claim switches commanding_ on and may tell the posture; *)
(* a release zeroes the axes, switches commanding_ off, then forgets.      *)
(***************************************************************************)
Claim(c, t) ==
  /\ \/ Goto(c, "idle", "idle")
     \/ ~t.ros /\ ~t.body /\ Goto(c, "idle", "adopt")
  /\ commanding' = TRUE
  /\ UNCHANGED <<memory, axes, local, tx, late>>

(***************************************************************************)
(* Mutant: the posture told takes the place of the phase.                  *)
(***************************************************************************)
AdoptPostureAsTold(c) ==
  /\ Goto(c, "adopt", "idle")
  /\ \E standing \in BOOLEAN :
       /\ stood' = IF standing THEN "stood" ELSE "sat"
       /\ march' = Cleared(IF standing THEN "standing" ELSE "prone")
  /\ sitAt' = "off"
  /\ UNCHANGED <<cmdAge, axes, commanding, local, tx, late>>

AdoptPosture(c) ==
  /\ Goto(c, "adopt", "idle")
  /\ \E standing \in BOOLEAN :
       /\ stood' = IF standing THEN "stood" ELSE "sat"
       /\ march' = Cleared(IF standing THEN "stopped" ELSE "unavailable")
  /\ sitAt' = "off"
  /\ UNCHANGED <<cmdAge, axes, commanding, local, tx, late>>

Release(c) ==
  /\ commanding
  /\ Goto(c, "idle", "yieldZero")
  /\ UNCHANGED <<memory, axes, commanding, local, tx, late>>

StopCommanding(c) ==
  /\ Goto(c, "silence", IF commanding THEN "clear" ELSE "idle")
  /\ commanding' = FALSE
  /\ UNCHANGED <<memory, axes, local, tx, late>>

(***************************************************************************)
(* Mutant: SetCommanding(false) forgets the march but not step_at_.        *)
(***************************************************************************)
ForgetMarchKeepingTimer(c) ==
  /\ Goto(c, "clear", "idle")
  /\ march' = [Cleared("unavailable") EXCEPT !.at = march.at]
  /\ UNCHANGED <<sitAt, stood, cmdAge, axes, commanding, local, tx, late>>

ForgetMarch(c) ==
  /\ Goto(c, "clear", "idle")
  /\ march' = Cleared("unavailable")
  /\ UNCHANGED <<sitAt, stood, cmdAge, axes, commanding, local, tx, late>>

-------------------------------------------------------------------------------
(***************************************************************************)
(* TxLoop, 50 times a second while commanding_: decide whether this tick   *)
(* sends axes, send the toggles that are due, read the axes, send them.    *)
(* The axis hold-off may veto the axes of any tick.                        *)
(***************************************************************************)
SafeToWalk(t) ==
  /\ t.udp /\ ~JointsLocked(t) /\ ~Transient(t.basic)
  /\ \/ t.basic \in UprightStates
     \/ stood = "stood"
     \/ t.ros /\ t.rosBasic \in UprightStates
  /\ ~(t.body /\ t.bodyState \in {EmergencyOrFall, Fallen})

(***************************************************************************)
(* Mutant: axes are sent to any robot that stands safely.                  *)
(***************************************************************************)
GateAxesByPosture(t) ==
  /\ commanding
  /\ tx = "gate"
  /\ \/ tx' = "due"
     \/ SafeToWalk(t) /\ tx' = "dueAxes"
  /\ late' = IF UnderWay THEN 0 ELSE late
  /\ UNCHANGED <<memory, axes, commanding, pc, local>>

GateAxes(t) ==
  /\ commanding
  /\ tx = "gate"
  /\ \/ tx' = "due"
     \/ UnderWay /\ SafeToWalk(t) /\ tx' = "dueAxes"
  /\ late' = IF UnderWay THEN 0 ELSE late
  /\ UNCHANGED <<memory, axes, commanding, pc, local>>

TorqueConfirmed(t) ==
  TorqueStanding \in {t.bodyState, t.rosBasic, t.basic}

(***************************************************************************)
(* Mutant: a start is put off for as long as it is not confirmed.          *)
(***************************************************************************)
DueMarchPatient(t) ==
  IF march.at # "due" THEN march
  ELSE IF ~t.body \/ TorqueConfirmed(t)
       THEN [march EXCEPT !.at = "off", !.sent = TRUE, !.phase = "walking"]
  ELSE [march EXCEPT !.at = "running"]

(***************************************************************************)
(* A start that is due is sent, put off by 100 ms while the body monitor   *)
(* does not show torque standing, or given up after 2.5 s.                 *)
(***************************************************************************)
DueMarch(t) ==
  IF march.at # "due" THEN march
  ELSE IF ~t.body \/ TorqueConfirmed(t)
       THEN [march EXCEPT !.at = "off", !.sent = TRUE, !.phase = "walking"]
  ELSE IF cmdAge # "old" THEN [march EXCEPT !.at = "running"]
  ELSE [march EXCEPT !.at = "off", !.stepping = FALSE, !.phase = "stopped"]

(***************************************************************************)
(* Mutant: sit_at_ is not reset when its toggle is sent.                   *)
(***************************************************************************)
SendDueAgain(t) ==
  /\ tx \in {"due", "dueAxes"}
  /\ tx' = IF tx = "dueAxes" THEN "axes" ELSE "gate"
  /\ march' = DueMarch(t)
  /\ UNCHANGED <<sitAt, stood, cmdAge, axes, commanding, pc, local, late>>

SendDue(t) ==
  /\ tx \in {"due", "dueAxes"}
  /\ tx' = IF tx = "dueAxes" THEN "axes" ELSE "gate"
  /\ march' = DueMarch(t)
  /\ sitAt' = IF sitAt = "due" THEN "off" ELSE sitAt
  /\ UNCHANGED <<stood, cmdAge, axes, commanding, pc, local, late>>

ReadAxes ==
  /\ tx = "axes"
  /\ tx' = IF axes THEN "frame" ELSE "gate"
  /\ UNCHANGED <<memory, axes, commanding, pc, local, late>>

SendFrame ==
  /\ tx = "frame"
  /\ tx' = "gate"
  /\ late' = IF UnderWay \/ late = 2 THEN late ELSE late + 1
  /\ UNCHANGED <<memory, axes, commanding, pc, local>>

TxLoop ==
  \/ \E t \in Telemetry : GateAxes(t) \/ SendDue(t)
  \/ ReadAxes
  \/ SendFrame

-------------------------------------------------------------------------------
(***************************************************************************)
(* Mutant: a report of torque standing clears a start that is armed.       *)
(***************************************************************************)
ReconciledDuringStart(state) ==
  IF cmdAge = "fresh" THEN march
  ELSE IF state = Marching /\ march.phase # "stopping"
       THEN [stepping |-> TRUE, sent |-> TRUE, at |-> "off",
             phase |-> "walking"]
  ELSE IF state = TorqueStanding /\ march.phase # "walking"
       THEN Cleared(IF march.phase = "torque" THEN "torque" ELSE "stopped")
  ELSE march

(***************************************************************************)
(* ReconcileReportedMotionLocked: a report of marching or of torque        *)
(* standing corrects the memory, save within 800 ms of a command.  UDP     *)
(* and ROS reports (HandleDatagram, ApplyRosBasicState) do only this.      *)
(***************************************************************************)
Reconciled(state) ==
  IF cmdAge = "fresh" THEN march
  ELSE IF state = Marching /\ march.phase # "stopping"
       THEN [stepping |-> TRUE, sent |-> TRUE, at |-> "off",
             phase |-> "walking"]
  ELSE IF state = TorqueStanding /\ march.phase \notin {"starting", "walking"}
       THEN Cleared(IF march.phase = "torque" THEN "torque" ELSE "stopped")
  ELSE march

MotionReport(state) ==
  /\ march' = Reconciled(state)
  /\ UNCHANGED <<sitAt, stood, cmdAge, axes, commanding, pc, local, tx, late>>

ApplyBodyMonitor(state) ==
  /\ march' = IF state \in {EmergencyOrFall, Fallen} THEN Cleared("unavailable")
              ELSE IF state = InitialStanding /\ march.phase = "stopping"
                   THEN [march EXCEPT !.phase = "stopped"]
              ELSE Reconciled(state)
  /\ UNCHANGED <<sitAt, stood, cmdAge, axes, commanding, pc, local, tx, late>>

(***************************************************************************)
(* Time: step_at_ and sit_at_ come due, motion_command_at_ recedes, the    *)
(* axis watchdog runs out.                                                 *)
(***************************************************************************)
StepTimer ==
  /\ march.at = "running"
  /\ march' = [march EXCEPT !.at = "due"]
  /\ UNCHANGED <<sitAt, stood, cmdAge, axes, commanding, pc, local, tx, late>>

SitTimer ==
  /\ sitAt = "running"
  /\ sitAt' = "due"
  /\ UNCHANGED <<march, stood, cmdAge, axes, commanding, pc, local, tx, late>>

CommandAges ==
  /\ cmdAge # "old"
  /\ cmdAge' = IF cmdAge = "fresh" THEN "recent" ELSE "old"
  /\ UNCHANGED <<march, sitAt, stood, axes, commanding, pc, local, tx, late>>

Watchdog ==
  /\ axes
  /\ axes' = FALSE
  /\ UNCHANGED <<memory, commanding, pc, local, tx, late>>

-------------------------------------------------------------------------------
Reading(c, t) ==
  \/ ViewBeforeStart(c, t)
  \/ StopStepping(c, t)
  \/ ViewBeforeTorque(c, t)
  \/ CheckBeforeStand(c, t)
  \/ CheckBeforeSit(c, t)
  \/ CheckBeforeToggle(c, t)

Session(c) ==
  \/ ReleaseAxes(c)
  \/ StartStepping(c)
  \/ EnterTorqueStand(c)
  \/ StandUp(c)
  \/ LeaveStep(c) \/ SitDown(c)
  \/ StandOrSit(c)
  \/ UnloadForce(c) \/ SoftEmergencyStop(c)
  \/ CheckMarch(c) \/ SetVelocity(c)
  \/ AdoptPosture(c)
  \/ StopCommanding(c) \/ ForgetMarch(c)

Next ==
  \/ \E cmd \in DOMAIN FirstStep, t \in Telemetry : Command(cmd, t)
  \/ \E t \in Telemetry : Claim(Other, t)
  \/ EmergencyStop
  \/ Release(Other)
  \/ \E c \in Callers, t \in Telemetry : Reading(c, t)
  \/ \E c \in Callers : Session(c)
  \/ TxLoop
  \/ \E state \in BasicStates : MotionReport(state)
  \/ \E state \in BodyStates : ApplyBodyMonitor(state)
  \/ StepTimer \/ SitTimer \/ CommandAges \/ Watchdog

(***************************************************************************)
(* TxLoop keeps its rate and time passes; nobody owes a command.           *)
(***************************************************************************)
Fairness ==
  /\ WF_vars(TxLoop)
  /\ WF_vars(StepTimer)
  /\ WF_vars(SitTimer)
  /\ WF_vars(CommandAges)

Spec == Init /\ [][Next]_vars

FairSpec == Spec /\ Fairness

-------------------------------------------------------------------------------
(***************************************************************************)
(* The four fields that remember the march never contradict each other,    *)
(* although eleven operations on five threads write them: stepping_ says   *)
(* that a start is armed or the march is under way, never both, and a      *)
(* start that is armed shows as starting, so that reports spare it.        *)
(***************************************************************************)
MarchMemory ==
  /\ march.stepping <=> march.sent \/ march.at # "off"
  /\ ~(march.sent /\ march.at # "off")
  /\ march.at # "off" => march.phase = "starting"

(***************************************************************************)
(* Once the memory of the march is cleared (emergency stop, stop, sit,     *)
(* release, a report of a fall), at most one more frame with a velocity    *)
(* leaves the gateway before the next march, whatever a SetVelocity that   *)
(* had already looked the march up writes afterwards.                      *)
(***************************************************************************)
OneLateFrame == late <= 1

(***************************************************************************)
(* A march, under way or armed, ends by a command (a step of a session     *)
(* thread), by a reported fall, or because a start that was put off for    *)
(* 2.5 s is given up.  No report of standstill ends it, however late and   *)
(* over whichever channel, although the body monitor keeps reporting       *)
(* torque standing during the march (motion_client.cpp:397): the phase     *)
(* that eleven operations write shields stepping_ and step_sent_.          *)
(***************************************************************************)
MarchEndsByCommand ==
  [][march.stepping /\ ~march'.stepping =>
       \/ pc' # pc
       \/ march' = Cleared("unavailable")
       \/ march.at = "due" /\ cmdAge = "old" /\ tx' # tx]_vars

(***************************************************************************)
(* The opposite does not hold: a report may begin a march.  One that is    *)
(* late revives the march an emergency stop, a sit or an unload has just   *)
(* ended, as these do not renew motion_command_at_, unless a start that is *)
(* due gets it under way.  No run checks this: TLC refutes it.             *)
(***************************************************************************)
StopsStay ==
  [][stood = "sat" /\ ~march.sent /\ march'.sent => march.at = "due"]_vars

(***************************************************************************)
(* A start is sent, given up or cancelled: while somebody is in control it *)
(* is not put off forever, though the body monitor may never confirm.      *)
(***************************************************************************)
StartResolves == march.at # "off" ~> march.at = "off" \/ ~commanding

(***************************************************************************)
(* Sitting down, put off to let the march end, is sent or cancelled.       *)
(***************************************************************************)
SitResolves == sitAt = "due" ~> sitAt # "due" \/ ~commanding

(***************************************************************************)
(* The README promises that a tablet that goes away gives up control and   *)
(* everything it drove at once.  So once nobody commands and no thread is  *)
(* inside a command, no sit toggle waits for the next claim.               *)
(***************************************************************************)
SitEndsWithControl ==
  ~commanding /\ (\A c \in Callers : pc[c] = "idle") => sitAt = "off"

(***************************************************************************)
(* motion_client.hpp: to sit down during the march, stop first, then sit.  *)
(* So when SitDown is about to forget a march under way, it has sent the   *)
(* toggle that ends it.                                                    *)
(***************************************************************************)
SitLeavesMarch ==
  \A c \in Callers : pc[c] = "sitMark" /\ UnderWay => local[c] = "leave"

===============================================================================
