----------------------------- MODULE Motion_proofs -----------------------------
(***************************************************************************)
(* Proofs about Motion, for any telemetry the channels may show.           *)
(***************************************************************************)
EXTENDS Motion, TLAPS

(***************************************************************************)
(* What clearing the march leaves behind.                                  *)
(***************************************************************************)
LEMMA ClearedIsIdle ==
  ASSUME NEW phase \in Phases
  PROVE  /\ Cleared(phase) \in [stepping : BOOLEAN, sent : BOOLEAN,
                                at : Timers, phase : Phases]
         /\ ~Cleared(phase).stepping
         /\ ~Cleared(phase).sent
         /\ Cleared(phase).at = "off"
         /\ Cleared(phase).phase = phase
BY DEF Cleared, Timers

LEMMA ReconciledType ==
  ASSUME TypeOK, NEW state
  PROVE  Reconciled(state) \in [stepping : BOOLEAN, sent : BOOLEAN,
                                at : Timers, phase : Phases]
BY DEF TypeOK, Reconciled, Cleared, Timers, Phases

LEMMA DueMarchType ==
  ASSUME TypeOK, NEW t
  PROVE  DueMarch(t) \in [stepping : BOOLEAN, sent : BOOLEAN,
                          at : Timers, phase : Phases]
BY DEF TypeOK, DueMarch, Timers, Phases

(***************************************************************************)
(* Every value a thread's program counter, the memory of the march and the *)
(* timers take is one the code knows, after any interleaving.              *)
(***************************************************************************)
THEOREM TypeCorrect == Spec => []TypeOK
<1>1. Init => TypeOK
  <2> SUFFICES ASSUME Init PROVE TypeOK
    OBVIOUS
  <2>1. march \in [stepping : BOOLEAN, sent : BOOLEAN, at : Timers,
                   phase : Phases]
    BY ClearedIsIdle DEF Init, Phases
  <2>2. pc \in [Callers -> Steps] /\ sitAt \in Timers
    BY DEF Init, Steps, Timers
  <2>3. local \in [Callers -> {"none", "leave", "upright"}] /\ late \in 0 .. 2
    BY DEF Init
  <2> QED BY <2>1, <2>2, <2>3 DEF Init, TypeOK
<1>2. TypeOK /\ [Next]_vars => TypeOK'
  <2> SUFFICES ASSUME TypeOK, [Next]_vars PROVE TypeOK'
    OBVIOUS
  <2> USE DEF TypeOK, memory, Goto
  <2>1. ASSUME NEW cmd \in DOMAIN FirstStep, NEW t \in Telemetry,
               Command(cmd, t)
        PROVE  TypeOK'
    <3>1. FirstStep[cmd] \in Steps
      BY <2>1 DEF FirstStep, Steps, ZeroSteps
    <3> QED BY <2>1, <3>1 DEF Command
  <2>2. ASSUME NEW t \in Telemetry, Claim(Other, t) PROVE TypeOK'
    BY <2>2 DEF Claim, Steps
  <2>3. CASE EmergencyStop
    BY <2>3 DEF EmergencyStop, Steps, ZeroSteps
  <2>4. CASE Release(Other)
    BY <2>4 DEF Release, Steps, ZeroSteps
  <2>5. ASSUME NEW c \in Callers, NEW t \in Telemetry, Reading(c, t)
        PROVE  TypeOK'
    <3>1. CASE ViewBeforeStart(c, t)
      BY <3>1 DEF ViewBeforeStart, Steps
    <3>2. CASE StopStepping(c, t)
      BY <3>2, ClearedIsIdle DEF StopStepping, Steps, ZeroSteps, Phases
    <3>3. CASE ViewBeforeTorque(c, t)
      BY <3>3 DEF ViewBeforeTorque, Steps
    <3>4. CASE CheckBeforeStand(c, t)
      BY <3>4 DEF CheckBeforeStand, Steps, ZeroSteps
    <3>5. CASE CheckBeforeSit(c, t)
      BY <3>5 DEF CheckBeforeSit, Steps, ZeroSteps
    <3>6. CASE CheckBeforeToggle(c, t)
      BY <3>6 DEF CheckBeforeToggle, Steps, ZeroSteps
    <3> QED BY <2>5, <3>1, <3>2, <3>3, <3>4, <3>5, <3>6 DEF Reading
  <2>6. ASSUME NEW c \in Callers, Session(c) PROVE TypeOK'
    <3>1. CASE ReleaseAxes(c)
      <4>1. \A step \in ZeroSteps : AfterZero[step] \in Steps
        BY DEF AfterZero, Steps, ZeroSteps
      <4> QED BY <3>1, <4>1 DEF ReleaseAxes
    <3>2. CASE StartStepping(c)
      <4> DEFINE Armed == [stepping |-> TRUE, sent |-> FALSE, at |-> "running",
                           phase |-> "starting"]
      <4>1. \/ march' = march /\ cmdAge' = cmdAge
            \/ march' = Armed /\ cmdAge' = "fresh"
        BY <3>2, Zenon DEF StartStepping
      <4>2. Armed \in [stepping : BOOLEAN, sent : BOOLEAN, at : Timers,
                       phase : Phases]
        BY DEF Timers, Phases
      <4>3. /\ march' \in [stepping : BOOLEAN, sent : BOOLEAN, at : Timers,
                            phase : Phases]
            /\ cmdAge' \in {"fresh", "recent", "old"}
        <5> HIDE DEF Armed
        <5> QED BY <4>1, <4>2
      <4> QED BY <3>2, <4>3 DEF StartStepping, Steps
    <3>3. CASE EnterTorqueStand(c)
      BY <3>3, ClearedIsIdle
      DEF EnterTorqueStand, Steps, ZeroSteps, Timers, Phases
    <3>4. CASE StandUp(c)
      BY <3>4, ClearedIsIdle DEF StandUp, Steps, Timers, Phases
    <3>5. CASE LeaveStep(c)
      BY <3>5 DEF LeaveStep, Steps, ZeroSteps
    <3>6. CASE SitDown(c)
      BY <3>6, ClearedIsIdle DEF SitDown, Steps, Timers, Phases
    <3>7. CASE StandOrSit(c)
      BY <3>7, ClearedIsIdle DEF StandOrSit, Steps, Timers
    <3>8. CASE UnloadForce(c) \/ SoftEmergencyStop(c)
      <4>1. ForgetAll /\ UNCHANGED <<cmdAge, axes, commanding, local, tx, late>>
        BY <3>8 DEF UnloadForce, SoftEmergencyStop
      <4>2. pc' \in [Callers -> Steps]
        BY <3>8 DEF UnloadForce, SoftEmergencyStop, Steps
      <4> QED BY <4>1, <4>2, ClearedIsIdle DEF ForgetAll, Timers, Phases
    <3>9. CASE CheckMarch(c) \/ SetVelocity(c)
      BY <3>9 DEF CheckMarch, SetVelocity, Steps
    <3>10. CASE AdoptPosture(c)
      BY <3>10, ClearedIsIdle DEF AdoptPosture, Steps, Timers, Phases
    <3>11. CASE StopCommanding(c)
      BY <3>11 DEF StopCommanding, Steps
    <3>12. CASE ForgetMarch(c)
      BY <3>12, ClearedIsIdle DEF ForgetMarch, Steps, Phases
    <3> QED
      BY <2>6, <3>1, <3>2, <3>3, <3>4, <3>5, <3>6, <3>7, <3>8, <3>9, <3>10,
         <3>11, <3>12 DEF Session
  <2>7. CASE TxLoop
    <3>1. ASSUME NEW t \in Telemetry, GateAxes(t) PROVE TypeOK'
      BY <3>1 DEF GateAxes
    <3>2. ASSUME NEW t \in Telemetry, SendDue(t) PROVE TypeOK'
      BY <3>2, DueMarchType DEF SendDue, Timers
    <3>3. CASE ReadAxes
      BY <3>3 DEF ReadAxes
    <3>4. CASE SendFrame
      BY <3>4 DEF SendFrame
    <3> QED BY <2>7, <3>1, <3>2, <3>3, <3>4 DEF TxLoop
  <2>8. ASSUME NEW state \in BasicStates, MotionReport(state) PROVE TypeOK'
    BY <2>8, ReconciledType DEF MotionReport
  <2>9. ASSUME NEW state \in BodyStates, ApplyBodyMonitor(state)
        PROVE  TypeOK'
    BY <2>9, ReconciledType, ClearedIsIdle DEF ApplyBodyMonitor, Phases
  <2>10. CASE StepTimer \/ SitTimer \/ CommandAges \/ Watchdog
    BY <2>10 DEF StepTimer, SitTimer, CommandAges, Watchdog, Timers
  <2>11. CASE UNCHANGED vars
    BY <2>11 DEF vars
  <2> QED
    BY <2>1, <2>2, <2>3, <2>4, <2>5, <2>6, <2>7, <2>8, <2>9, <2>10, <2>11
    DEF Next
<1> QED BY <1>1, <1>2, PTL DEF Spec

-------------------------------------------------------------------------------
(***************************************************************************)
(* MarchMemory as a predicate on the record, so that what every operation  *)
(* makes of the record can be stated apart from the operation; and that a  *)
(* march under way shows as walking, which shields it from reports.        *)
(***************************************************************************)
Marches == [stepping : BOOLEAN, sent : BOOLEAN, at : Timers, phase : Phases]

Consistent(m) ==
  /\ m.stepping <=> m.sent \/ m.at # "off"
  /\ ~(m.sent /\ m.at # "off")
  /\ m.at # "off" => m.phase = "starting"
  /\ m.sent => m.phase = "walking"

LEMMA ClearedIsConsistent == \A phase : Consistent(Cleared(phase))
BY DEF Consistent, Cleared

LEMMA ArmedIsConsistent ==
  Consistent([stepping |-> TRUE, sent |-> FALSE, at |-> "running",
              phase |-> "starting"])
BY DEF Consistent

(***************************************************************************)
(* A report leaves the memory as it is, clears it, or shows the march      *)
(* under way.                                                              *)
(***************************************************************************)
LEMMA ReconciledIsConsistent ==
  ASSUME Consistent(march), NEW state
  PROVE  Consistent(Reconciled(state))
<1> DEFINE Walking == [stepping |-> TRUE, sent |-> TRUE, at |-> "off",
                       phase |-> "walking"]
<1>1. Consistent(Walking)
  BY DEF Consistent
<1>2. \/ Reconciled(state) = march
      \/ Reconciled(state) = Walking
      \/ \E phase : Reconciled(state) = Cleared(phase)
  BY Zenon DEF Reconciled
<1> HIDE DEF Walking
<1> QED BY <1>1, <1>2, ClearedIsConsistent

(***************************************************************************)
(* A start that is due and consistent becomes a march, is put off, or is   *)
(* given up.                                                               *)
(***************************************************************************)
LEMMA DueMarchIsConsistent ==
  ASSUME march \in Marches, Consistent(march), NEW t
  PROVE  Consistent(DueMarch(t))
<1>1. CASE march.at # "due"
  BY <1>1, Zenon DEF DueMarch
<1>2. CASE march.at = "due"
  <2>1. march.stepping /\ ~march.sent /\ march.phase = "starting"
    BY <1>2 DEF Consistent, Marches
  <2>2. Consistent([march EXCEPT !.at = "off", !.sent = TRUE,
                                 !.phase = "walking"])
    BY <2>1 DEF Consistent, Marches
  <2>3. Consistent([march EXCEPT !.at = "running"])
    BY <2>1 DEF Consistent, Marches
  <2>4. Consistent([march EXCEPT !.at = "off", !.stepping = FALSE,
                                 !.phase = "stopped"])
    BY <2>1 DEF Consistent, Marches
  <2> QED BY <1>2, <2>2, <2>3, <2>4, Zenon DEF DueMarch
<1> QED BY <1>1, <1>2

LEMMA PhaseOnlyIsConsistent ==
  ASSUME march \in Marches, Consistent(march), march.phase = "stopping"
  PROVE  Consistent([march EXCEPT !.phase = "stopped"])
BY DEF Consistent, Marches

LEMMA TimerIsConsistent ==
  ASSUME march \in Marches, Consistent(march), march.at = "running"
  PROVE  Consistent([march EXCEPT !.at = "due"])
BY DEF Consistent, Marches

LEMMA MarchIsConsistent == Spec => []Consistent(march)
<1>1. Init => Consistent(march)
  BY ClearedIsConsistent DEF Init
<1>2. TypeOK /\ Consistent(march) /\ [Next]_vars => Consistent(march)'
  <2> SUFFICES ASSUME TypeOK, Consistent(march), [Next]_vars
               PROVE  Consistent(march')
    BY DEF Consistent
  <2>0. march \in Marches
    BY DEF TypeOK, Marches
  <2>1. CASE march' = march
    BY <2>1
  <2>2. CASE \E phase : march' = Cleared(phase)
    BY <2>2, ClearedIsConsistent
  <2>3. ASSUME NEW cmd \in DOMAIN FirstStep, NEW t \in Telemetry,
               Command(cmd, t)
        PROVE  march' = march
    BY <2>3 DEF Command, memory
  <2>4. ASSUME NEW t \in Telemetry, Claim(Other, t) PROVE march' = march
    BY <2>4 DEF Claim, memory
  <2>5. ASSUME EmergencyStop \/ Release(Other) PROVE march' = march
    BY <2>5 DEF EmergencyStop, Release, memory
  <2>6. ASSUME NEW c \in Callers, NEW t \in Telemetry, Reading(c, t)
        PROVE  Consistent(march')
    <3>1. CASE StopStepping(c, t)
      BY <3>1, <2>2 DEF StopStepping
    <3>2. CASE ~StopStepping(c, t)
      BY <2>6, <3>2, <2>1
      DEF Reading, ViewBeforeStart, ViewBeforeTorque, CheckBeforeStand,
          CheckBeforeSit, CheckBeforeToggle, memory
    <3> QED BY <3>1, <3>2
  <2>7. ASSUME NEW c \in Callers, Session(c) PROVE Consistent(march')
    <3>1. CASE StartStepping(c)
      BY <3>1, <2>1, ArmedIsConsistent, Zenon DEF StartStepping
    <3>2. CASE EnterTorqueStand(c) \/ StandUp(c) \/ SitDown(c)
      BY <3>2, <2>2 DEF EnterTorqueStand, StandUp, SitDown
    <3>3. CASE StandOrSit(c)
      BY <3>3, <2>1, <2>2 DEF StandOrSit
    <3>4. CASE UnloadForce(c) \/ SoftEmergencyStop(c)
      BY <3>4, <2>2 DEF UnloadForce, SoftEmergencyStop, ForgetAll
    <3>5. CASE AdoptPosture(c) \/ ForgetMarch(c)
      BY <3>5, <2>2 DEF AdoptPosture, ForgetMarch
    <3>6. CASE ReleaseAxes(c) \/ LeaveStep(c) \/ CheckMarch(c)
                 \/ SetVelocity(c) \/ StopCommanding(c)
      BY <3>6, <2>1
      DEF ReleaseAxes, LeaveStep, CheckMarch, SetVelocity, StopCommanding,
          memory
    <3> QED BY <2>7, <3>1, <3>2, <3>3, <3>4, <3>5, <3>6 DEF Session
  <2>8. CASE TxLoop
    <3>1. ASSUME NEW t \in Telemetry, SendDue(t) PROVE Consistent(march')
      BY <3>1, <2>0, DueMarchIsConsistent DEF SendDue
    <3>2. ASSUME NEW t \in Telemetry, GateAxes(t) PROVE march' = march
      BY <3>2 DEF GateAxes, memory
    <3>3. CASE ReadAxes \/ SendFrame
      BY <3>3, <2>1 DEF ReadAxes, SendFrame, memory
    <3> QED BY <2>8, <2>1, <3>1, <3>2, <3>3 DEF TxLoop
  <2>9. ASSUME NEW state \in BasicStates, MotionReport(state)
        PROVE  Consistent(march')
    BY <2>9, ReconciledIsConsistent DEF MotionReport
  <2>10. ASSUME NEW state \in BodyStates, ApplyBodyMonitor(state)
         PROVE  Consistent(march')
    BY <2>10, <2>0, <2>2, ReconciledIsConsistent, PhaseOnlyIsConsistent, Zenon
    DEF ApplyBodyMonitor
  <2>11. CASE StepTimer
    BY <2>11, <2>0, TimerIsConsistent DEF StepTimer
  <2>12. CASE SitTimer \/ CommandAges \/ Watchdog
    BY <2>12, <2>1 DEF SitTimer, CommandAges, Watchdog, memory
  <2>13. CASE UNCHANGED vars
    BY <2>13, <2>1 DEF vars
  <2> QED
    BY <2>1, <2>3, <2>4, <2>5, <2>6, <2>7, <2>8, <2>9, <2>10, <2>11, <2>12,
       <2>13 DEF Next
<1> QED BY <1>1, <1>2, TypeCorrect, PTL DEF Spec

(***************************************************************************)
(* The fields that remember the march never contradict each other, under   *)
(* any interleaving of the session threads, TxLoop and the reports.        *)
(***************************************************************************)
THEOREM MarchMemoryHolds == Spec => []MarchMemory
<1>1. Consistent(march) => MarchMemory
  BY DEF Consistent, MarchMemory
<1> QED BY <1>1, MarchIsConsistent, PTL

-------------------------------------------------------------------------------
(***************************************************************************)
(* What makes OneLateFrame inductive: while TxLoop is past the gate with   *)
(* axes to send, no late frame has left since the gate was passed.         *)
(***************************************************************************)
LateInv ==
  /\ late \in {0, 1}
  /\ tx \in {"dueAxes", "axes", "frame"} => late = 0

LEMMA OthersKeepLateInv ==
  ASSUME LateInv, UNCHANGED <<tx, late>>
  PROVE  LateInv'
BY DEF LateInv

(***************************************************************************)
(* After the march memory is cleared at most one more velocity frame       *)
(* leaves the gateway before the next march.                               *)
(***************************************************************************)
THEOREM AtMostOneLateFrame == Spec => []OneLateFrame
<1>1. Init => LateInv
  BY DEF Init, LateInv
<1>2. LateInv /\ [Next]_vars => LateInv'
  <2> SUFFICES ASSUME LateInv, [Next]_vars PROVE LateInv'
    OBVIOUS
  <2>1. ASSUME NEW cmd \in DOMAIN FirstStep, NEW t \in Telemetry,
               Command(cmd, t)
        PROVE  LateInv'
    BY <2>1, OthersKeepLateInv DEF Command
  <2>2. ASSUME NEW t \in Telemetry, Claim(Other, t) PROVE LateInv'
    BY <2>2, OthersKeepLateInv DEF Claim
  <2>3. CASE EmergencyStop \/ Release(Other)
    BY <2>3, OthersKeepLateInv DEF EmergencyStop, Release
  <2>4. ASSUME NEW c \in Callers, NEW t \in Telemetry, Reading(c, t)
        PROVE  LateInv'
    BY <2>4, OthersKeepLateInv
    DEF Reading, ViewBeforeStart, StopStepping, ViewBeforeTorque,
        CheckBeforeStand, CheckBeforeSit, CheckBeforeToggle
  <2>5. ASSUME NEW c \in Callers, Session(c) PROVE LateInv'
    BY <2>5, OthersKeepLateInv
    DEF Session, ReleaseAxes, StartStepping, EnterTorqueStand, StandUp,
        LeaveStep, SitDown, StandOrSit, UnloadForce, SoftEmergencyStop,
        CheckMarch, SetVelocity, AdoptPosture, StopCommanding, ForgetMarch
  <2>6. CASE TxLoop
    <3>1. ASSUME NEW t \in Telemetry, GateAxes(t) PROVE LateInv'
      BY <3>1 DEF GateAxes, LateInv
    <3>2. ASSUME NEW t \in Telemetry, SendDue(t) PROVE LateInv'
      BY <3>2 DEF SendDue, LateInv
    <3>3. CASE ReadAxes
      BY <3>3 DEF ReadAxes, LateInv
    <3>4. CASE SendFrame
      BY <3>4 DEF SendFrame, LateInv
    <3> QED BY <2>6, <3>1, <3>2, <3>3, <3>4 DEF TxLoop
  <2>7. ASSUME NEW state \in BasicStates, MotionReport(state) PROVE LateInv'
    BY <2>7, OthersKeepLateInv DEF MotionReport
  <2>8. ASSUME NEW state \in BodyStates, ApplyBodyMonitor(state)
        PROVE  LateInv'
    BY <2>8, OthersKeepLateInv DEF ApplyBodyMonitor
  <2>9. CASE StepTimer \/ SitTimer \/ CommandAges \/ Watchdog
    BY <2>9, OthersKeepLateInv DEF StepTimer, SitTimer, CommandAges, Watchdog
  <2>10. CASE UNCHANGED vars
    BY <2>10, OthersKeepLateInv DEF vars
  <2> QED
    BY <2>1, <2>2, <2>3, <2>4, <2>5, <2>6, <2>7, <2>8, <2>9, <2>10 DEF Next
<1>3. LateInv => OneLateFrame
  BY DEF LateInv, OneLateFrame
<1> QED BY <1>1, <1>2, <1>3, PTL DEF Spec

-------------------------------------------------------------------------------
(***************************************************************************)
(* A report spares a march that shows as walking or as starting.           *)
(***************************************************************************)
LEMMA ReportsSpareMarch ==
  ASSUME march.phase \in {"starting", "walking"}, march.stepping, NEW state
  PROVE  Reconciled(state).stepping
<1> DEFINE Walking == [stepping |-> TRUE, sent |-> TRUE, at |-> "off",
                       phase |-> "walking"]
<1>1. Reconciled(state) = march \/ Reconciled(state) = Walking
  BY Zenon DEF Reconciled
<1>2. Walking.stepping
  OBVIOUS
<1> HIDE DEF Walking
<1> QED BY <1>1, <1>2

(***************************************************************************)
(* No report of standstill ends a march, over whichever channel and        *)
(* however late: only a command, a fall, or giving up after 2.5 s.         *)
(***************************************************************************)
THEOREM ReportsEndNoMarch == Spec => MarchEndsByCommand
<1> DEFINE Ended ==
      march.stepping /\ ~march'.stepping =>
        \/ pc' # pc
        \/ march' = Cleared("unavailable")
        \/ march.at = "due" /\ cmdAge = "old" /\ tx' # tx
<1>1. TypeOK /\ Consistent(march) /\ [Next]_vars => [Ended]_vars
  <2> SUFFICES ASSUME TypeOK, Consistent(march), Next, march.stepping,
                      ~march'.stepping, pc' = pc, march' # Cleared("unavailable")
               PROVE  march.at = "due" /\ cmdAge = "old" /\ tx' # tx
    BY Zenon
  <2>0. march \in Marches /\ pc \in [Callers -> Steps]
    BY DEF TypeOK, Marches
  <2>1. march' # march
    OBVIOUS
  <2>2. march.phase \in {"starting", "walking"}
    BY DEF Consistent
  <2>3. ASSUME NEW cmd \in DOMAIN FirstStep, NEW t \in Telemetry,
               Command(cmd, t)
        PROVE  FALSE
    BY <2>3, <2>1 DEF Command, memory
  <2>4. ASSUME NEW t \in Telemetry, Claim(Other, t) PROVE FALSE
    BY <2>4, <2>1 DEF Claim, memory
  <2>5. ASSUME EmergencyStop \/ Release(Other) PROVE FALSE
    BY <2>5, <2>1 DEF EmergencyStop, Release, memory
  <2>6. ASSUME NEW c \in Callers, NEW from, NEW to, Goto(c, from, to), from # to
        PROVE  FALSE
    BY <2>0, <2>6 DEF Goto
  <2>7. ASSUME NEW c \in Callers, NEW t \in Telemetry, Reading(c, t)
        PROVE  FALSE
    BY <2>7, <2>1, <2>6
    DEF Reading, StopStepping, ViewBeforeStart, ViewBeforeTorque,
        CheckBeforeStand, CheckBeforeSit, CheckBeforeToggle, memory
  <2>8. ASSUME NEW c \in Callers, Session(c) PROVE FALSE
    <3>1. CASE ReleaseAxes(c) \/ LeaveStep(c) \/ CheckMarch(c)
                 \/ SetVelocity(c) \/ StopCommanding(c)
      BY <3>1, <2>1
      DEF ReleaseAxes, LeaveStep, CheckMarch, SetVelocity, StopCommanding, memory
    <3>2. CASE StartStepping(c) \/ EnterTorqueStand(c) \/ StandUp(c) \/ SitDown(c)
      BY <3>2, <2>6 DEF StartStepping, EnterTorqueStand, StandUp, SitDown
    <3>3. CASE StandOrSit(c)
      BY <3>3, <2>6 DEF StandOrSit
    <3>4. CASE UnloadForce(c) \/ SoftEmergencyStop(c) \/ AdoptPosture(c) \/ ForgetMarch(c)
      BY <3>4, <2>6 DEF UnloadForce, SoftEmergencyStop, AdoptPosture, ForgetMarch
    <3> QED BY <2>8, <3>1, <3>2, <3>3, <3>4 DEF Session
  <2>9. CASE TxLoop
    <3>1. ASSUME NEW t \in Telemetry, SendDue(t)
          PROVE  march.at = "due" /\ cmdAge = "old" /\ tx' # tx
      <4>1. march' = DueMarch(t) /\ tx' # tx
        BY <3>1 DEF SendDue
      <4>2. march.at = "due"
        BY <2>1, <4>1, Zenon DEF DueMarch
      <4>3. /\ march' # [march EXCEPT !.at = "running"]
            /\ march' # [march EXCEPT !.at = "off", !.sent = TRUE, !.phase = "walking"]
        BY <2>0 DEF Marches
      <4>4. cmdAge = "old"
        BY <4>1, <4>2, <4>3, Zenon DEF DueMarch
      <4> QED BY <4>1, <4>2, <4>4
    <3>2. ASSUME NEW t \in Telemetry, GateAxes(t) PROVE FALSE
      BY <3>2, <2>1 DEF GateAxes, memory
    <3>3. CASE ReadAxes \/ SendFrame
      BY <3>3, <2>1 DEF ReadAxes, SendFrame, memory
    <3> QED BY <2>9, <3>1, <3>2, <3>3 DEF TxLoop
  <2>10. ASSUME NEW state, Reconciled(state) = march' PROVE FALSE
    BY <2>2, <2>10, ReportsSpareMarch
  <2>11. ASSUME NEW state \in BasicStates, MotionReport(state) PROVE FALSE
    BY <2>11, <2>10 DEF MotionReport
  <2>12. ASSUME NEW state \in BodyStates, ApplyBodyMonitor(state) PROVE FALSE
    <3>1. march' # [march EXCEPT !.phase = "stopped"]
      BY <2>0 DEF Marches
    <3> QED BY <2>12, <3>1, <2>10, Zenon DEF ApplyBodyMonitor
  <2>13. CASE StepTimer
    <3>1. march' # [march EXCEPT !.at = "due"]
      BY <2>0 DEF Marches
    <3> QED BY <2>13, <3>1 DEF StepTimer
  <2>14. CASE SitTimer \/ CommandAges \/ Watchdog
    BY <2>14, <2>1 DEF SitTimer, CommandAges, Watchdog, memory
  <2> QED
    BY <2>3, <2>4, <2>5, <2>7, <2>8, <2>9, <2>11, <2>12, <2>13, <2>14 DEF Next
<1> QED BY <1>1, TypeCorrect, MarchIsConsistent, PTL DEF Spec, MarchEndsByCommand

===============================================================================
