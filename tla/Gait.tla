--------------------------------- MODULE Gait ---------------------------------
(***************************************************************************)
(* GaitCoordinator (rk3588/src/gait_coordinator.cpp): gait switches, asked *)
(* for by session threads and carried out one after another by a worker.   *)
(*                                                                         *)
(* A gait chosen before the robot marches is only written down, and is     *)
(* asked for again when the operator starts the march.  A step is one      *)
(* critical section of mutex_, one access to busy_ outside it, or one      *)
(* stage of Execute up to its wait.  The control mode and the terrain      *)
(* settings it sends are not read back to decide anything, and left out.   *)
(***************************************************************************)
CONSTANTS
  Gaits,        \* gaits that may be asked for
  StairGaits,   \* those that need the height map (RequiresHeightMap)
  MultiFrame,   \* those whose map is built standing still
  NoGait        \* no gait, no request, no handler

ASSUME GaitsAssumption ==
  /\ NoGait \notin Gaits
  /\ MultiFrame \subseteq StairGaits
  /\ StairGaits \subseteq Gaits

VARIABLES
  pending,      \* pending_, pending_target_, pending_step_hint_, its handler
  queued,       \* queued_ and queued_target_
  queuedHandler,\* queued_handler_
  applyAsked,   \* apply_queued_requested_
  busy,         \* busy_
  worker,       \* where WorkerLoop is
  job,          \* the request WorkerLoop carries out
  result,       \* what Execute returned
  marching,     \* MotionClient::UserStepping
  session       \* where the session threads are

vars == <<pending, queued, queuedHandler, applyAsked, busy, worker, job, result,
          marching, session>>

slots == <<pending, queued, queuedHandler, applyAsked>>

Operator == "operator"
Other == "other"
Sessions == {Operator, Other}

(***************************************************************************)
(* A request names the gait, whether the march is said to be on, and whom  *)
(* to tell the result: a handler is known by the gait it will report.      *)
(* walked is history: the robot marched, or was said to march, since the   *)
(* request was made.                                                       *)
(***************************************************************************)
Requests == [gait : Gaits, hint : BOOLEAN, handler : Gaits \cup {NoGait},
             walked : BOOLEAN]
Wishes == [gait : Gaits, walked : BOOLEAN]

ASSUME NoGaitAssumption == NoGait \notin Requests \cup Wishes

Executing == {"check", "queue", "standstill", "map", "send", "confirm", "done"}
Places == Executing \cup {"wait", "taken", "finish", "reply"}

TypeOK ==
  /\ pending \in Requests \cup {NoGait}
  /\ queued \in Wishes \cup {NoGait}
  /\ queuedHandler \in Gaits \cup {NoGait}
  /\ applyAsked \in BOOLEAN
  /\ busy \in BOOLEAN
  /\ worker \in Places
  /\ job \in IF worker = "wait" THEN {NoGait} ELSE Requests
  /\ result \in {"none", "queued", "refused", "ok", "failed"}
  /\ marching \in BOOLEAN
  /\ session \in [Sessions -> {"idle", "apply", "halt"}]

Init ==
  /\ pending = NoGait
  /\ queued = NoGait
  /\ queuedHandler = NoGait
  /\ applyAsked = FALSE
  /\ busy = FALSE
  /\ worker = "wait"
  /\ job = NoGait
  /\ result = "none"
  /\ marching = FALSE
  /\ session = [s \in Sessions |-> "idle"]

-------------------------------------------------------------------------------
(***************************************************************************)
(* What session threads ask of the coordinator.                            *)
(***************************************************************************)
Goes(s, from, to) ==
  /\ session[s] = from
  /\ session' = [session EXCEPT ![s] = to]

(***************************************************************************)
(* Request: refused while a switch is pending or busy_.  The hint is the   *)
(* client's own word or UserStepping, read some time before.               *)
(***************************************************************************)
Request(g, hint) ==
  /\ session[Operator] = "idle"
  /\ pending = NoGait /\ ~busy
  /\ pending' = [gait |-> g, hint |-> hint, handler |-> g,
                 walked |-> hint \/ marching]
  /\ UNCHANGED <<queued, queuedHandler, applyAsked, busy, worker, job, result,
                 marching, session>>

(***************************************************************************)
(* step on: the march is armed (StartStepping), then the gait written down *)
(* is asked for.                                                           *)
(***************************************************************************)
Walked(r) == IF r = NoGait THEN NoGait ELSE [r EXCEPT !.walked = TRUE]

StartStepping ==
  /\ Goes(Operator, "idle", "apply")
  /\ marching' = TRUE
  /\ pending' = Walked(pending)
  /\ queued' = Walked(queued)
  /\ job' = Walked(job)
  /\ UNCHANGED <<queuedHandler, applyAsked, busy, worker, result>>

Again(wish, handler) ==
  [gait |-> wish.gait, hint |-> TRUE, handler |-> handler,
   walked |-> wish.walked]

TakeQueued ==
  /\ pending' = Again(queued, queuedHandler)
  /\ queued' = NoGait
  /\ queuedHandler' = NoGait
  /\ applyAsked' = FALSE

ApplyQueuedWhenWalking ==
  /\ Goes(Operator, "apply", "idle")
  /\ \/ queued # NoGait /\ pending = NoGait /\ ~busy /\ TakeQueued
     \/ /\ IF queued = NoGait THEN busy ELSE pending # NoGait \/ busy
        /\ applyAsked' = TRUE
        /\ UNCHANGED <<pending, queued, queuedHandler>>
     \/ queued = NoGait /\ ~busy /\ UNCHANGED slots
  /\ UNCHANGED <<busy, worker, job, result, marching>>

(***************************************************************************)
(* stand, sit, unload and estop clear the queue first, then stop the march *)
(* in MotionClient.  step off only stops the march.                        *)
(***************************************************************************)
ClearQueued(s) ==
  /\ Goes(s, "idle", "halt")
  /\ queued' = NoGait
  /\ queuedHandler' = NoGait
  /\ applyAsked' = FALSE
  /\ UNCHANGED <<pending, busy, worker, job, result, marching>>

Halt(s) ==
  /\ Goes(s, "halt", "idle")
  /\ marching' = FALSE
  /\ UNCHANGED <<slots, busy, worker, job, result>>

(***************************************************************************)
(* The march ends with step off or a release, neither of which clears the  *)
(* queue; a report may begin or end it as well.                            *)
(***************************************************************************)
MarchEnds ==
  /\ marching' = FALSE
  /\ UNCHANGED <<slots, busy, worker, job, result, session>>

MarchReported ==
  /\ marching' = TRUE
  /\ pending' = Walked(pending)
  /\ queued' = Walked(queued)
  /\ job' = Walked(job)
  /\ UNCHANGED <<queuedHandler, applyAsked, busy, worker, result, session>>

-------------------------------------------------------------------------------
(***************************************************************************)
(* Mutant: a wait that times out is taken for a request.                   *)
(***************************************************************************)
TakeUnasked ==
  /\ worker = "wait"
  /\ worker' = "taken"
  /\ job' = pending
  /\ pending' = NoGait
  /\ UNCHANGED <<queued, queuedHandler, applyAsked, busy, result, marching,
                 session>>

(***************************************************************************)
(* WorkerLoop.  busy_ is set after pending_ has been taken and mutex_ left.*)
(***************************************************************************)
TakePending ==
  /\ worker = "wait" /\ pending # NoGait
  /\ worker' = "taken"
  /\ job' = pending
  /\ pending' = NoGait
  /\ UNCHANGED <<queued, queuedHandler, applyAsked, busy, result, marching, session>>

SetBusy ==
  /\ worker = "taken"
  /\ worker' = "check"
  /\ busy' = TRUE
  /\ UNCHANGED <<slots, job, result, marching, session>>

Return(res) == worker' = "done" /\ result' = res

(***************************************************************************)
(* Execute reads the telemetry once: the joints may be locked, the robot   *)
(* may lie or its host be silent, which the model leaves open.             *)
(***************************************************************************)
Check ==
  /\ worker = "check"
  /\ LET walking == marching \/ job.hint
         multi == job.gait \in MultiFrame
         stairs == job.gait \in StairGaits
     IN  \/ Return("refused")
         \/ /\ \/ ~walking /\ worker' = "queue"
               \/ walking /\ multi /\ worker' = "standstill"
               \/ walking /\ stairs /\ ~multi /\ worker' = "map"
               \/ walking /\ ~stairs /\ worker' = "send"
            /\ UNCHANGED result
  /\ UNCHANGED <<slots, busy, job, marching, session>>

WriteDown ==
  /\ worker = "queue"
  /\ Return("queued")
  /\ queued' = [gait |-> job.gait, walked |-> job.walked]
  /\ UNCHANGED <<pending, queuedHandler, applyAsked, busy, job, marching, session>>

WaitStandstill ==
  /\ worker = "standstill"
  /\ \/ worker' = "map" /\ UNCHANGED result
     \/ Return("refused")
  /\ UNCHANGED <<slots, busy, job, marching, session>>

(***************************************************************************)
(* Non-manual mode, the terrain settings and their delays; the gait may be *)
(* on already.                                                             *)
(***************************************************************************)
PrepareMap ==
  /\ worker = "map"
  /\ \/ worker' = "send" /\ UNCHANGED result
     \/ Return("ok")
  /\ UNCHANGED <<slots, busy, job, marching, session>>

SetGait ==
  /\ worker = "send"
  /\ worker' = "confirm"
  /\ UNCHANGED <<slots, busy, job, result, marching, session>>

(***************************************************************************)
(* Telemetry shows the gait in time or not; for level ground the worker    *)
(* does not wait where the host sends no confirmation.                     *)
(***************************************************************************)
WaitGaitConfirmed ==
  /\ worker = "confirm"
  /\ Return("ok") \/ Return("failed")
  /\ UNCHANGED <<slots, busy, job, marching, session>>

ClearBusy ==
  /\ worker = "done"
  /\ worker' = "finish"
  /\ busy' = FALSE
  /\ UNCHANGED <<slots, job, result, marching, session>>

(***************************************************************************)
(* Mutant: a gait written down meanwhile waits for another step on.        *)
(***************************************************************************)
FinishWithoutQueue ==
  /\ worker = "finish"
  /\ worker' = "reply"
  /\ queuedHandler' = IF result = "queued" THEN job.handler ELSE queuedHandler
  /\ UNCHANGED <<pending, queued, applyAsked, busy, job, result, marching, session>>

(***************************************************************************)
(* Mutant: the handler of a switch that was refused is not called.         *)
(***************************************************************************)
FinishQuietly ==
  /\ worker = "finish"
  /\ LET refused == result = "refused"
     IN  /\ worker' = IF refused THEN "wait" ELSE "reply"
         /\ job' = IF refused THEN NoGait ELSE job
         /\ result' = IF refused THEN "none" ELSE result
  /\ UNCHANGED <<slots, busy, marching, session>>

(***************************************************************************)
(* The section after Execute: keep the handler of a gait just written      *)
(* down, and take that gait up at once if the march has begun meanwhile.   *)
(***************************************************************************)
Finish ==
  /\ worker = "finish"
  /\ worker' = "reply"
  /\ LET handler == IF result = "queued" THEN job.handler ELSE queuedHandler
     IN  IF applyAsked /\ queued # NoGait /\ pending = NoGait
         THEN /\ pending' = Again(queued, handler)
              /\ queued' = NoGait
              /\ queuedHandler' = NoGait
              /\ applyAsked' = FALSE
         ELSE /\ queuedHandler' = handler
              /\ UNCHANGED <<pending, queued, applyAsked>>
  /\ UNCHANGED <<busy, job, result, marching, session>>

Reply ==
  /\ worker = "reply"
  /\ worker' = "wait"
  /\ job' = NoGait
  /\ result' = "none"
  /\ UNCHANGED <<slots, busy, marching, session>>

-------------------------------------------------------------------------------
Ask ==
  \/ \E g \in Gaits, hint \in BOOLEAN : Request(g, hint)
  \/ StartStepping
  \/ \E s \in Sessions : ClearQueued(s)

Command ==
  \/ ApplyQueuedWhenWalking
  \/ \E s \in Sessions : Halt(s)

Execute ==
  \/ Check
  \/ WriteDown
  \/ WaitStandstill
  \/ PrepareMap
  \/ SetGait
  \/ WaitGaitConfirmed

WorkerLoop ==
  \/ TakePending
  \/ SetBusy
  \/ Execute
  \/ ClearBusy
  \/ Finish
  \/ Reply

Next ==
  \/ Ask
  \/ Command
  \/ MarchEnds
  \/ MarchReported
  \/ WorkerLoop

(***************************************************************************)
(* Every wait of the worker has a deadline; nobody owes a request.         *)
(***************************************************************************)
Fairness == WF_vars(WorkerLoop)

Spec == Init /\ [][Next]_vars

FairSpec == Spec /\ Fairness

-------------------------------------------------------------------------------
(***************************************************************************)
(* A gait that was written down and that step on has asked for is never    *)
(* left lying: a request is pending, or the worker will still look at the  *)
(* queue before it sleeps.  Three threads hand the gait over through four  *)
(* fields and a busy_ that mutex_ does not protect.                        *)
(***************************************************************************)
NoForgottenGait ==
  applyAsked /\ queued # NoGait =>
    pending # NoGait \/ worker \in Executing \cup {"taken", "finish"}

(***************************************************************************)
(* A request once accepted keeps the pending slot until the worker takes   *)
(* it: neither step on nor the end of a switch puts another in its place,  *)
(* and no emergency stop drops it.                                         *)
(***************************************************************************)
AcceptedIsNotDisplaced ==
  [][pending # NoGait =>
       \/ pending' # NoGait /\ pending'.gait = pending.gait
                           /\ pending'.handler = pending.handler
       \/ job' = pending]_vars

(***************************************************************************)
(* Whoever asks for a gait is told: an accepted request reaches the step   *)
(* that calls its handler, whatever else is asked meanwhile.               *)
(***************************************************************************)
AcceptedIsAnswered ==
  \A g \in Gaits :
    pending # NoGait /\ pending.handler = g
      ~> worker = "reply" /\ job.handler = g

(***************************************************************************)
(* docs/app-protocol.md: a gait chosen before the operator has started the *)
(* march is written down and not sent to the host.  So when a gait has     *)
(* just been sent, the robot marched at some time since it was chosen.     *)
(***************************************************************************)
StandingRobotIsLeftAlone == worker = "confirm" => job.walked

===============================================================================
