------------------------------ MODULE Gait_proofs ------------------------------
(***************************************************************************)
(* Proofs about Gait, for any gaits and whatever the telemetry shows.      *)
(***************************************************************************)
EXTENDS Gait, TLAPS

(***************************************************************************)
(* Marking a request keeps everything but the mark.                        *)
(***************************************************************************)
LEMMA WalkedRequest ==
  ASSUME NEW r \in Requests \cup {NoGait}
  PROVE  /\ Walked(r) \in Requests \cup {NoGait}
         /\ Walked(r) = NoGait <=> r = NoGait
         /\ r # NoGait => /\ Walked(r) \in Requests
                          /\ Walked(r).gait = r.gait
                          /\ Walked(r).handler = r.handler
BY NoGaitAssumption DEF Walked, Requests

LEMMA WalkedWish ==
  ASSUME NEW w \in Wishes \cup {NoGait}
  PROVE  /\ Walked(w) \in Wishes \cup {NoGait}
         /\ Walked(w) = NoGait <=> w = NoGait
BY NoGaitAssumption DEF Walked, Wishes

(***************************************************************************)
(* What is asked for again is a request.                                   *)
(***************************************************************************)
LEMMA AgainRequest ==
  ASSUME NEW w \in Wishes, NEW h \in Gaits \cup {NoGait}
  PROVE  Again(w, h) \in Requests /\ Again(w, h) # NoGait
  <1>1. Again(w, h) \in Requests
    BY DEF Again, Wishes, Requests
  <1> QED BY <1>1, NoGaitAssumption

(***************************************************************************)
(* The three steps that mark a request as one the robot marched since.     *)
(***************************************************************************)
LEMMA MarkingType ==
  ASSUME TypeOK
  PROVE  /\ Walked(pending) \in Requests \cup {NoGait}
         /\ Walked(queued) \in Wishes \cup {NoGait}
         /\ Walked(job) \in IF worker = "wait" THEN {NoGait} ELSE Requests
  <1>1. job \in Requests \cup {NoGait}
    BY DEF TypeOK
  <1>2. CASE worker = "wait"
    BY <1>1, <1>2, WalkedRequest, WalkedWish DEF TypeOK
  <1>3. CASE worker # "wait"
    <2>1. job \in Requests /\ job # NoGait
      BY <1>3, NoGaitAssumption DEF TypeOK
    <2> QED BY <1>3, <2>1, WalkedRequest, WalkedWish DEF TypeOK
  <1> QED BY <1>2, <1>3

(***************************************************************************)
(* The request slot, the queue and the worker's place take values the code *)
(* knows; the worker holds a request exactly while it is not waiting.      *)
(***************************************************************************)
THEOREM TypeCorrect == Spec => []TypeOK
<1>1. Init => TypeOK
  BY DEF Init, TypeOK, Places, Executing
<1>2. TypeOK /\ [Next]_vars => TypeOK'
  <2> SUFFICES ASSUME TypeOK, [Next]_vars PROVE TypeOK'
    OBVIOUS
  <2> USE DEF Places, Executing, slots, Goes
  <2>1. ASSUME NEW g \in Gaits, NEW hint \in BOOLEAN, Request(g, hint)
        PROVE  TypeOK'
    <3>1. pending' \in Requests
      BY <2>1 DEF Request, Requests, TypeOK
    <3> QED BY <2>1, <3>1 DEF Request, TypeOK
  <2>2. CASE StartStepping
    BY <2>2, MarkingType DEF StartStepping, TypeOK
  <2>3. ASSUME NEW s \in Sessions, ClearQueued(s) \/ Halt(s) PROVE TypeOK'
    BY <2>3 DEF ClearQueued, Halt, TypeOK
  <2>4. CASE ApplyQueuedWhenWalking
    <3>1. CASE queued # NoGait /\ TakeQueued
      <4>1. pending' \in Requests
        BY <3>1, AgainRequest DEF TakeQueued, TypeOK
      <4> QED BY <2>4, <3>1, <4>1 DEF ApplyQueuedWhenWalking, TakeQueued, TypeOK
    <3>2. CASE /\ UNCHANGED <<pending, queued, queuedHandler>>
               /\ applyAsked' \in BOOLEAN
      BY <2>4, <3>2 DEF ApplyQueuedWhenWalking, TypeOK
    <3> QED BY <2>4, <3>1, <3>2 DEF ApplyQueuedWhenWalking, TypeOK
  <2>5. CASE MarchEnds
    BY <2>5 DEF MarchEnds, TypeOK
  <2>6. CASE MarchReported
    BY <2>6, MarkingType DEF MarchReported, TypeOK
  <2>7. CASE TakePending
    BY <2>7 DEF TakePending, TypeOK
  <2>8. CASE SetBusy \/ SetGait \/ ClearBusy
    BY <2>8 DEF SetBusy, SetGait, ClearBusy, TypeOK
  <2>9. CASE Check
    BY <2>9 DEF Check, Return, TypeOK
  <2>10. CASE WriteDown
    <3>1. queued' \in Wishes
      BY <2>10 DEF WriteDown, TypeOK, Requests, Wishes
    <3> QED BY <2>10, <3>1 DEF WriteDown, Return, TypeOK
  <2>11. CASE WaitStandstill \/ PrepareMap \/ WaitGaitConfirmed
    BY <2>11 DEF WaitStandstill, PrepareMap, WaitGaitConfirmed, Return, TypeOK
  <2>12. CASE Finish
    <3> DEFINE handler == IF result = "queued" THEN job.handler ELSE queuedHandler
    <3>1. handler \in Gaits \cup {NoGait}
      BY <2>12 DEF Finish, TypeOK, Requests
    <3>2. CASE applyAsked /\ queued # NoGait /\ pending = NoGait
      <4>1. pending' \in Requests
        BY <2>12, <3>1, <3>2, AgainRequest DEF Finish, TypeOK
      <4> QED BY <2>12, <3>2, <4>1 DEF Finish, TypeOK
    <3>3. CASE ~(applyAsked /\ queued # NoGait /\ pending = NoGait)
      BY <2>12, <3>1, <3>3 DEF Finish, TypeOK
    <3> QED BY <3>2, <3>3
  <2>13. CASE Reply
    BY <2>13 DEF Reply, TypeOK
  <2>14. CASE UNCHANGED vars
    BY <2>14 DEF vars, TypeOK
  <2> QED
    BY <2>1, <2>2, <2>3, <2>4, <2>5, <2>6, <2>7, <2>8, <2>9, <2>10, <2>11,
       <2>12, <2>13, <2>14
    DEF Next, Ask, Command, WorkerLoop, Execute
<1> QED BY <1>1, <1>2, PTL DEF Spec

(***************************************************************************)
(* busy_ is on exactly while the worker is inside Execute or about to      *)
(* clear it.  It is off between the taking of a request and SetBusy, and   *)
(* again before the section that looks at the queue.                       *)
(***************************************************************************)
BusyIsExecuting == busy <=> worker \in Executing

IInv == BusyIsExecuting /\ NoForgottenGait

LEMMA ExecuteStaysBusy ==
  ASSUME BusyIsExecuting, Execute
  PROVE  /\ worker \in Executing
         /\ worker' \in Executing
         /\ busy' = busy
BY DEF BusyIsExecuting, Execute, Check, WriteDown, WaitStandstill, PrepareMap,
       SetGait, WaitGaitConfirmed, Return, Executing, slots

(***************************************************************************)
(* No gait that was written down and asked for is left lying, for any      *)
(* gaits.  The invariant needs where busy_ is on: ApplyQueuedWhenWalking   *)
(* leaves the gait to the worker on the word of that flag alone.           *)
(***************************************************************************)
THEOREM NoGaitIsForgotten == Spec => []NoForgottenGait
<1>1. Init => IInv
  BY DEF Init, IInv, BusyIsExecuting, NoForgottenGait, Executing
<1>2. TypeOK /\ IInv /\ [Next]_vars => IInv'
  <2> SUFFICES ASSUME TypeOK, IInv, [Next]_vars PROVE IInv'
    OBVIOUS
  <2> USE DEF IInv, BusyIsExecuting, slots
  <2>1. ASSUME NEW g \in Gaits, NEW hint \in BOOLEAN, Request(g, hint)
        PROVE  IInv'
    <3>1. pending' \in Requests /\ pending' # NoGait
      BY <2>1, NoGaitAssumption DEF Request, Requests, TypeOK
    <3> QED BY <2>1, <3>1 DEF Request, NoForgottenGait
  <2>2. CASE StartStepping \/ MarchReported
    <3>1. /\ pending' = NoGait <=> pending = NoGait
          /\ queued' = NoGait <=> queued = NoGait
      BY <2>2, WalkedRequest, WalkedWish DEF StartStepping, MarchReported, TypeOK
    <3> QED BY <2>2, <3>1 DEF StartStepping, MarchReported, NoForgottenGait
  <2>3. ASSUME NEW s \in Sessions, ClearQueued(s) PROVE IInv'
    BY <2>3 DEF ClearQueued, NoForgottenGait
  <2>4. ASSUME NEW s \in Sessions, Halt(s) PROVE IInv'
    BY <2>4 DEF Halt, NoForgottenGait
  <2>5. CASE ApplyQueuedWhenWalking
    <3>1. UNCHANGED <<busy, worker>>
      BY <2>5 DEF ApplyQueuedWhenWalking
    <3>2. NoForgottenGait'
      <4>1. CASE TakeQueued
        BY <4>1 DEF TakeQueued, NoForgottenGait
      <4>2. CASE UNCHANGED <<pending, queued>> /\ (queued = NoGait \/ pending # NoGait \/ busy)
        BY <3>1, <4>2 DEF NoForgottenGait
      <4> QED BY <2>5, <4>1, <4>2 DEF ApplyQueuedWhenWalking, TypeOK
    <3> QED BY <3>1, <3>2
  <2>6. CASE MarchEnds
    BY <2>6 DEF MarchEnds, NoForgottenGait
  <2>7. CASE TakePending
    BY <2>7 DEF TakePending, NoForgottenGait, Executing
  <2>8. CASE SetBusy
    BY <2>8 DEF SetBusy, NoForgottenGait, Executing
  <2>9. CASE Execute
    BY <2>9, ExecuteStaysBusy DEF NoForgottenGait
  <2>10. CASE ClearBusy
    BY <2>10 DEF ClearBusy, NoForgottenGait, Executing
  <2>11. CASE Finish
    <3>1. UNCHANGED busy /\ worker' \notin Executing /\ worker \notin Executing
      BY <2>11 DEF Finish, Executing
    <3>2. CASE applyAsked /\ queued # NoGait /\ pending = NoGait
      BY <2>11, <3>1, <3>2 DEF Finish, NoForgottenGait
    <3>3. CASE ~(applyAsked /\ queued # NoGait /\ pending = NoGait)
      BY <2>11, <3>1, <3>3 DEF Finish, NoForgottenGait
    <3> QED BY <3>2, <3>3
  <2>12. CASE Reply
    BY <2>12 DEF Reply, NoForgottenGait, Executing
  <2>13. CASE UNCHANGED vars
    BY <2>13 DEF vars, NoForgottenGait
  <2> QED
    BY <2>1, <2>2, <2>3, <2>4, <2>5, <2>6, <2>7, <2>8, <2>9, <2>10, <2>11,
       <2>12, <2>13
    DEF Next, Ask, Command, WorkerLoop
<1>3. IInv => NoForgottenGait
  BY DEF IInv
<1> QED BY <1>1, <1>2, <1>3, TypeCorrect, PTL DEF Spec

(***************************************************************************)
(* An accepted request stays in its slot until the worker takes it,        *)
(* whichever of the three writers of the slot comes along.                 *)
(***************************************************************************)
THEOREM RequestsAreNotDisplaced == Spec => AcceptedIsNotDisplaced
<1> DEFINE Kept == /\ pending' # NoGait
                   /\ pending'.gait = pending.gait
                   /\ pending'.handler = pending.handler
           A == pending # NoGait => Kept \/ job' = pending
<1>1. TypeOK /\ [Next]_vars => [A]_vars
  <2> SUFFICES ASSUME TypeOK, Next, pending # NoGait PROVE Kept \/ job' = pending
    BY DEF vars
  <2>1. CASE UNCHANGED pending
    BY <2>1
  <2>2. CASE pending' = Walked(pending)
    BY <2>2, WalkedRequest DEF TypeOK
  <2>3. CASE TakePending
    BY <2>3 DEF TakePending
  <2>4. ASSUME NEW g \in Gaits, NEW hint \in BOOLEAN, Request(g, hint)
        PROVE  UNCHANGED pending
    BY <2>4 DEF Request
  <2>5. ASSUME NEW s \in Sessions, ClearQueued(s) \/ Halt(s)
        PROVE  UNCHANGED pending
    BY <2>5 DEF ClearQueued, Halt, slots
  <2>6. CASE StartStepping \/ MarchReported
    BY <2>2, <2>6 DEF StartStepping, MarchReported
  <2>7. CASE ApplyQueuedWhenWalking
    <3>1. UNCHANGED pending
      BY <2>7 DEF ApplyQueuedWhenWalking, TakeQueued, slots
    <3> QED BY <2>1, <3>1
  <2>8. CASE MarchEnds \/ SetBusy \/ ClearBusy \/ Finish \/ Reply
    <3>1. UNCHANGED pending
      BY <2>8 DEF MarchEnds, SetBusy, ClearBusy, Finish, Reply, slots
    <3> QED BY <2>1, <3>1
  <2>9. CASE Execute
    <3>1. UNCHANGED pending
      BY <2>9 DEF Execute, Check, WriteDown, WaitStandstill, PrepareMap, SetGait,
                  WaitGaitConfirmed, slots
    <3> QED BY <2>1, <3>1
  <2> QED BY <2>1, <2>3, <2>4, <2>5, <2>6, <2>7, <2>8, <2>9
          DEF Next, Ask, Command, WorkerLoop
<1> QED BY <1>1, TypeCorrect, PTL DEF Spec, AcceptedIsNotDisplaced
===============================================================================
