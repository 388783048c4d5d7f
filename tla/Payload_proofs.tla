--------------------------- MODULE Payload_proofs -----------------------------
(***************************************************************************)
(* Theorems about PayloadSwitch, for any loads, any links and any length   *)
(* of the burst.                                                           *)
(***************************************************************************)
EXTENDS Payload, TLAPS

(***************************************************************************)
(* The worker counts its frames, and works on the one job there is.        *)
(***************************************************************************)
BurstLasts ==
  /\ worker = "wait" => frames = 0
  /\ worker = "send" => frames < Burst

TaskIsTheJob == worker \in {"send", "await", "done"} => job = task

WorkInv == TypeOK /\ BurstLasts /\ TaskIsTheJob /\ BusyIsTheJob

LEMMA NoneIsNothing == NoAnswer \notin Answers /\ NoJob \notin Jobs
  BY NothingAssumption

LEMMA InitWork == Init => WorkInv
<1> SUFFICES ASSUME Init PROVE WorkInv
  OBVIOUS
<1>1. TypeOK
  <2>1. /\ status \in [Items -> {"unknown", "on", "off", "busy", "error"}]
        /\ device \in [Items -> BOOLEAN]
    BY DEF Init
  <2>2. 0 \in 0 .. Burst
    BY ItemsAssumption
  <2> QED BY <2>1, <2>2 DEF Init, TypeOK
<1>2. BusyIsTheJob
  BY DEF Init, BusyIsTheJob
<1> QED BY <1>1, <1>2 DEF Init, WorkInv, BurstLasts, TaskIsTheJob

LEMMA AnswerType ==
  ASSUME NEW ok \in BOOLEAN, task \in Jobs, frames \in 0 .. Burst, frames < Burst
  PROVE  [item |-> task.item, ok |-> ok, frame |-> frames + 1, late |-> FALSE]
           \in Answers
<1>1. frames + 1 \in 1 .. Burst
  BY ItemsAssumption
<1> QED BY <1>1 DEF Answers, Jobs

LEMMA LateType ==
  ASSUME NEW set, set \subseteq Answers
  PROVE  /\ Late(set) \subseteq Answers
         /\ \A a \in Late(set) : a.late /\ \E b \in set : a.item = b.item /\ a.ok = b.ok
<1>1. ASSUME NEW b \in set
      PROVE  LET a == [b EXCEPT !.late = TRUE]
             IN  a \in Answers /\ a.late /\ a.item = b.item /\ a.ok = b.ok
  BY <1>1 DEF Answers
<1> QED BY <1>1 DEF Late

LEMMA RequestWork ==
  ASSUME WorkInv, NEW i \in Items, NEW on \in BOOLEAN, Request(i, on)
  PROVE  WorkInv'
<1>1. [item |-> i, on |-> on] \in Jobs /\ [item |-> i, on |-> on].item = i
  BY DEF Jobs
<1>2. TypeOK'
  BY <1>1 DEF WorkInv, TypeOK, Request, links
<1>3. worker \notin {"send", "await", "done"}
  <2>1. worker = "wait" \/ task # NoJob
    BY NoneIsNothing DEF WorkInv, TypeOK
  <2> QED BY <2>1 DEF WorkInv, TaskIsTheJob, Request
<1>4. BusyIsTheJob'
  BY <1>1, NoneIsNothing DEF WorkInv, TypeOK, BusyIsTheJob, Request
<1> QED BY <1>2, <1>3, <1>4 DEF WorkInv, BurstLasts, TaskIsTheJob, Request

LEMMA CarryType ==
  ASSUME TypeOK, task \in Jobs, frames < Burst, Carry
  PROVE  acks' \subseteq Answers /\ device' \in [Items -> BOOLEAN]
<1>1. \A ok \in BOOLEAN :
        [item |-> task.item, ok |-> ok, frame |-> frames + 1, late |-> FALSE] \in Answers
  BY AnswerType DEF TypeOK
<1>2. task.on \in BOOLEAN
  BY DEF Jobs
<1> QED BY <1>1, <1>2 DEF Carry, Answer, CarryOut, TypeOK

LEMMA FinishType == ASSUME TypeOK, Finish PROVE TypeOK'
<1>1. task \in Jobs /\ task.item \in Items /\ task.on \in BOOLEAN
  BY DEF TypeOK, Finish, Jobs
<1>2. /\ Late(acks) \subseteq Answers
      /\ Late(socket) \subseteq {a \in Answers : a.item \in Lamps}
  BY LateType DEF TypeOK
<1>3. status' \in [Items -> {"unknown", "on", "off", "busy", "error"}]
  BY <1>1 DEF TypeOK, Finish
<1> QED BY <1>1, <1>2, <1>3 DEF TypeOK, Finish

LEMMA StepWork == WorkInv /\ [Next]_vars => WorkInv'
<1> SUFFICES ASSUME WorkInv, [Next]_vars PROVE WorkInv'
  OBVIOUS
<1>t. TypeOK
  BY DEF WorkInv
<1>1. ASSUME NEW i \in Items, NEW on \in BOOLEAN, Request(i, on) PROVE WorkInv'
  BY <1>1, RequestWork
<1>2. CASE TakeJob
  <2>1. job \in Jobs /\ 0 < Burst
    BY <1>2, <1>t, ItemsAssumption DEF TakeJob, TypeOK
  <2>2. TypeOK'
    BY <1>2, <1>t, <2>1 DEF TakeJob, TypeOK, asking
  <2> QED BY <1>2, <2>1, <2>2 DEF WorkInv, BurstLasts, TaskIsTheJob, BusyIsTheJob, TakeJob, asking
<1>3. CASE SendFrame
  <2>1. task \in Jobs /\ frames < Burst /\ frames + 1 \in 0 .. Burst
    BY <1>3, <1>t, ItemsAssumption DEF WorkInv, BurstLasts, SendFrame, TypeOK
  <2>2. acks' \subseteq Answers /\ device' \in [Items -> BOOLEAN]
    BY <1>3, <1>t, <2>1, CarryType DEF SendFrame
  <2>3. TypeOK'
    BY <1>3, <1>t, <2>1, <2>2 DEF SendFrame, TypeOK, asking
  <2> QED BY <1>3, <2>3 DEF WorkInv, BurstLasts, TaskIsTheJob, BusyIsTheJob, SendFrame, asking
<1>4. CASE SendFails
  BY <1>4, <1>t DEF SendFails, Return, TypeOK, WorkInv, BurstLasts, TaskIsTheJob,
                    BusyIsTheJob, asking, links
<1>5. CASE ReadMailbox
  BY <1>5, <1>t DEF ReadMailbox, Mine, Return, TypeOK, WorkInv, BurstLasts,
                    TaskIsTheJob, BusyIsTheJob, asking, Answers
<1>6. ASSUME NEW a \in socket, ReadSocket(a) PROVE WorkInv'
  <2>1. a.ok \in BOOLEAN /\ a.late \in BOOLEAN
    BY <1>t DEF TypeOK, Answers
  <2> DEFINE good == a.item = task.item /\ a.ok
  <2>2. /\ worker = "await" /\ socket' = socket \ {a}
        /\ \/ good /\ Return(TRUE)
           \/ ~good /\ UNCHANGED <<worker, success>>
        /\ misled' \in BOOLEAN
        /\ UNCHANGED <<asking, task, frames, mailbox, acks, device>>
    BY <1>6, <1>t DEF ReadSocket, TypeOK
  <2> HIDE DEF good
  <2>3. TypeOK'
    BY <1>t, <2>2 DEF TypeOK, Return, asking
  <2> QED BY <2>2, <2>3 DEF WorkInv, BurstLasts, TaskIsTheJob, BusyIsTheJob, Return, asking
<1>7. CASE TimeOut
  BY <1>7, <1>t DEF TimeOut, Return, TypeOK, WorkInv, BurstLasts, TaskIsTheJob,
                    BusyIsTheJob, asking, links
<1>8. CASE Finish
  <2>1. TypeOK'
    BY <1>8, <1>t, FinishType
  <2>2. job = task /\ task.item \in Items
    BY <1>8, <1>t DEF Finish, WorkInv, TaskIsTheJob, TypeOK, Jobs
  <2>3. \A i \in Items : i # task.item => status'[i] = status[i] /\ status[i] # "busy"
    <3>1. \A i \in Items : i # task.item => status'[i] = status[i]
      BY <1>8, <1>t DEF Finish, TypeOK
    <3>2. \A i \in Items : i # task.item => status[i] # "busy"
      BY <2>2 DEF WorkInv, BusyIsTheJob
    <3> QED BY <3>1, <3>2
  <2>4. status'[task.item] # "busy"
    BY <1>8, <1>t, <2>2 DEF Finish, TypeOK
  <2>5. BusyIsTheJob'
    BY <1>8, <2>3, <2>4 DEF Finish, BusyIsTheJob
  <2> QED BY <1>8, <2>1, <2>5 DEF Finish, WorkInv, BurstLasts, TaskIsTheJob
<1>9. CASE Report
  <2>1. 0 \in 0 .. Burst
    BY ItemsAssumption
  <2>2. TypeOK'
    BY <1>9, <1>t, <2>1 DEF Report, TypeOK, asking, links
  <2> QED BY <1>9, <2>2 DEF Report, WorkInv, BurstLasts, TaskIsTheJob, BusyIsTheJob, asking
<1>10. ASSUME NEW a \in acks, OnPayloadAck(a) \/ LampAnswers(a) \/ LoseAnswer(a)
       PROVE  WorkInv'
  <2>1. TypeOK'
    BY <1>10, <1>t DEF OnPayloadAck, LampAnswers, LoseAnswer, TypeOK, asking
  <2> QED BY <1>10, <2>1 DEF OnPayloadAck, LampAnswers, LoseAnswer, WorkInv, BurstLasts,
                    TaskIsTheJob, BusyIsTheJob, asking
<1>11. CASE UNCHANGED vars
  BY <1>11, <1>t DEF vars, asking, links, TypeOK, WorkInv, BurstLasts, TaskIsTheJob,
                    BusyIsTheJob
<1> QED BY <1>1, <1>2, <1>3, <1>4, <1>5, <1>6, <1>7, <1>8, <1>9, <1>10, <1>11
        DEF Next, Worker, SendAndWait, Network

(***************************************************************************)
(* The variables of PayloadSwitch keep their types: no burst is longer     *)
(* than Burst, and the worker holds a job exactly while it is at work.     *)
(***************************************************************************)
THEOREM TypeCorrect == Spec => []TypeOK
<1>1. WorkInv => TypeOK
  BY DEF WorkInv
<1> QED BY <1>1, InitWork, StepWork, PTL DEF Spec

(***************************************************************************)
(* A load is busy exactly while the job is its own, whatever the links do. *)
(***************************************************************************)
THEOREM NoLoadStaysBusy == Spec => []BusyIsTheJob
<1>1. WorkInv => BusyIsTheJob
  BY DEF WorkInv
<1> QED BY <1>1, InitWork, StepWork, PTL DEF Spec

-------------------------------------------------------------------------------
(***************************************************************************)
(* A good answer that is not late belongs to the job the worker is at, and *)
(* the load does already what the job asks for.                            *)
(***************************************************************************)
Carried ==
  worker \in {"send", "await", "done"} /\ device[task.item] = task.on

FreshAnswersAreTrue ==
  \A a \in acks \cup socket \cup ({mailbox} \ {NoAnswer}) :
    a.ok /\ ~a.late => a.item = task.item /\ Carried

SuccessIsTrue == ~misled /\ worker = "done" /\ success => device[task.item] = task.on

TruthInv ==
  WorkInv /\ FreshAnswersAreTrue /\ SuccessIsTrue /\ OnlyLateAnswersMislead

LEMMA InitTruth == Init => TruthInv
<1> SUFFICES ASSUME Init PROVE TruthInv
  OBVIOUS
<1>1. WorkInv
  BY InitWork
<1> QED BY <1>1 DEF Init, TruthInv, FreshAnswersAreTrue, SuccessIsTrue, OnlyLateAnswersMislead,
                    StatusIsTrue

(***************************************************************************)
(* While a job is under way nothing is claimed of its load.                *)
(***************************************************************************)
LEMMA CarryTruth == ASSUME TruthInv, SendFrame PROVE TruthInv'
<1>1. WorkInv'
  BY StepWork DEF TruthInv, Next, Worker, SendAndWait
<1>2. /\ task \in Jobs /\ task.item \in Items /\ task.on \in BOOLEAN
      /\ device \in [Items -> BOOLEAN]
      /\ job = task /\ status[task.item] = "busy" /\ task' = task
  <2>1. task \in Jobs /\ job = task
    BY DEF TruthInv, WorkInv, TypeOK, TaskIsTheJob, SendFrame
  <2> QED BY <2>1, NoneIsNothing
          DEF TruthInv, WorkInv, TypeOK, BusyIsTheJob, SendFrame, Jobs
<1>3. device' = device \/ CarryOut
  BY DEF SendFrame, Carry
<1>4. \A i \in Items : i # task.item => device'[i] = device[i]
  BY <1>2, <1>3 DEF CarryOut
<1>5. device[task.item] = task.on => device'[task.item] = task.on
  BY <1>2, <1>3 DEF CarryOut
<1>6. ASSUME NEW a \in acks' \ acks, a.ok
      PROVE  a.item = task.item /\ device'[task.item] = task.on
  <2>1. Answer(TRUE) /\ CarryOut
    BY <1>6 DEF SendFrame, Carry, Answer
  <2> QED BY <1>2, <1>6, <2>1 DEF Answer, CarryOut
<1>7. FreshAnswersAreTrue'
  BY <1>2, <1>5, <1>6 DEF TruthInv, FreshAnswersAreTrue, Carried, SendFrame
<1>8. OnlyLateAnswersMislead'
  BY <1>2, <1>4 DEF TruthInv, OnlyLateAnswersMislead, StatusIsTrue, SendFrame, asking
<1> QED BY <1>1, <1>7, <1>8 DEF TruthInv, SuccessIsTrue, SendFrame

LEMMA FinishTruth == ASSUME TruthInv, Finish PROVE TruthInv'
<1>1. WorkInv'
  BY StepWork DEF TruthInv, Next, Worker
<1>2. \A a \in acks' \cup socket' : a.late
  BY LateType DEF TruthInv, WorkInv, TypeOK, Finish
<1>3. FreshAnswersAreTrue'
  BY <1>2 DEF FreshAnswersAreTrue, Finish
<1>4. task \in Jobs /\ task.item \in Items /\ task.on \in BOOLEAN
  BY DEF TruthInv, WorkInv, TypeOK, Finish, Jobs
<1>5. ASSUME ~misled', NEW i \in Items
      PROVE  (status'[i] = "on" => device'[i]) /\ (status'[i] = "off" => ~device'[i])
  <2>1. ~misled /\ device' = device
    BY <1>5 DEF Finish
  <2>2. CASE i # task.item
    <3>1. status'[i] = status[i]
      BY <2>2, <1>4 DEF Finish, TruthInv, WorkInv, TypeOK
    <3> QED BY <3>1, <2>1 DEF TruthInv, OnlyLateAnswersMislead, StatusIsTrue
  <2>3. CASE i = task.item
    <3>1. status'[i] = IF ~success THEN "error" ELSE IF task.on THEN "on" ELSE "off"
      BY <2>3, <1>4 DEF Finish, TruthInv, WorkInv, TypeOK
    <3>2. success => device[i] = task.on
      BY <2>1, <2>3 DEF Finish, TruthInv, SuccessIsTrue
    <3> QED BY <3>1, <3>2, <2>1, <1>4
  <2> QED BY <2>2, <2>3
<1>6. OnlyLateAnswersMislead'
  BY <1>5 DEF OnlyLateAnswersMislead, StatusIsTrue
<1> QED BY <1>1, <1>3, <1>6 DEF TruthInv, SuccessIsTrue, Finish

LEMMA StepTruth == TruthInv /\ [Next]_vars => TruthInv'
<1> SUFFICES ASSUME TruthInv, [Next]_vars PROVE TruthInv'
  OBVIOUS
<1>w. WorkInv'
  BY StepWork DEF TruthInv
<1>n. NoAnswer \notin Answers /\ TypeOK
  BY NoneIsNothing DEF TruthInv, WorkInv
<1> USE DEF TruthInv, FreshAnswersAreTrue, Carried, SuccessIsTrue
<1>1. ASSUME NEW i \in Items, NEW on \in BOOLEAN, Request(i, on) PROVE TruthInv'
  <2>1. OnlyLateAnswersMislead'
    BY <1>1, <1>n DEF Request, OnlyLateAnswersMislead, StatusIsTrue, links, TypeOK
  <2> QED BY <1>1, <1>w, <2>1 DEF Request, links
<1>2. CASE TakeJob
  <2>1. OnlyLateAnswersMislead'
    BY <1>2 DEF TakeJob, OnlyLateAnswersMislead, StatusIsTrue, asking
  <2> QED BY <1>2, <1>w, <2>1 DEF TakeJob, asking
<1>3. CASE SendFrame
  BY <1>3, CarryTruth
<1>4. CASE SendFails \/ TimeOut
  <2>1. OnlyLateAnswersMislead'
    BY <1>4 DEF SendFails, TimeOut, OnlyLateAnswersMislead, StatusIsTrue, asking, links
  <2> QED BY <1>4, <1>w, <2>1 DEF SendFails, TimeOut, Return, asking, links
<1>5. CASE ReadMailbox
  <2>1. OnlyLateAnswersMislead'
    BY <1>5 DEF ReadMailbox, OnlyLateAnswersMislead, StatusIsTrue, asking
  <2>2. FreshAnswersAreTrue'
    BY <1>5 DEF ReadMailbox, Return, asking
  <2>3. SuccessIsTrue'
    BY <1>5 DEF ReadMailbox, Return, Mine, asking
  <2> QED BY <1>w, <2>1, <2>2, <2>3
<1>6. ASSUME NEW a \in socket, ReadSocket(a) PROVE TruthInv'
  <2>1. OnlyLateAnswersMislead'
    BY <1>6 DEF ReadSocket, OnlyLateAnswersMislead, StatusIsTrue, asking
  <2>2. FreshAnswersAreTrue'
    BY <1>6 DEF ReadSocket, Return, asking
  <2>3. SuccessIsTrue'
    BY <1>6 DEF ReadSocket, Return, asking
  <2> QED BY <1>w, <2>1, <2>2, <2>3
<1>7. CASE Finish
  BY <1>7, FinishTruth
<1>8. CASE Report
  <2>1. OnlyLateAnswersMislead'
    BY <1>8 DEF Report, OnlyLateAnswersMislead, StatusIsTrue, asking, links
  <2>2. FreshAnswersAreTrue'
    BY <1>8 DEF Report, links
  <2> QED BY <1>8, <1>w, <2>1, <2>2 DEF Report
<1>9. ASSUME NEW a \in acks, OnPayloadAck(a) \/ LampAnswers(a) \/ LoseAnswer(a)
      PROVE  TruthInv'
  <2>1. OnlyLateAnswersMislead'
    BY <1>9 DEF OnPayloadAck, LampAnswers, LoseAnswer, OnlyLateAnswersMislead, StatusIsTrue, asking
  <2> QED BY <1>9, <1>w, <2>1 DEF OnPayloadAck, LampAnswers, LoseAnswer, asking
<1>10. CASE UNCHANGED vars
  <2>1. OnlyLateAnswersMislead'
    BY <1>10 DEF vars, asking, links, OnlyLateAnswersMislead, StatusIsTrue
  <2> QED BY <1>10, <1>w, <2>1 DEF vars, asking, links
<1> QED BY <1>1, <1>2, <1>3, <1>4, <1>5, <1>6, <1>7, <1>8, <1>9, <1>10
        DEF Next, Worker, SendAndWait, Network

(***************************************************************************)
(* Loss, refusals and surplus frames never make the shown status lie; only *)
(* an answer that outlives its job does.                                   *)
(***************************************************************************)
THEOREM OnlyLatenessMisleads == Spec => []OnlyLateAnswersMislead
<1>1. TruthInv => OnlyLateAnswersMislead
  BY DEF TruthInv
<1> QED BY <1>1, InitTruth, StepTruth, PTL DEF Spec
===============================================================================
