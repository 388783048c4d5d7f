------------------------------- MODULE Payload -------------------------------
(***************************************************************************)
(* PayloadSwitch (rk3588/src/payload_switch.cpp): switching the lamp, the  *)
(* pump and other loads with a burst of frames over links that lose,       *)
(* refuse and delay.  One job at a time; a worker sends it up to Burst     *)
(* times and waits for an acknowledgement after each frame.                *)
(*                                                                         *)
(* The lamp board answers to the worker's own socket.  The other loads     *)
(* answer to the gas port, whose receive thread leaves the last answer in  *)
(* a one-place mailbox.  The loads and the links are external: what they   *)
(* may do is modelled from what the code provides for.                     *)
(***************************************************************************)
EXTENDS Naturals, FiniteSets

CONSTANTS
  Items,    \* the loads
  Lamps,    \* those behind the lamp board (via_light)
  Burst,    \* kBurst: frames sent before a job is given up
  NoJob,    \* have_job_ = false
  NoAnswer, \* have_ack_ = false
  Capacity  \* bound: answers under way or unread, further ones are lost

ASSUME ItemsAssumption ==
  /\ Lamps \subseteq Items
  /\ Burst \in Nat \ {0}
  /\ Capacity \in Nat

VARIABLES
  status,   \* items_[].status
  job,      \* have_job_, job_key_ and job_on_
  worker,   \* where Worker is
  task,     \* its own copy of the job
  frames,   \* frames of the burst sent so far
  success,  \* what SendAndWait returned
  mailbox,  \* have_ack_ and last_ack_
  socket,   \* answers in the receive buffer of the lamp socket
  acks,     \* answers under way
  device,   \* what each load really does
  misled    \* history: an answer to an earlier job was taken for this one's

asking == <<status, job>>
links == <<mailbox, socket, acks, device>>
vars == <<asking, worker, task, frames, success, links, misled>>

Jobs == [item : Items, on : BOOLEAN]

(***************************************************************************)
(* An answer names the load and says whether the frame was accepted; the   *)
(* state it carries as well is parsed but never looked at.  Which frame of *)
(* the burst it answers, and that its job is over, is not on the wire.     *)
(***************************************************************************)
Answers == [item : Items, ok : BOOLEAN, frame : 1 .. Burst, late : BOOLEAN]

ASSUME NothingAssumption == NoAnswer \notin Answers /\ NoJob \notin Jobs

TypeOK ==
  /\ status \in [Items -> {"unknown", "on", "off", "busy", "error"}]
  /\ job \in Jobs \cup {NoJob}
  /\ worker \in {"wait", "send", "await", "done", "report"}
  /\ task \in IF worker = "wait" THEN {NoJob} ELSE Jobs
  /\ frames \in 0 .. Burst
  /\ success \in BOOLEAN
  /\ mailbox \in Answers \cup {NoAnswer}
  /\ socket \subseteq {a \in Answers : a.item \in Lamps}
  /\ acks \subseteq Answers
  /\ device \in [Items -> BOOLEAN]
  /\ misled \in BOOLEAN

Init ==
  /\ status = [i \in Items |-> "unknown"]
  /\ job = NoJob
  /\ worker = "wait"
  /\ task = NoJob
  /\ frames = 0
  /\ success = FALSE
  /\ mailbox = NoAnswer
  /\ socket = {}
  /\ acks = {}
  /\ device = [i \in Items |-> FALSE]
  /\ misled = FALSE

-------------------------------------------------------------------------------
(***************************************************************************)
(* Request: refused while a job is under way.                              *)
(***************************************************************************)
Request(i, on) ==
  /\ job = NoJob /\ status[i] # "busy"
  /\ status' = [status EXCEPT ![i] = "busy"]
  /\ job' = [item |-> i, on |-> on]
  /\ UNCHANGED <<worker, task, frames, success, links, misled>>

(***************************************************************************)
(* Mutant: the worker goes on whenever it is woken.                        *)
(***************************************************************************)
TakeJobUnasked ==
  /\ worker = "wait"
  /\ worker' = "send"
  /\ task' = job
  /\ mailbox' = NoAnswer
  /\ UNCHANGED <<asking, frames, success, socket, acks, device, misled>>

(***************************************************************************)
(* The worker takes the job and empties the mailbox, but not the socket.   *)
(***************************************************************************)
TakeJob ==
  /\ worker = "wait" /\ job # NoJob
  /\ worker' = "send"
  /\ task' = job
  /\ mailbox' = NoAnswer
  /\ UNCHANGED <<asking, frames, success, socket, acks, device, misled>>

Return(ok) == worker' = "done" /\ success' = ok

(***************************************************************************)
(* What becomes of a frame: lost, refused, or carried out; an answer is    *)
(* under way unless it is lost at once.                                    *)
(***************************************************************************)
Answer(ok) ==
  /\ Cardinality(acks \cup socket) < Capacity
  /\ acks' = acks \cup {[item |-> task.item, ok |-> ok, frame |-> frames + 1,
                         late |-> FALSE]}

CarryOut == device' = [device EXCEPT ![task.item] = task.on]

Carry ==
  \/ UNCHANGED <<acks, device>>
  \/ Answer(FALSE) /\ UNCHANGED device
  \/ Answer(TRUE) /\ CarryOut
  \/ UNCHANGED acks /\ CarryOut

SendFrame ==
  /\ worker = "send"
  /\ frames' = frames + 1
  /\ worker' = "await"
  /\ Carry
  /\ UNCHANGED <<asking, task, success, mailbox, socket, misled>>

(***************************************************************************)
(* Sending fails, or the address of the payload board is not known.        *)
(***************************************************************************)
SendFails ==
  /\ worker = "send"
  /\ Return(FALSE)
  /\ UNCHANGED <<asking, task, frames, links, misled>>

(***************************************************************************)
(* WaitPayloadAck: an answer for this load ends the wait if it is good;    *)
(* a refusal is noted and the wait goes on.                                *)
(***************************************************************************)
Mine == mailbox # NoAnswer /\ mailbox.item = task.item

(***************************************************************************)
(* Mutant: a refusal is taken for success.                                 *)
(***************************************************************************)
ReadMailboxRefusal ==
  /\ worker = "await" /\ task.item \notin Lamps
  /\ Mine
  /\ Return(TRUE)
  /\ misled' = (misled \/ (mailbox.ok /\ mailbox.late))
  /\ UNCHANGED <<asking, task, frames, links>>

ReadMailbox ==
  /\ worker = "await" /\ task.item \notin Lamps
  /\ Mine
  /\ mailbox' = IF mailbox.ok THEN mailbox ELSE NoAnswer
  /\ \/ mailbox.ok /\ Return(TRUE)
     \/ ~mailbox.ok /\ UNCHANGED <<worker, success>>
  /\ misled' = (misled \/ (mailbox.ok /\ mailbox.late))
  /\ UNCHANGED <<asking, task, frames, socket, acks, device>>

(***************************************************************************)
(* light_.Recv: datagrams for another load and refusals are dropped.       *)
(***************************************************************************)
ReadSocket(a) ==
  /\ worker = "await" /\ task.item \in Lamps
  /\ a \in socket
  /\ socket' = socket \ {a}
  /\ LET good == a.item = task.item /\ a.ok
     IN  /\ \/ good /\ Return(TRUE)
            \/ ~good /\ UNCHANGED <<worker, success>>
         /\ misled' = (misled \/ (good /\ a.late))
  /\ UNCHANGED <<asking, task, frames, mailbox, acks, device>>

(***************************************************************************)
(* Mutant: after the last frame the worker waits for ever.                 *)
(***************************************************************************)
TimeOutButLast ==
  /\ worker = "await"
  /\ task.item \in Lamps \/ ~Mine
  /\ frames < Burst
  /\ worker' = "send"
  /\ UNCHANGED <<asking, task, frames, success, links, misled>>

(***************************************************************************)
(* The wait is over: the next frame, or none is left.                      *)
(***************************************************************************)
TimeOut ==
  /\ worker = "await"
  /\ task.item \in Lamps \/ ~Mine
  /\ \/ frames < Burst /\ worker' = "send" /\ UNCHANGED success
     \/ frames = Burst /\ Return(FALSE)
  /\ UNCHANGED <<asking, task, frames, links, misled>>

(***************************************************************************)
(* Every answer that is still about has missed its job from now on.  What  *)
(* is left in the mailbox will be thrown away by TakeJob unread.           *)
(***************************************************************************)
Late(set) == {[a EXCEPT !.late = TRUE] : a \in set}

(***************************************************************************)
(* Mutant: the job is kept.                                                *)
(***************************************************************************)
FinishKeepingJob ==
  /\ worker = "done"
  /\ worker' = "report"
  /\ status' = [status EXCEPT ![task.item] =
                  IF ~success THEN "error" ELSE IF task.on THEN "on" ELSE "off"]
  /\ mailbox' = NoAnswer
  /\ socket' = Late(socket)
  /\ acks' = Late(acks)
  /\ UNCHANGED <<job, task, frames, success, device, misled>>

Finish ==
  /\ worker = "done"
  /\ worker' = "report"
  /\ status' = [status EXCEPT ![task.item] =
                  IF ~success THEN "error" ELSE IF task.on THEN "on" ELSE "off"]
  /\ job' = NoJob
  /\ mailbox' = NoAnswer
  /\ socket' = Late(socket)
  /\ acks' = Late(acks)
  /\ UNCHANGED <<task, frames, success, device, misled>>

(***************************************************************************)
(* on_result_: the broadcast of switch_result.                             *)
(***************************************************************************)
Report ==
  /\ worker = "report"
  /\ worker' = "wait"
  /\ task' = NoJob
  /\ frames' = 0
  /\ success' = FALSE
  /\ UNCHANGED <<asking, links, misled>>

-------------------------------------------------------------------------------
(***************************************************************************)
(* An answer reaches the mailbox (OnPayloadAck, which overwrites) or the   *)
(* lamp socket, or is lost on the way.                                     *)
(***************************************************************************)
OnPayloadAck(a) ==
  /\ a \in acks /\ a.item \notin Lamps
  /\ acks' = acks \ {a}
  /\ mailbox' = a
  /\ UNCHANGED <<asking, worker, task, frames, success, socket, device, misled>>

LampAnswers(a) ==
  /\ a \in acks /\ a.item \in Lamps
  /\ acks' = acks \ {a}
  /\ socket' = socket \cup {a}
  /\ UNCHANGED <<asking, worker, task, frames, success, mailbox, device, misled>>

LoseAnswer(a) ==
  /\ a \in acks
  /\ acks' = acks \ {a}
  /\ UNCHANGED <<asking, worker, task, frames, success, mailbox, socket, device,
                 misled>>

SendAndWait ==
  \/ SendFrame
  \/ SendFails
  \/ ReadMailbox
  \/ \E a \in socket : ReadSocket(a)
  \/ TimeOut

Worker ==
  \/ TakeJob
  \/ SendAndWait
  \/ Finish
  \/ Report

Network == \E a \in acks : OnPayloadAck(a) \/ LampAnswers(a) \/ LoseAnswer(a)

Next ==
  \/ \E i \in Items, on \in BOOLEAN : Request(i, on)
  \/ Worker
  \/ Network

Spec == Init /\ [][Next]_vars

(***************************************************************************)
(* Each wait of the worker has a deadline.                                 *)
(***************************************************************************)
FairSpec == Spec /\ WF_vars(Worker)

-------------------------------------------------------------------------------
(***************************************************************************)
(* A load is shown busy exactly while the one job is its own: whatever is  *)
(* lost, refused or late, no load stays busy without a job, and no second  *)
(* load is busy.                                                           *)
(***************************************************************************)
BusyIsTheJob == \A i \in Items : status[i] = "busy" <=> job # NoJob /\ job.item = i

(***************************************************************************)
(* Each accepted request is answered with a switch_result of its own, even *)
(* when the next one is accepted before the broadcast.                     *)
(***************************************************************************)
EveryJobIsReported ==
  \A i \in Items, on \in BOOLEAN :
    job = [item |-> i, on |-> on]
      ~> worker = "report" /\ task = [item |-> i, on |-> on]

(***************************************************************************)
(* The status that is shown is what the load does, as err and state in     *)
(* payload_switch.hpp say.                                                 *)
(***************************************************************************)
StatusIsTrue ==
  \A i \in Items : /\ status[i] = "on" => device[i]
                   /\ status[i] = "off" => ~device[i]

(***************************************************************************)
(* Loss, refusals and repeated frames alone never make the status lie: for *)
(* that, an answer to an earlier job must have been taken for this one's.  *)
(***************************************************************************)
OnlyLateAnswersMislead == ~misled => StatusIsTrue

===============================================================================
