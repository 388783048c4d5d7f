------------------------------- MODULE GaitMenu --------------------------------
(***************************************************************************)
(* The gait menu of a console page that drives over MESH (web/app.js).     *)
(*                                                                         *)
(* A switch takes seconds, so the menu shows the chosen gait at once and   *)
(* is corrected by the gateway's gait_result, and by telemetry, of which   *)
(* only a change counts: a robot that keeps reporting the same gait says   *)
(* nothing new.  The gateway carries out one switch at a time, keeps a     *)
(* gait chosen before the march for later, and answers the client that     *)
(* asked.  Gait.tla models its coordinator in detail; here it is what the  *)
(* page sees of it.  The robot's telemetry reaches the gateway.            *)
(***************************************************************************)
EXTENDS Integers, Sequences, SequencesExt, Functions

CONSTANTS
  Gaits,      \* buttons of the menu
  Cycle,      \* GAIT_CYCLE, the gaits the keys of the pad run through
  Walk,       \* what app.gait holds when the page is opened
  Opening,    \* gaits the dog may be in then
  NoGait,
  MaxChoices, \* bound: buttons and keys pressed
  MaxOrders,  \* bound: messages on the socket, both directions together
  MaxLosses   \* bound: times the socket is lost

ASSUME GaitMenuAssumption ==
  /\ NoGait \notin Gaits /\ Walk \in Gaits /\ Opening \subseteq Gaits
  /\ Cycle \in Seq(Gaits) /\ Len(Cycle) > 1
  /\ {MaxChoices, MaxOrders, MaxLosses} \subseteq Nat

VARIABLES
  menu,       \* app.gait
  gaitPending,
  gaitBefore,
  gaitSeen,   \* meshGaitSeen
  timers,     \* 9 s timers that are running
  open,       \* the socket; the page holds control while it is open
  orders,     \* to the gateway
  answers,    \* to the page
  dogGait,
  job,        \* the switch GaitCoordinator is busy with
  sent,       \* a gait the dog has been told and may still take
  wish,       \* the gait kept for the march
  marching,
  astray,     \* history: something the menu never hears of has happened
  choices, losses

menuVars == <<menu, gaitPending, gaitBefore, gaitSeen, timers>>
dogSide == <<dogGait, job, sent, wish, marching>>
gaitMenuVars == <<menuVars, open, orders, answers, dogSide, astray, choices,
                  losses>>

Maybe == Gaits \cup {NoGait}
Results == [t : {"gait_result"}, gait_key : Gaits, ok : BOOLEAN]
Telemetry == [t : {"state"}, gait_key : Gaits]
Jobs == [gait : Gaits, asker : BOOLEAN, told : BOOLEAN]

ASSUME NoJobAssumption == NoGait \notin Jobs

GaitMenuTypeOK ==
  /\ menu \in Gaits /\ dogGait \in Gaits
  /\ {gaitBefore, gaitSeen, sent} \subseteq Maybe
  /\ {gaitPending, open, marching, astray} \subseteq BOOLEAN
  /\ orders \in Seq(Gaits) /\ answers \in Seq(Results \cup Telemetry)
  /\ Len(orders) + Len(answers) <= MaxOrders
  /\ {job, wish} \subseteq Jobs \cup {NoGait}
  /\ choices \in 0..MaxChoices /\ losses \in 0..MaxLosses
  /\ timers \in 0..MaxChoices

GaitMenuInit ==
  /\ menu = Walk /\ dogGait \in Opening /\ astray = FALSE
  /\ gaitBefore = NoGait /\ gaitSeen = NoGait /\ sent = NoGait
  /\ job = NoGait /\ wish = NoGait /\ marching = FALSE
  /\ gaitPending = FALSE /\ timers = 0 /\ choices = 0 /\ losses = 0
  /\ open = TRUE /\ orders = <<>> /\ answers = <<>>

-------------------------------------------------------------------------------
(***************************************************************************)
(* The page.  A button remembers the gait before it; a key of the pad does *)
(* not, and does not block the next choice.                                *)
(***************************************************************************)
Free == Len(orders) + Len(answers) < MaxOrders

Chooses(g) ==
  /\ open /\ ~gaitPending /\ Free /\ choices < MaxChoices
  /\ choices' = choices + 1
  /\ menu' = g
  /\ orders' = Append(orders, g)
  /\ UNCHANGED <<gaitSeen, open, answers, dogSide, astray, losses>>

ClickGait(g) ==
  /\ Chooses(g)
  /\ gaitBefore' = menu /\ gaitPending' = TRUE /\ timers' = timers + 1

nextGait(delta) ==
  IF menu \in Range(Cycle)
    THEN LET i == CHOOSE k \in DOMAIN Cycle : Cycle[k] = menu
         IN  Cycle[((i - 1 + delta) % Len(Cycle)) + 1]
    ELSE IF delta > 0 THEN Head(Cycle) ELSE Last(Cycle)

GaitKey(delta) ==
  /\ Chooses(nextGait(delta))
  /\ UNCHANGED <<gaitBefore, gaitPending, timers>>

(***************************************************************************)
(* The timer ends whatever wait there is when it fires.                    *)
(***************************************************************************)
PendingTimer ==
  /\ timers > 0
  /\ timers' = timers - 1
  /\ gaitPending' = FALSE
  /\ UNCHANGED <<menu, gaitBefore, gaitSeen, open, orders, answers, dogSide,
                 astray, choices, losses>>

Hears(t) ==
  /\ answers # <<>> /\ Head(answers).t = t
  /\ answers' = Tail(answers)
  /\ UNCHANGED <<timers, open, orders, dogSide, choices, losses>>

(***************************************************************************)
(* Mutant: a failure is reported, and the menu stays.                      *)
(***************************************************************************)
onGaitResultKept ==
  /\ Hears("gait_result")
  /\ gaitPending' = FALSE
  /\ menu' = IF Head(answers).ok THEN Head(answers).gait_key ELSE menu
  /\ UNCHANGED <<gaitBefore, gaitSeen, astray>>

(***************************************************************************)
(* A failure puts back the gait before the last button, which is wrong if  *)
(* that is not where the dog is: then nothing corrects the menu.           *)
(***************************************************************************)
onGaitResult ==
  /\ Hears("gait_result")
  /\ gaitPending' = FALSE
  /\ menu' = IF Head(answers).ok THEN Head(answers).gait_key
             ELSE IF gaitBefore # NoGait THEN gaitBefore ELSE menu
  /\ astray' = (astray \/ (~Head(answers).ok /\ menu' # dogGait))
  /\ UNCHANGED <<gaitBefore, gaitSeen>>

(***************************************************************************)
(* renderState, adoptGaitTelem: the first reading is taken for a default   *)
(* if the menu says something else, even if nobody has chosen anything.    *)
(***************************************************************************)
adoptGaitTelem ==
  /\ Hears("state")
  /\ LET key == Head(answers).gait_key
     IN  /\ gaitSeen' = key
         /\ menu' = IF key = gaitSeen \/ (gaitSeen = NoGait /\ menu # key)
                      THEN menu ELSE key
         /\ astray' = (astray \/ (gaitSeen = NoGait /\ menu # key))
  /\ UNCHANGED <<gaitPending, gaitBefore>>

-------------------------------------------------------------------------------
(***************************************************************************)
(* The gateway refuses a second switch (busy); otherwise the switch ends   *)
(* kept for the march, refused, done, or failed, with the dog told or not. *)
(***************************************************************************)
Answer(asker, g, ok) ==
  IF asker /\ open
    THEN Append(answers, [t |-> "gait_result", gait_key |-> g, ok |-> ok])
    ELSE answers

TakeOrder ==
  /\ orders # <<>>
  /\ orders' = Tail(orders)
  /\ IF job = NoGait
       THEN /\ job' = [gait |-> Head(orders), asker |-> TRUE, told |-> FALSE]
            /\ UNCHANGED answers
       ELSE /\ answers' = Answer(TRUE, Head(orders), FALSE)
            /\ UNCHANGED job
  /\ UNCHANGED <<menuVars, open, dogGait, sent, wish, marching, astray,
                 choices, losses>>

Finish(ok) ==
  /\ Free
  /\ answers' = Answer(job.asker, job.gait, ok)
  /\ job' = NoGait
  /\ UNCHANGED <<menuVars, open, orders, dogGait, marching, choices, losses>>

KeepForMarch ==
  /\ job # NoGait /\ ~marching /\ ~job.told
  /\ Finish(TRUE)
  /\ wish' = job
  /\ UNCHANGED <<sent, astray>>

SendGait ==
  /\ job # NoGait /\ marching /\ ~job.told
  /\ sent' = job.gait /\ job' = [job EXCEPT !.told = TRUE]
  /\ UNCHANGED <<menuVars, open, orders, answers, dogGait, wish, marching, astray,
                 choices, losses>>

FinishSwitch ==
  /\ job # NoGait
  /\ \/ Finish(FALSE)
     \/ job.told /\ dogGait = job.gait /\ Finish(TRUE)
  /\ wish' = NoGait
  /\ UNCHANGED <<sent, astray>>

(***************************************************************************)
(* The dog takes the gait, or never does; its own handset changes it too.  *)
(* It keeps a gait long enough to be reported, ten times a second.         *)
(***************************************************************************)
Reported == open => gaitSeen = dogGait

DogTakes ==
  /\ sent # NoGait /\ Reported
  /\ dogGait' \in {sent, dogGait}
  /\ sent' = NoGait
  /\ UNCHANGED <<menuVars, open, orders, answers, job, wish, marching, astray,
                 choices, losses>>

HandsetGait(g) ==
  /\ job = NoGait /\ sent = NoGait /\ wish = NoGait /\ orders = <<>>
  /\ Reported /\ choices < MaxChoices /\ choices' = choices + 1
  /\ dogGait' = g
  /\ UNCHANGED <<menuVars, open, orders, answers, job, sent, wish, marching,
                 astray, losses>>

(***************************************************************************)
(* The march: step on asks for the gait that was kept.  Standing up, lying *)
(* down and the emergency stop forget it (ClearQueued), and the menu goes  *)
(* on showing it.                                                          *)
(***************************************************************************)
StepOn ==
  /\ ~marching /\ marching' = TRUE
  /\ IF wish # NoGait /\ job = NoGait
       THEN job' = wish /\ wish' = NoGait
       ELSE UNCHANGED <<job, wish>>
  /\ UNCHANGED <<menuVars, open, orders, answers, dogGait, sent, astray,
                 choices, losses>>

ClearQueued ==
  /\ choices < MaxChoices /\ choices' = choices + 1
  /\ wish' = NoGait /\ marching' = FALSE
  /\ astray' = (astray \/ (wish # NoGait /\ wish.gait # dogGait))
  /\ UNCHANGED <<menuVars, open, orders, answers, dogGait, job, sent, losses>>

(***************************************************************************)
(* StateLoop reports the gait; a report that repeats the last one is left  *)
(* out.                                                                    *)
(***************************************************************************)
Reading == [t |-> "state", gait_key |-> dogGait]

ReportGait ==
  /\ open /\ Free
  /\ Reading \notin Range(answers)
  /\ gaitSeen # dogGait \/ answers # <<>>
  /\ answers' = Append(answers, Reading)
  /\ UNCHANGED <<menuVars, open, orders, dogSide, astray, choices, losses>>

(***************************************************************************)
(* The socket is lost and opened again under another client id: what was   *)
(* on it is gone, and the gateway answers nobody.  The menu keeps what it  *)
(* shows.                                                                  *)
(***************************************************************************)
Orphan(j) == IF j = NoGait THEN NoGait ELSE [j EXCEPT !.asker = FALSE]

LoseSocket ==
  /\ open /\ losses < MaxLosses
  /\ losses' = losses + 1
  /\ open' = FALSE /\ orders' = <<>> /\ answers' = <<>>
  /\ job' = Orphan(job) /\ wish' = Orphan(wish)
  /\ astray' = (astray \/ orders # <<>> \/ job # NoGait \/ wish # NoGait
                       \/ gaitSeen # dogGait
                       \/ \E a \in Range(answers) : a.t = "gait_result")
  /\ UNCHANGED <<menuVars, dogGait, sent, marching, choices>>

OpenSocket ==
  /\ ~open /\ open' = TRUE
  /\ UNCHANGED <<menuVars, orders, answers, dogSide, astray, choices, losses>>

-------------------------------------------------------------------------------
GaitMenuNext ==
  \/ \E g \in Gaits : ClickGait(g) \/ HandsetGait(g)
  \/ \E delta \in {-1, 1} : GaitKey(delta)
  \/ PendingTimer \/ onGaitResult \/ adoptGaitTelem
  \/ TakeOrder \/ KeepForMarch \/ SendGait \/ FinishSwitch \/ DogTakes
  \/ StepOn \/ ClearQueued \/ ReportGait
  \/ LoseSocket \/ OpenSocket

(***************************************************************************)
(* Timers fire, messages arrive, the coordinator finishes what it is busy  *)
(* with, the dog answers or does not, telemetry goes on.                   *)
(***************************************************************************)
GaitMenuFairness ==
  /\ WF_gaitMenuVars(PendingTimer)
  /\ WF_gaitMenuVars(onGaitResult \/ adoptGaitTelem)
  /\ WF_gaitMenuVars(TakeOrder)
  /\ WF_gaitMenuVars(KeepForMarch \/ SendGait \/ FinishSwitch)
  /\ WF_gaitMenuVars(DogTakes)
  /\ WF_gaitMenuVars(ReportGait) /\ WF_gaitMenuVars(OpenSocket)

GaitMenuSpec ==
  GaitMenuInit /\ [][GaitMenuNext]_gaitMenuVars /\ GaitMenuFairness

-------------------------------------------------------------------------------
Truthful == menu = dogGait \/ (wish # NoGait /\ menu = wish.gait)

(***************************************************************************)
(* The menu comes to show the dog's gait, or the one kept for the march,   *)
(* however results, readings, timers and further choices cross, unless an  *)
(* answer was lost, a failure put back the wrong gait, the kept gait was   *)
(* forgotten, or the first reading was not what the menu said.             *)
(***************************************************************************)
MenuComesTrue == []<>(astray \/ Truthful)
===============================================================================
