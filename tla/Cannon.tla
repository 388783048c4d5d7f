--------------------------------- MODULE Cannon ---------------------------------
(***************************************************************************)
(* The water cannon, fired with a button of the page or the tablet's HOME  *)
(* key over 2.4G (web/app.js, ControlActivity.java, CannonLink.java).      *)
(*                                                                         *)
(* The cannon listens to one TCP connection and does what the last frame   *)
(* says, also when no further one comes: a valve that has been opened must *)
(* be told to shut.  CannonLink's thread writes what was asked for last    *)
(* ten times a second, an idle frame once, and hangs up after an idle      *)
(* frame when the page has not asked for anything for 800 ms.  Hands,      *)
(* views and the connection are free; page, thread and cannon run.         *)
(***************************************************************************)
EXTENDS Integers, Sequences

CONSTANT MaxPosted  \* bound: runs of onCannonFire posted to the page

ASSUME CannonAssumption == MaxPosted \in Nat \ {0}

VARIABLES
  pressed, home, \* the button on the screen and HOME are held
  posted,        \* what injectCannonFire has posted to the page
  pageHidden,
  cannonMode,    \* app.workMode is 'cannon'
  cannonFiring,
  cannonAim,     \* cannonPan, cannonTilt or cannonSpray ask for something
  cmd,           \* what CannonLink was told last
  fresh,         \* touchAt is at most STALE_MS old
  running,       \* the thread has been started
  taken,         \* the snapshot it is about to write
  tcp,           \* none, connected, or connected to nobody any more
  sentIdle,
  onWire,        \* the last frame written that the cannon has not read
  valveOpen,     \* the truth
  shutLost       \* history: a frame that shuts was lost, or no connection
                 \* could be had since

keys == <<pressed, home>>
firePage == <<cannonMode, cannonFiring, cannonAim>>
firePageLink == <<firePage, cmd, fresh, running>>
cannonLink == <<taken, tcp, sentIdle>>
outcome == <<onWire, valveOpen, shutLost>>
cannonVars ==
  <<keys, posted, pageHidden, firePageLink, cannonLink, outcome>>

Cmds == [fire : BOOLEAN, aim : BOOLEAN]
IdleCmd == [fire |-> FALSE, aim |-> FALSE]

CannonTypeOK ==
  /\ {pressed, home, pageHidden, cannonMode, cannonFiring, cannonAim,
      fresh, running, sentIdle, valveOpen, shutLost} \subseteq BOOLEAN
  /\ posted \in Seq(BOOLEAN) /\ Len(posted) <= MaxPosted
  /\ cmd \in Cmds /\ taken \in {<<>>} \cup {<<c>> : c \in Cmds}
  /\ tcp \in {"none", "up", "dead"}
  /\ onWire \in {"none", "open", "shut"}

(***************************************************************************)
(* The mode is the one stored by the last page.                            *)
(***************************************************************************)
CannonInit ==
  /\ cannonMode \in BOOLEAN
  /\ pressed = FALSE /\ home = FALSE /\ posted = <<>> /\ pageHidden = FALSE
  /\ cannonFiring = FALSE /\ cannonAim = FALSE
  /\ cmd = IdleCmd /\ fresh = FALSE /\ running = FALSE
  /\ taken = <<>> /\ tcp = "none" /\ sentIdle = TRUE
  /\ onWire = "none" /\ valveOpen = FALSE /\ shutLost = FALSE

-------------------------------------------------------------------------------
(***************************************************************************)
(* The page tells CannonLink (set).                                        *)
(***************************************************************************)
pushCannon(aim, fires) ==
  /\ cannonAim' = aim
  /\ cmd' = [fire |-> fires, aim |-> aim] /\ fresh' = TRUE /\ running' = TRUE

(***************************************************************************)
(* A stop goes through in either mode, and keeps the aim.                  *)
(***************************************************************************)
setCannonFire(on) ==
  /\ UNCHANGED cannonMode
  /\ IF on /\ ~cannonMode
       THEN UNCHANGED <<cannonFiring, cannonAim, cmd, fresh, running>>
       ELSE cannonFiring' = on /\ pushCannon(cannonAim, on)

(***************************************************************************)
(* The button: a pointer that leaves it lets go only if it fires.          *)
(***************************************************************************)
PressFire ==
  /\ cannonMode /\ ~pageHidden /\ ~pressed /\ pressed' = TRUE
  /\ setCannonFire(TRUE)
  /\ UNCHANGED <<home, posted, pageHidden, cannonLink, outcome>>

ReleaseFire ==
  /\ pressed /\ pressed' = FALSE
  /\ setCannonFire(FALSE) \/ (~cannonFiring /\ UNCHANGED firePageLink)
  /\ UNCHANGED <<home, posted, pageHidden, cannonLink, outcome>>

(***************************************************************************)
(* dispatchKeyEvent, without the repetitions; onStop.                      *)
(***************************************************************************)
injectCannonFire(on) ==
  /\ Len(posted) < MaxPosted
  /\ posted' = Append(posted, on)

HomeKey ==
  /\ home' = ~home
  /\ injectCannonFire(home')
  /\ UNCHANGED <<pressed, pageHidden, firePageLink, cannonLink, outcome>>

onStop ==
  /\ injectCannonFire(FALSE)
  /\ UNCHANGED <<keys, pageHidden, firePageLink, cannonLink, outcome>>

onCannonFire ==
  /\ posted # <<>> /\ posted' = Tail(posted)
  /\ setCannonFire(Head(posted))
  /\ UNCHANGED <<keys, pageHidden, cannonLink, outcome>>

HidePage ==
  /\ pageHidden' = ~pageHidden
  /\ IF pageHidden THEN UNCHANGED firePageLink ELSE setCannonFire(FALSE)
  /\ UNCHANGED <<keys, posted, cannonLink, outcome>>

EstopStopsFire ==
  /\ setCannonFire(FALSE)
  /\ UNCHANGED <<keys, posted, pageHidden, cannonLink, outcome>>

(***************************************************************************)
(* Leaving the mode stops fire, aim and spray, once.                       *)
(***************************************************************************)
leaveCannon(cannon) ==
  /\ cannonMode' = cannon
  /\ IF cannonMode /\ ~cannon
       THEN cannonFiring' = FALSE /\ pushCannon(FALSE, FALSE)
       ELSE UNCHANGED <<cannonFiring, cannonAim, cmd, fresh, running>>
  /\ UNCHANGED <<keys, posted, pageHidden, cannonLink, outcome>>

(***************************************************************************)
(* sendAuxPayload in the cannon's mode, 20 times a second: the small stick *)
(* aims, its detent is the spray.  A hidden page may be given fewer turns, *)
(* or none.                                                                *)
(***************************************************************************)
feedCannon ==
  /\ cannonMode
  /\ \E aim \in BOOLEAN : pushCannon(aim, cannonFiring)
  /\ UNCHANGED <<cannonMode, cannonFiring, keys, posted, pageHidden, cannonLink,
                 outcome>>

(***************************************************************************)
(* STALE_MS pass without a call, also while a busy page keeps its timers   *)
(* waiting.                                                                *)
(***************************************************************************)
Stale ==
  /\ fresh /\ fresh' = FALSE
  /\ UNCHANGED <<keys, posted, pageHidden, firePage, cmd, running, cannonLink,
                 outcome>>

-------------------------------------------------------------------------------
(***************************************************************************)
(* sendFrame.  A connection to nobody takes what is written until it is    *)
(* found out.                                                              *)
(***************************************************************************)
Word(fires) == IF fires THEN "open" ELSE "shut"

Written(fires) ==
  /\ onWire' = IF tcp = "up" THEN Word(fires) ELSE onWire
  /\ shutLost' = (shutLost \/ (tcp = "dead" /\ ~fires))

Refused ==
  /\ tcp = "dead"
  /\ shutLost' = TRUE
  /\ UNCHANGED onWire

(***************************************************************************)
(* loop: a snapshot that is fresh is written; after a stale one the thread *)
(* hangs up, and whether the idle frame before it got away does not        *)
(* matter to it.                                                           *)
(***************************************************************************)
Snapshot ==
  /\ running /\ taken = <<>> /\ fresh
  /\ taken' = <<cmd>>
  /\ UNCHANGED <<keys, posted, pageHidden, firePageLink, tcp, sentIdle,
                 outcome>>

HangUp ==
  /\ running /\ taken = <<>> /\ ~fresh /\ tcp # "none"
  /\ tcp' = "none" /\ sentIdle' = TRUE
  /\ IF sentIdle THEN UNCHANGED <<onWire, shutLost>>
                 ELSE Written(FALSE) \/ Refused
  /\ UNCHANGED <<keys, posted, pageHidden, firePageLink, taken, valveOpen>>

(***************************************************************************)
(* connect takes up to three seconds, in which the snapshot grows old.     *)
(***************************************************************************)
connectCannon ==
  /\ taken # <<>> /\ tcp = "none"
  /\ sentIdle' = FALSE
  /\ \/ tcp' = "up" /\ shutLost' = FALSE /\ UNCHANGED taken
     \/ taken' = <<>> /\ shutLost' = TRUE /\ UNCHANGED tcp
  /\ UNCHANGED <<keys, posted, pageHidden, firePageLink, onWire, valveOpen>>

WritesSnapshot ==
  /\ taken # <<>> /\ tcp # "none" /\ taken' = <<>>
  /\ UNCHANGED <<keys, posted, pageHidden, firePageLink, valveOpen>>

(***************************************************************************)
(* Mutant: once an idle frame has been sent on a connection, none is sent  *)
(* again.                                                                  *)
(***************************************************************************)
SendSnapshotOnce ==
  /\ WritesSnapshot
  /\ LET now == Head(taken)
         idle == now = IdleCmd
     IN  \/ idle /\ sentIdle /\ UNCHANGED <<tcp, sentIdle, onWire, shutLost>>
         \/ ~(idle /\ sentIdle) /\ Written(now.fire)
            /\ sentIdle' = (sentIdle \/ idle) /\ UNCHANGED tcp
         \/ ~(idle /\ sentIdle) /\ Refused
            /\ tcp' = "none" /\ UNCHANGED sentIdle

(***************************************************************************)
(* An idle frame is not written again, not even if it was lost.            *)
(***************************************************************************)
SendSnapshot ==
  /\ WritesSnapshot
  /\ LET now == Head(taken)
         idle == now = IdleCmd
     IN  \/ idle /\ sentIdle /\ UNCHANGED <<tcp, sentIdle, onWire, shutLost>>
         \/ ~(idle /\ sentIdle) /\ Written(now.fire)
            /\ sentIdle' = idle /\ UNCHANGED tcp
         \/ ~(idle /\ sentIdle) /\ Refused
            /\ tcp' = "none" /\ UNCHANGED sentIdle

(***************************************************************************)
(* The cannon reads, hung up or not.  The connection breaks, and takes     *)
(* with it what has not been read.                                         *)
(***************************************************************************)
CannonReads ==
  /\ onWire # "none" /\ onWire' = "none"
  /\ valveOpen' = (onWire = "open")
  /\ shutLost' = (shutLost /\ onWire = "open")
  /\ UNCHANGED <<keys, posted, pageHidden, firePageLink, cannonLink>>

LineBreaks ==
  /\ tcp = "up" \/ onWire # "none"
  /\ tcp' = IF tcp = "up" THEN "dead" ELSE tcp
  /\ onWire' = "none" /\ shutLost' = (shutLost \/ onWire = "shut")
  /\ UNCHANGED <<keys, posted, pageHidden, firePageLink, taken, sentIdle,
                 valveOpen>>

-------------------------------------------------------------------------------
CannonNext ==
  \/ PressFire \/ ReleaseFire \/ HomeKey \/ onStop \/ onCannonFire
  \/ HidePage \/ EstopStopsFire \/ feedCannon \/ Stale
  \/ \E cannon \in BOOLEAN : leaveCannon(cannon)
  \/ Snapshot \/ HangUp \/ connectCannon \/ SendSnapshot
  \/ CannonReads \/ LineBreaks

(***************************************************************************)
(* What is posted runs; a visible page feeds; the thread runs; the cannon  *)
(* reads.  800 ms pass for certain only once the page has stopped calling. *)
(***************************************************************************)
CannonFairness ==
  /\ WF_cannonVars(onCannonFire)
  /\ WF_cannonVars(~pageHidden /\ feedCannon)
  /\ WF_cannonVars(~cannonMode /\ Stale)
  /\ WF_cannonVars(Snapshot \/ HangUp \/ connectCannon \/ SendSnapshot)
  /\ WF_cannonVars(CannonReads)

CannonSpec == CannonInit /\ [][CannonNext]_cannonVars /\ CannonFairness

-------------------------------------------------------------------------------
(***************************************************************************)
(* app-protocol.md:170: letting go stops the fire.  Once button and HOME   *)
(* are let go of for good the valve shuts, whatever snapshot a slow        *)
(* connection still writes, and also if the mode is left, the page hidden  *)
(* or the keys pressed again on the way, unless the frame that shuts it    *)
(* was lost, which nobody notices, or no connection can be had.            *)
(***************************************************************************)
ValveShuts == <>[](~pressed /\ ~home) => []<>(~valveOpen \/ shutLost)
===============================================================================
