----------------------------- MODULE ControlLease -----------------------------
(***************************************************************************)
(* Who may command the robot: RobotService's exclusive, leased control     *)
(* (rk3588/src/robot_service.cpp) as the session threads of WsServer and   *)
(* the 10 Hz StateLoop execute it.                                         *)
(*                                                                         *)
(* A step of this model is one critical section of control_mutex_, one     *)
(* call into MotionClient or one write to the sockets: what happens        *)
(* between two of them on one thread, another thread may interleave with.  *)
(* Of MotionClient the model keeps commanding_ (are heartbeats and axes    *)
(* sent) and the axis values with their 300 ms watchdog.                   *)
(***************************************************************************)
EXTENDS Integers

CONSTANTS
  Clients,      \* WebSocket connections
  NoClient,     \* controller_ = 0
  StateLoop,    \* the StateLoop thread
  LeaseTicks,   \* control_lease_ms, in ticks
  WatchTicks    \* command_timeout_ms, in ticks

ASSUME ClientsAssumption ==
  /\ NoClient \notin Clients
  /\ StateLoop \notin Clients

(***************************************************************************)
(* The lease (3000 ms) outlasts the axis watchdog (300 ms).                *)
(***************************************************************************)
ASSUME TicksAssumption ==
  /\ LeaseTicks \in Nat
  /\ WatchTicks \in 1 .. LeaseTicks

VARIABLES
  controller,   \* controller_
  lease,        \* ticks left until lease_expiry_; 0 once it has passed
  commanding,   \* MotionClient::commanding_
  axes,         \* who wrote the axis values that are not zero
  deadline,     \* ticks left until axis_deadline_; 0 once it has passed
  conn,         \* a client is out, in OnConnect ("hello"), or in
  silent,       \* clients that stopped sending for good (crash, out of range)
  pc,           \* where each thread is
  snap,         \* the holder a thread read and has yet to write to a socket
  view          \* the holder each client was last told (app.holder)

vars == <<controller, lease, commanding, axes, deadline, conn, silent, pc,
          snap, view>>

Threads == Clients \cup {StateLoop}
Holders == Clients \cup {NoClient}

(***************************************************************************)
(* Steps that only take mutexes: they end well within one tick.  The other *)
(* steps write to sockets and may block for the 2 s send timeout.          *)
(***************************************************************************)
PromptSteps == {"claim", "yield", "vel", "velSet", "estop", "zero", "silence"}
SocketSteps == {"hello", "grant", "grantSend", "deny", "denySend", "bcast",
                "send"}
Steps == {"idle"} \cup PromptSteps \cup SocketSteps

Messages == {"claim", "yield", "vel", "estop", "ping"}

TypeOK ==
  /\ controller \in Holders
  /\ lease \in 0 .. LeaseTicks
  /\ commanding \in BOOLEAN
  /\ axes \in Holders
  /\ deadline \in 0 .. WatchTicks
  /\ conn \in [Clients -> {"out", "hello", "in"}]
  /\ silent \in SUBSET Clients
  /\ pc \in [Threads -> Steps]
  /\ snap \in [Threads -> Holders]
  /\ view \in [Clients -> Holders]

Init ==
  /\ controller = NoClient
  /\ lease = 0
  /\ commanding = FALSE
  /\ axes = NoClient
  /\ deadline = 0
  /\ conn = [c \in Clients |-> "out"]
  /\ silent = {}
  /\ pc = [t \in Threads |-> "idle"]
  /\ snap = [t \in Threads |-> NoClient]
  /\ view = [c \in Clients |-> NoClient]

Goto(t, from, to) ==
  /\ pc[t] = from
  /\ pc' = [pc EXCEPT ![t] = to]

-------------------------------------------------------------------------------
(***************************************************************************)
(* The critical sections of control_mutex_.                                *)
(***************************************************************************)
HoldsControl(c) == controller = c /\ lease > 0

Expired == controller # NoClient /\ lease = 0

(***************************************************************************)
(* Mutant: a message renews a lease that has already run out.              *)
(***************************************************************************)
TouchExpiredLease(c) ==
  lease' = IF controller = c THEN LeaseTicks ELSE lease

TouchLease(c) ==
  lease' = IF HoldsControl(c) THEN LeaseTicks ELSE lease

(***************************************************************************)
(* OnConnect notices an expired lease itself, and reads the holder that    *)
(* its hello will name.  A slot of Clients that connects again stands for  *)
(* a connection with a fresh id.                                           *)
(***************************************************************************)
Connect(c) ==
  /\ conn[c] = "out" /\ c \notin silent
  /\ Goto(c, "idle", IF Expired THEN "zero" ELSE "hello")
  /\ conn' = [conn EXCEPT ![c] = "hello"]
  /\ controller' = IF Expired THEN NoClient ELSE controller
  /\ snap' = [snap EXCEPT ![c] = controller']
  /\ UNCHANGED <<lease, commanding, axes, deadline, silent, view>>

(***************************************************************************)
(* OnMessage renews the sender's lease before it looks at the message.     *)
(***************************************************************************)
Receive(c, m) ==
  /\ conn[c] = "in" /\ c \notin silent
  /\ Goto(c, "idle", IF m = "ping" THEN "idle" ELSE m)
  /\ TouchLease(c)
  /\ UNCHANGED <<controller, commanding, axes, deadline, conn, silent, snap,
                 view>>

(***************************************************************************)
(* TryClaim turns commanding_ on inside the critical section.              *)
(***************************************************************************)
TryClaim(c) ==
  \/ /\ controller \in {NoClient, c} \/ lease = 0
     /\ Goto(c, "claim", "grant")
     /\ controller' = c
     /\ lease' = LeaseTicks
     /\ commanding' = TRUE
     /\ UNCHANGED <<axes, deadline, conn, silent, snap, view>>
  \/ /\ controller \notin {NoClient, c} /\ lease > 0
     /\ Goto(c, "claim", "deny")
     /\ UNCHANGED <<controller, lease, commanding, axes, deadline, conn, silent,
                    snap, view>>

(***************************************************************************)
(* Mutant: control is given up without zeroing the axes.                   *)
(***************************************************************************)
ReleaseWithoutZero(c) ==
  \/ /\ controller = c
     /\ Goto(c, "yield", "silence")
     /\ controller' = NoClient
     /\ lease' = 0
     /\ UNCHANGED <<commanding, axes, deadline, conn, silent, snap, view>>
  \/ /\ controller # c
     /\ Goto(c, "yield", "idle")
     /\ UNCHANGED <<controller, lease, commanding, axes, deadline, conn, silent,
                    snap, view>>

(***************************************************************************)
(* ReleaseControl, for yield and for OnDisconnect: control is given up in  *)
(* the critical section, the axes and commanding_ follow after it.         *)
(***************************************************************************)
ReleaseControl(c) ==
  \/ /\ controller = c
     /\ Goto(c, "yield", "zero")
     /\ controller' = NoClient
     /\ lease' = 0
     /\ UNCHANGED <<commanding, axes, deadline, conn, silent, snap, view>>
  \/ /\ controller # c
     /\ Goto(c, "yield", "idle")
     /\ UNCHANGED <<controller, lease, commanding, axes, deadline, conn, silent,
                    snap, view>>

(***************************************************************************)
(* WsServer drops a connection from clients_, then calls OnDisconnect.     *)
(***************************************************************************)
Disconnect(c) ==
  /\ conn[c] = "in"
  /\ Goto(c, "idle", "yield")
  /\ conn' = [conn EXCEPT ![c] = "out"]
  /\ view' = [view EXCEPT ![c] = NoClient]
  /\ UNCHANGED <<controller, lease, commanding, axes, deadline, silent, snap>>

(***************************************************************************)
(* Mutant: StateLoop drops the controller and only tells the clients.      *)
(***************************************************************************)
ExpireQuietly ==
  /\ Expired
  /\ Goto(StateLoop, "idle", "bcast")
  /\ controller' = NoClient
  /\ UNCHANGED <<lease, commanding, axes, deadline, conn, silent, snap, view>>

(***************************************************************************)
(* StateLoop looks for an expired lease ten times a second.                *)
(***************************************************************************)
ExpireLease ==
  /\ Expired
  /\ Goto(StateLoop, "idle", "zero")
  /\ controller' = NoClient
  /\ UNCHANGED <<lease, commanding, axes, deadline, conn, silent, snap, view>>

-------------------------------------------------------------------------------
(***************************************************************************)
(* Calls into MotionClient.                                                *)
(***************************************************************************)
ReleaseAxes(t) ==
  /\ Goto(t, "zero", "silence")
  /\ axes' = NoClient
  /\ deadline' = 0
  /\ UNCHANGED <<controller, lease, commanding, conn, silent, snap, view>>

Greeting(t) == t \in Clients /\ conn[t] = "hello"

(***************************************************************************)
(* Mutant: the caller goes on without switching commanding_ off.           *)
(***************************************************************************)
KeepCommanding(t) ==
  /\ Goto(t, "silence", IF Greeting(t) THEN "hello" ELSE "bcast")
  /\ UNCHANGED <<controller, lease, commanding, axes, deadline, conn, silent,
                 snap, view>>

StopCommanding(t) ==
  /\ Goto(t, "silence", IF Greeting(t) THEN "hello" ELSE "bcast")
  /\ commanding' = FALSE
  /\ UNCHANGED <<controller, lease, axes, deadline, conn, silent, snap, view>>

(***************************************************************************)
(* vel: HoldsControl is one critical section, SetVelocity a later one.     *)
(* SetVelocity ignores the values unless the robot has been set walking.   *)
(***************************************************************************)
CheckVelocity(c) ==
  /\ Goto(c, "vel", IF HoldsControl(c) THEN "velSet" ELSE "idle")
  /\ UNCHANGED <<controller, lease, commanding, axes, deadline, conn, silent,
                 snap, view>>

SetVelocity(c) ==
  /\ Goto(c, "velSet", "idle")
  /\ \/ axes' = c /\ deadline' = WatchTicks
     \/ UNCHANGED <<axes, deadline>>
  /\ UNCHANGED <<controller, lease, commanding, conn, silent, snap, view>>

(***************************************************************************)
(* estop needs no control; its ReleaseAxes zeroes whoever's axes.          *)
(***************************************************************************)
EmergencyStop(c) ==
  /\ Goto(c, "estop", "idle")
  /\ axes' = NoClient
  /\ deadline' = 0
  /\ UNCHANGED <<controller, lease, commanding, conn, silent, snap, view>>

-------------------------------------------------------------------------------
(***************************************************************************)
(* Telling clients who holds control: the holder is read in one critical   *)
(* section and written to the sockets later.                               *)
(***************************************************************************)
Deliver(t, receivers) ==
  /\ view' = [c \in Clients |-> IF c \in receivers THEN snap[t] ELSE view[c]]
  /\ snap' = [snap EXCEPT ![t] = NoClient]

Hello(c) ==
  /\ Goto(c, "hello", "idle")
  /\ Deliver(c, {c})
  /\ conn' = [conn EXCEPT ![c] = "in"]
  /\ UNCHANGED <<controller, lease, commanding, axes, deadline, silent>>

ReadHolder(t) ==
  /\ \/ Goto(t, "grant", "grantSend")
     \/ Goto(t, "deny", "denySend")
     \/ Goto(t, "bcast", "send")
  /\ snap' = [snap EXCEPT ![t] = controller]
  /\ UNCHANGED <<controller, lease, commanding, axes, deadline, conn, silent,
                 view>>

SendReply(c) ==
  /\ Goto(c, "grantSend", "bcast") \/ Goto(c, "denySend", "idle")
  /\ Deliver(c, {c})
  /\ UNCHANGED <<controller, lease, commanding, axes, deadline, conn, silent>>

BroadcastControlState(t) ==
  /\ Goto(t, "send", "idle")
  /\ Deliver(t, {c \in Clients : conn[c] # "out"})
  /\ UNCHANGED <<controller, lease, commanding, axes, deadline, conn, silent>>

-------------------------------------------------------------------------------
(***************************************************************************)
(* The environment: time passes while no thread is inside a prompt step,   *)
(* and a client may fall silent for good without closing its connection.   *)
(***************************************************************************)

(***************************************************************************)
(* Mutant: a tick does not stop at zero.                                   *)
(***************************************************************************)
CountDownFurther(n) == n - 1

CountDown(n) == IF n > 0 THEN n - 1 ELSE 0

Tick ==
  /\ lease > 0 \/ deadline > 0
  /\ \A t \in Threads : pc[t] \notin PromptSteps
  /\ lease' = CountDown(lease)
  /\ deadline' = CountDown(deadline)
  /\ axes' = IF deadline' = 0 THEN NoClient ELSE axes
  /\ UNCHANGED <<controller, commanding, conn, silent, pc, snap, view>>

FallSilent(c) ==
  /\ c \notin silent
  /\ silent' = silent \cup {c}
  /\ UNCHANGED <<controller, lease, commanding, axes, deadline, conn, pc, snap,
                 view>>

(***************************************************************************)
(* What a session thread does without waiting for its client.              *)
(***************************************************************************)
Session(c) ==
  \/ TryClaim(c)
  \/ ReleaseControl(c)
  \/ CheckVelocity(c)
  \/ SetVelocity(c)
  \/ EmergencyStop(c)
  \/ Hello(c)
  \/ SendReply(c)

Shared(t) ==
  \/ ReleaseAxes(t)
  \/ StopCommanding(t)
  \/ ReadHolder(t)
  \/ BroadcastControlState(t)

Environment(c) ==
  \/ Connect(c)
  \/ \E m \in Messages : Receive(c, m)
  \/ Disconnect(c)
  \/ FallSilent(c)

Next ==
  \/ \E c \in Clients : Session(c) \/ Environment(c)
  \/ \E t \in Threads : Shared(t)
  \/ ExpireLease
  \/ Tick

(***************************************************************************)
(* Threads that have work go on and time passes; clients owe nothing.      *)
(***************************************************************************)
Fairness ==
  /\ \A c \in Clients : WF_vars(Session(c))
  /\ \A t \in Threads : WF_vars(Shared(t))
  /\ WF_vars(ExpireLease)
  /\ WF_vars(Tick)

Spec == Init /\ [][Next]_vars

FairSpec == Spec /\ Fairness

-------------------------------------------------------------------------------
(***************************************************************************)
(* A client's velocity never outlives its control: while axis values of c  *)
(* can still be sent to the robot, c holds control with at least as much   *)
(* lease left as the watchdog leaves them, or c's own thread, having just  *)
(* given control up, is about to zero them.  So a client that takes over   *)
(* finds no velocity of its predecessor (README: release zeroes at once).  *)
(***************************************************************************)
AxesEndWithControl ==
  axes # NoClient =>
    \/ controller = axes /\ lease >= deadline /\ deadline > 0
    \/ pc[axes] = "zero"

(***************************************************************************)
(* What makes the late SetVelocity safe: from HoldsControl to SetVelocity  *)
(* the thread still holds control with the lease its message renewed.      *)
(***************************************************************************)
CheckedVelocity ==
  \A c \in Clients :
    /\ pc[c] = "velSet" => controller = c /\ lease = LeaseTicks
    /\ pc[c] = "vel" /\ HoldsControl(c) => lease = LeaseTicks

Releasing == \E t \in Threads : pc[t] \in {"zero", "silence"}

(***************************************************************************)
(* The gateway keeps the motion host busy with heartbeats only for the     *)
(* sake of a controller: once nobody is recorded as such, some thread is   *)
(* on its way to switch commanding_ off, whichever of the four paths (a    *)
(* yield, a disconnect, StateLoop, OnConnect) dropped the last one.        *)
(***************************************************************************)
SilenceFollows == commanding => controller # NoClient \/ Releasing

(***************************************************************************)
(* control_mutex_, TouchLease and the expiry checks implement exclusive    *)
(* control: who may command is the controller while its lease runs.        *)
(***************************************************************************)
Holder == IF lease > 0 THEN controller ELSE NoClient
Asking == {c \in Clients : pc[c] = "claim"}

Exclusive == INSTANCE ExclusiveControl WITH holder <- Holder, asking <- Asking

ImplementsExclusiveControl == Exclusive!Spec

(***************************************************************************)
(* A tablet that crashes does not lock control for good, and does not keep *)
(* the gateway talking over the factory handset: once every client has     *)
(* gone silent, connections still open, commanding_ ends up off for good.  *)
(***************************************************************************)
GatewayFallsSilent == silent = Clients ~> [](~commanding /\ axes = NoClient)

(***************************************************************************)
(* motion_client.hpp says the service switches commanding_ on with a claim *)
(* and off with a release.  Read from the holder's side: outside a release *)
(* in progress, whoever holds control is heard by the robot.               *)
(***************************************************************************)
HolderIsHeard ==
  (\E c \in Clients : HoldsControl(c)) /\ ~Releasing => commanding

(***************************************************************************)
(* The indicator of who is in control is timely on every client: when no   *)
(* handler is running, every connected client was last told the holder.    *)
(***************************************************************************)
IndicatorsAgree ==
  (\A t \in Threads : pc[t] = "idle") =>
    \A c \in Clients : conn[c] = "in" => view[c] = controller

===============================================================================
