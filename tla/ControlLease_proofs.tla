-------------------------- MODULE ControlLease_proofs --------------------------
(***************************************************************************)
(* Theorems about ControlLease for any set of clients and any lease that   *)
(* is at least as long as the axis watchdog.                               *)
(***************************************************************************)
EXTENDS ControlLease, TLAPS

(***************************************************************************)
(* Every variable keeps its type; in particular the lease and the axis     *)
(* deadline stay within their bounds whatever the interleaving.            *)
(***************************************************************************)
THEOREM TypeCorrect == Spec => []TypeOK
<1>1. Init => TypeOK
  <2> SUFFICES ASSUME Init
               PROVE  TypeOK
    OBVIOUS
  <2>1. lease \in 0 .. LeaseTicks /\ deadline \in 0 .. WatchTicks
    BY TicksAssumption DEF Init
  <2>2. /\ controller \in Holders /\ axes \in Holders
        /\ commanding \in BOOLEAN /\ silent \in SUBSET Clients
    BY DEF Init, Holders
  <2>3. /\ conn \in [Clients -> {"out", "hello", "in"}]
        /\ view \in [Clients -> Holders]
        /\ snap \in [Threads -> Holders]
        /\ pc \in [Threads -> Steps]
    BY DEF Init, Holders, Steps
  <2>4. QED
    BY <2>1, <2>2, <2>3 DEF TypeOK
<1>2. TypeOK /\ [Next]_vars => TypeOK'
  <2> SUFFICES ASSUME TypeOK, [Next]_vars
               PROVE  TypeOK'
    OBVIOUS
  <2> USE ClientsAssumption, TicksAssumption
      DEF TypeOK, Holders, Steps, PromptSteps, SocketSteps, Goto
  <2>1. ASSUME NEW c \in Clients, Session(c)
        PROVE  TypeOK'
    <3> c \in Threads
      BY DEF Threads
    <3>1. CASE TryClaim(c)
      <4>1. lease' \in 0 .. LeaseTicks
        BY <3>1 DEF TryClaim
      <4>2. pc' \in [Threads -> Steps]
        BY <3>1 DEF TryClaim
      <4>3. /\ controller' \in Holders /\ commanding' \in BOOLEAN
            /\ UNCHANGED <<axes, deadline, conn, silent, snap, view>>
        BY <3>1 DEF TryClaim
      <4>4. QED
        BY <4>1, <4>2, <4>3
    <3>2. CASE ReleaseControl(c)
      BY <3>2 DEF ReleaseControl
    <3>3. CASE CheckVelocity(c)
      BY <3>3 DEF CheckVelocity
    <3>4. CASE SetVelocity(c)
      BY <3>4 DEF SetVelocity
    <3>5. CASE EmergencyStop(c)
      BY <3>5 DEF EmergencyStop
    <3>6. CASE Hello(c)
      BY <3>6 DEF Hello, Deliver
    <3>7. CASE SendReply(c)
      BY <3>7 DEF SendReply, Deliver
    <3>8. QED
      BY <2>1, <3>1, <3>2, <3>3, <3>4, <3>5, <3>6, <3>7 DEF Session
  <2>2. ASSUME NEW c \in Clients, Environment(c)
        PROVE  TypeOK'
    <3> c \in Threads
      BY DEF Threads
    <3>1. CASE Connect(c)
      BY <3>1 DEF Connect
    <3>2. ASSUME NEW m \in Messages, Receive(c, m)
          PROVE  TypeOK'
      BY <3>2 DEF Receive, Messages, TouchLease
    <3>3. CASE Disconnect(c)
      BY <3>3 DEF Disconnect
    <3>4. CASE FallSilent(c)
      BY <3>4 DEF FallSilent
    <3>5. QED
      BY <2>2, <3>1, <3>2, <3>3, <3>4 DEF Environment
  <2>3. ASSUME NEW t \in Threads, Shared(t)
        PROVE  TypeOK'
    <3>1. CASE ReleaseAxes(t)
      BY <3>1 DEF ReleaseAxes
    <3>2. CASE StopCommanding(t)
      BY <3>2 DEF StopCommanding
    <3>3. CASE ReadHolder(t)
      BY <3>3 DEF ReadHolder
    <3>4. CASE BroadcastControlState(t)
      BY <3>4 DEF BroadcastControlState, Deliver
    <3>5. QED
      BY <2>3, <3>1, <3>2, <3>3, <3>4 DEF Shared
  <2>4. CASE ExpireLease
    BY <2>4 DEF ExpireLease, Threads
  <2>5. CASE Tick
    BY <2>5 DEF Tick, CountDown
  <2>6. CASE UNCHANGED vars
    BY <2>6 DEF vars
  <2>7. QED
    BY <2>1, <2>2, <2>3, <2>4, <2>5, <2>6 DEF Next
<1>3. QED
  BY <1>1, <1>2, PTL DEF Spec

-------------------------------------------------------------------------------
(***************************************************************************)
(* A thread that is between dropping the controller and switching          *)
(* commanding_ off stays there as long as only other threads move.         *)
(***************************************************************************)
LEMMA ReleasingPersists ==
  ASSUME TypeOK, Releasing, NEW t \in Threads, NEW from, NEW to,
         Goto(t, from, to), from \in {"zero", "silence"} => to \in {"zero", "silence"}
  PROVE  Releasing'
BY DEF TypeOK, Releasing, Goto

LEMMA ReleasingStarts ==
  ASSUME TypeOK, NEW t \in Threads, NEW from, Goto(t, from, "zero")
  PROVE  Releasing'
BY DEF TypeOK, Releasing, Goto

(***************************************************************************)
(* commanding_ never stays on with nobody recorded as controller, except   *)
(* while a thread is in the middle of a release.                           *)
(***************************************************************************)
THEOREM SilenceFollowsRelease == Spec => []SilenceFollows
<1>1. Init => SilenceFollows
  BY DEF Init, SilenceFollows
<1>2. TypeOK /\ SilenceFollows /\ [Next]_vars => SilenceFollows'
  <2> SUFFICES ASSUME TypeOK, SilenceFollows, [Next]_vars
               PROVE  SilenceFollows'
    OBVIOUS
  <2> USE DEF SilenceFollows
  <2>1. ASSUME NEW c \in Clients, Session(c)
        PROVE  SilenceFollows'
    <3> c \in Threads /\ c # NoClient
      BY ClientsAssumption DEF Threads
    <3>1. CASE TryClaim(c)
      BY <3>1, ReleasingPersists DEF TryClaim
    <3>2. CASE ReleaseControl(c)
      BY <3>2, ReleasingPersists, ReleasingStarts DEF ReleaseControl
    <3>3. CASE CheckVelocity(c)
      BY <3>3, ReleasingPersists DEF CheckVelocity
    <3>4. CASE SetVelocity(c)
      BY <3>4, ReleasingPersists DEF SetVelocity
    <3>5. CASE EmergencyStop(c)
      BY <3>5, ReleasingPersists DEF EmergencyStop
    <3>6. CASE Hello(c)
      BY <3>6, ReleasingPersists DEF Hello
    <3>7. CASE SendReply(c)
      BY <3>7, ReleasingPersists DEF SendReply
    <3>8. QED
      BY <2>1, <3>1, <3>2, <3>3, <3>4, <3>5, <3>6, <3>7 DEF Session
  <2>2. ASSUME NEW c \in Clients, Environment(c)
        PROVE  SilenceFollows'
    <3> c \in Threads
      BY DEF Threads
    <3>1. CASE Connect(c)
      BY <3>1, ReleasingPersists, ReleasingStarts DEF Connect
    <3>2. ASSUME NEW m \in Messages, Receive(c, m)
          PROVE  SilenceFollows'
      BY <3>2, ReleasingPersists DEF Receive
    <3>3. CASE Disconnect(c)
      BY <3>3, ReleasingPersists DEF Disconnect
    <3>4. CASE FallSilent(c)
      BY <3>4 DEF FallSilent, Releasing
    <3>5. QED
      BY <2>2, <3>1, <3>2, <3>3, <3>4 DEF Environment
  <2>3. ASSUME NEW t \in Threads, Shared(t)
        PROVE  SilenceFollows'
    <3>1. CASE ReleaseAxes(t)
      BY <3>1, ReleasingPersists DEF ReleaseAxes
    <3>2. CASE StopCommanding(t)
      BY <3>2 DEF StopCommanding
    <3>3. CASE ReadHolder(t)
      BY <3>3, ReleasingPersists DEF ReadHolder
    <3>4. CASE BroadcastControlState(t)
      BY <3>4, ReleasingPersists DEF BroadcastControlState
    <3>5. QED
      BY <2>3, <3>1, <3>2, <3>3, <3>4 DEF Shared
  <2>4. CASE ExpireLease
    BY <2>4, ReleasingStarts DEF ExpireLease, Threads
  <2>5. CASE Tick
    BY <2>5 DEF Tick, Releasing
  <2>6. CASE UNCHANGED vars
    BY <2>6 DEF vars, Releasing
  <2>7. QED
    BY <2>1, <2>2, <2>3, <2>4, <2>5, <2>6 DEF Next
<1>3. QED
  BY <1>1, <1>2, TypeCorrect, PTL DEF Spec

-------------------------------------------------------------------------------
(***************************************************************************)
(* AxesEndWithControl is inductive once the lease of a thread inside the   *)
(* vel handler is known to be fresh.                                       *)
(***************************************************************************)
AxesInv == TypeOK /\ AxesEndWithControl /\ CheckedVelocity

(***************************************************************************)
(* A client's velocity never outlives its control.                         *)
(***************************************************************************)
THEOREM VelocityEndsWithControl == Spec => []AxesEndWithControl
<1>1. Init => AxesEndWithControl /\ CheckedVelocity
  BY DEF Init, AxesEndWithControl, CheckedVelocity, Threads
<1>2. AxesInv /\ [Next]_vars => AxesEndWithControl' /\ CheckedVelocity'
  <2> SUFFICES ASSUME AxesInv, [Next]_vars
               PROVE  AxesEndWithControl' /\ CheckedVelocity'
    OBVIOUS
  <2> USE ClientsAssumption, TicksAssumption
      DEF AxesInv, AxesEndWithControl, CheckedVelocity, TypeOK, HoldsControl,
          Holders, Threads, Goto
  <2>1. ASSUME NEW c \in Clients, Session(c)
        PROVE  AxesEndWithControl' /\ CheckedVelocity'
    <3>1. CASE TryClaim(c)
      BY <3>1 DEF TryClaim
    <3>2. CASE ReleaseControl(c)
      BY <3>2 DEF ReleaseControl
    <3>3. CASE CheckVelocity(c)
      BY <3>3 DEF CheckVelocity
    <3>4. CASE SetVelocity(c)
      BY <3>4 DEF SetVelocity
    <3>5. CASE EmergencyStop(c)
      BY <3>5 DEF EmergencyStop
    <3>6. CASE Hello(c)
      BY <3>6 DEF Hello
    <3>7. CASE SendReply(c)
      BY <3>7 DEF SendReply
    <3>8. QED
      BY <2>1, <3>1, <3>2, <3>3, <3>4, <3>5, <3>6, <3>7 DEF Session
  <2>2. ASSUME NEW c \in Clients, Environment(c)
        PROVE  AxesEndWithControl' /\ CheckedVelocity'
    <3>1. CASE Connect(c)
      BY <3>1 DEF Connect, Expired
    <3>2. ASSUME NEW m \in Messages, Receive(c, m)
          PROVE  AxesEndWithControl' /\ CheckedVelocity'
      BY <3>2 DEF Receive, Messages, TouchLease
    <3>3. CASE Disconnect(c)
      BY <3>3 DEF Disconnect
    <3>4. CASE FallSilent(c)
      BY <3>4 DEF FallSilent
    <3>5. QED
      BY <2>2, <3>1, <3>2, <3>3, <3>4 DEF Environment
  <2>3. ASSUME NEW t \in Threads, Shared(t)
        PROVE  AxesEndWithControl' /\ CheckedVelocity'
    <3>1. CASE ReleaseAxes(t)
      BY <3>1 DEF ReleaseAxes
    <3>2. CASE StopCommanding(t)
      BY <3>2 DEF StopCommanding
    <3>3. CASE ReadHolder(t)
      BY <3>3 DEF ReadHolder
    <3>4. CASE BroadcastControlState(t)
      BY <3>4 DEF BroadcastControlState
    <3>5. QED
      BY <2>3, <3>1, <3>2, <3>3, <3>4 DEF Shared
  <2>4. CASE ExpireLease
    BY <2>4 DEF ExpireLease, Expired
  <2>5. CASE Tick
    BY <2>5 DEF Tick, CountDown, PromptSteps
  <2>6. CASE UNCHANGED vars
    BY <2>6 DEF vars
  <2>7. QED
    BY <2>1, <2>2, <2>3, <2>4, <2>5, <2>6 DEF Next
<1>3. QED
  BY <1>1, <1>2, TypeCorrect, PTL DEF Spec, AxesInv

-------------------------------------------------------------------------------
(***************************************************************************)
(* A step that leaves controller and the lease alone, and takes its thread *)
(* neither into nor out of deciding a claim, is invisible.                 *)
(***************************************************************************)
LEMMA InvisibleStep ==
  ASSUME TypeOK, NEW t \in Threads, NEW from, NEW to, Goto(t, from, to),
         from # "claim", to # "claim"
  PROVE  Asking' = Asking
BY DEF TypeOK, Asking, Threads, Goto

(***************************************************************************)
(* The leased control of the code is an exclusive control: it is granted   *)
(* only on a claim, only while nobody holds it, and passes through nobody. *)
(***************************************************************************)
THEOREM LeaseIsExclusive == Spec => ImplementsExclusiveControl
<1> USE DEF Holder, Asking
<1>1. Init => Exclusive!Init
  BY DEF Init, Exclusive!Init, Threads
<1>2. TypeOK /\ [Next]_vars => [Exclusive!Next]_(Exclusive!vars)
  <2> SUFFICES ASSUME TypeOK, [Next]_vars
               PROVE  [Exclusive!Next]_(Exclusive!vars)
    OBVIOUS
  <2> DEFINE Stutter == Holder' = Holder /\ Asking' = Asking
             Drops   == Holder' \in {Holder, NoClient} /\ Asking' = Asking
  <2>s. Stutter => [Exclusive!Next]_(Exclusive!vars)
    BY DEF Exclusive!vars
  <2>d. Drops => [Exclusive!Next]_(Exclusive!vars)
    BY DEF Exclusive!vars, Exclusive!Next, Exclusive!Drop
  <2> USE ClientsAssumption, TicksAssumption DEF TypeOK
  <2>1. ASSUME NEW c \in Clients, Session(c)
        PROVE  [Exclusive!Next]_(Exclusive!vars)
    <3> c \in Threads /\ c # NoClient
      BY DEF Threads
    <3>1. CASE TryClaim(c)
      <4>1. /\ c \in Asking
            /\ Asking' = Asking \ {c}
        BY <3>1 DEF TryClaim, Goto, Threads
      <4>2. CASE controller \in {NoClient, c} \/ lease = 0
        <5>1. Holder \in {NoClient, c} /\ Holder' = c
          BY <3>1, <4>2 DEF TryClaim
        <5>2. QED
          BY <4>1, <5>1 DEF Exclusive!Next, Exclusive!Grant
      <4>3. CASE controller \notin {NoClient, c} /\ lease > 0
        <5>1. Holder \notin {NoClient, c} /\ Holder' = Holder
          BY <3>1, <4>3 DEF TryClaim
        <5>2. QED
          BY <4>1, <5>1 DEF Exclusive!Next, Exclusive!Deny
      <4>4. QED
        BY <4>2, <4>3
    <3>2. CASE ReleaseControl(c)
      <4>1. Asking' = Asking
        BY <3>2, InvisibleStep DEF ReleaseControl
      <4>2. Holder' \in {Holder, NoClient}
        BY <3>2 DEF ReleaseControl
      <4>3. QED
        BY <4>1, <4>2, <2>d
    <3>3. CASE CheckVelocity(c)
      BY <3>3, <2>s, InvisibleStep DEF CheckVelocity
    <3>4. CASE SetVelocity(c)
      BY <3>4, <2>s, InvisibleStep DEF SetVelocity
    <3>5. CASE EmergencyStop(c)
      BY <3>5, <2>s, InvisibleStep DEF EmergencyStop
    <3>6. CASE Hello(c)
      BY <3>6, <2>s, InvisibleStep DEF Hello
    <3>7. CASE SendReply(c)
      BY <3>7, <2>s, InvisibleStep DEF SendReply
    <3>8. QED
      BY <2>1, <3>1, <3>2, <3>3, <3>4, <3>5, <3>6, <3>7 DEF Session
  <2>2. ASSUME NEW c \in Clients, Environment(c)
        PROVE  [Exclusive!Next]_(Exclusive!vars)
    <3> c \in Threads
      BY DEF Threads
    <3>1. CASE Connect(c)
      <4>1. Asking' = Asking
        BY <3>1, InvisibleStep DEF Connect
      <4>2. Holder' = Holder
        BY <3>1 DEF Connect, Expired
      <4>3. QED
        BY <4>1, <4>2, <2>s
    <3>2. ASSUME NEW m \in Messages, Receive(c, m)
          PROVE  [Exclusive!Next]_(Exclusive!vars)
      <4>1. Holder' = Holder
        BY <3>2 DEF Receive, TouchLease, HoldsControl
      <4>2. CASE m = "claim"
        <5>1. c \notin Asking /\ Asking' = Asking \cup {c}
          BY <3>2, <4>2 DEF Receive, Goto, Threads
        <5>2. QED
          BY <4>1, <5>1 DEF Exclusive!Next, Exclusive!Ask
      <4>3. CASE m # "claim"
        BY <3>2, <4>1, <4>3, <2>s, InvisibleStep DEF Receive, Messages
      <4>4. QED
        BY <4>2, <4>3
    <3>3. CASE Disconnect(c)
      BY <3>3, <2>s, InvisibleStep DEF Disconnect
    <3>4. CASE FallSilent(c)
      BY <3>4, <2>s DEF FallSilent
    <3>5. QED
      BY <2>2, <3>1, <3>2, <3>3, <3>4 DEF Environment
  <2>3. ASSUME NEW t \in Threads, Shared(t)
        PROVE  [Exclusive!Next]_(Exclusive!vars)
    <3>1. CASE ReleaseAxes(t)
      BY <3>1, <2>s, InvisibleStep DEF ReleaseAxes
    <3>2. CASE StopCommanding(t)
      BY <3>2, <2>s, InvisibleStep DEF StopCommanding
    <3>3. CASE ReadHolder(t)
      BY <3>3, <2>s, InvisibleStep DEF ReadHolder
    <3>4. CASE BroadcastControlState(t)
      BY <3>4, <2>s, InvisibleStep DEF BroadcastControlState
    <3>5. QED
      BY <2>3, <3>1, <3>2, <3>3, <3>4 DEF Shared
  <2>4. CASE ExpireLease
    <3>1. Asking' = Asking
      BY <2>4, InvisibleStep DEF ExpireLease, Threads
    <3>2. Holder' = Holder
      BY <2>4 DEF ExpireLease, Expired
    <3>3. QED
      BY <3>1, <3>2, <2>s
  <2>5. CASE Tick
    BY <2>5, <2>d DEF Tick, CountDown
  <2>6. CASE UNCHANGED vars
    BY <2>6, <2>s DEF vars
  <2>7. QED
    BY <2>1, <2>2, <2>3, <2>4, <2>5, <2>6 DEF Next
<1>3. QED
  BY <1>1, <1>2, TypeCorrect, PTL DEF Spec, ImplementsExclusiveControl,
     Exclusive!Spec

===============================================================================
