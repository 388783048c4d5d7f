----------------------------- MODULE Console_proofs ----------------------------
(***************************************************************************)
(* RadioLink is silent on MESH, for any number of switches, messages,      *)
(* postings and lost connections; and every queue keeps its bound.         *)
(***************************************************************************)
EXTENDS Console, SequenceTheorems, TLAPS

(***************************************************************************)
(* What RadioLink will have done once its thread has carried out all that  *)
(* is posted: the last posting decides.                                    *)
(***************************************************************************)
Quiet == IF posted = <<>> THEN ~radioOn ELSE posted[Len(posted)] = FALSE

OnMesh == path = "mesh" /\ native = "mesh" /\ ~aside

Posts == posted \in Seq(BOOLEAN)

RadioInv == Posts /\ (OnMesh => Quiet)

(***************************************************************************)
(* Sequences of postings.                                                  *)
(***************************************************************************)
LEMMA PostedLast ==
  ASSUME NEW s \in Seq(BOOLEAN), NEW b \in BOOLEAN
  PROVE  /\ s \o <<b>> \in Seq(BOOLEAN)
         /\ s \o <<b>> # <<>>
         /\ (s \o <<b>>)[Len(s \o <<b>>)] = b
OBVIOUS

LEMMA PostedNothing ==
  ASSUME NEW s \in Seq(BOOLEAN)
  PROVE  s \o <<>> = s
OBVIOUS

LEMMA PostedTyped ==
  ASSUME NEW s \in Seq(BOOLEAN), NEW t \in Seq(BOOLEAN)
  PROVE  s \o t \in Seq(BOOLEAN)
OBVIOUS

LEMMA CallsTyped == <<>> \in Seq(BOOLEAN) /\ <<TRUE>> \in Seq(BOOLEAN) /\ <<FALSE>> \in Seq(BOOLEAN)
OBVIOUS

LEMMA TailLast ==
  ASSUME NEW S, NEW s \in Seq(S), s # <<>>, Len(s) # 1
  PROVE  Tail(s) # <<>> /\ Tail(s)[Len(Tail(s))] = s[Len(s)]
<1>1. Len(s) \in Nat /\ Len(s) > 1
  BY EmptySeq
<1>2. Len(Tail(s)) = Len(s) - 1
  BY HeadTailProperties
<1>3. Tail(s)[Len(s) - 1] = s[(Len(s) - 1) + 1]
  BY <1>1, <1>2, HeadTailProperties
<1>4. Tail(s) # <<>>
  <2>1. Len(Tail(s)) # 0
    BY <1>1, <1>2
  <2> QED
    BY <2>1, EmptySeq
<1>5. (Len(s) - 1) + 1 = Len(s)
  BY <1>1
<1> QED
  BY <1>2, <1>3, <1>4, <1>5

(***************************************************************************)
(* Taking on another path ends with RadioLink told to stop, or off MESH.   *)
(***************************************************************************)
LEMMA AdoptingIsQuiet ==
  ASSUME RadioInv, NEW next, NEW tick \in BOOLEAN, adoptRadioPath(next, tick)
  PROVE  RadioInv'
<1>1. CASE next = "radio"
  <2> DEFINE first == IF holder = "none" /\ native' = "radio" THEN <<TRUE>> ELSE <<>>
             second == IF tick /\ ~manual THEN <<TRUE>> ELSE <<>>
  <2>1. first \in Seq(BOOLEAN) /\ second \in Seq(BOOLEAN)
    BY CallsTyped
  <2>2. posted' = posted \o (first \o second) /\ path' = "radio"
    BY <1>1 DEF adoptRadioPath, ApplyRadio, post
  <2> HIDE DEF first, second
  <2>3. posted' \in Seq(BOOLEAN)
    BY <2>1, <2>2, PostedTyped DEF RadioInv, Posts
  <2> QED
    BY <2>2, <2>3 DEF RadioInv, Posts, OnMesh
<1>2. CASE next # "radio"
  <2>1. posted' = posted \o <<FALSE>>
    BY <1>2 DEF adoptRadioPath, ApplyMesh, post
  <2> QED
    BY <2>1, PostedLast DEF RadioInv, Posts, Quiet
<1> QED
  BY <1>1, <1>2

(***************************************************************************)
(* On MESH a message from the gateway posts nothing.                       *)
(***************************************************************************)
LEMMA MessagesPost ==
  ASSUME RadioInv, OnHello \/ OnControl
  PROVE  RadioInv'
<1> DEFINE more(h) == IF FinishesRadio(h) /\ native = "radio" THEN <<TRUE>> ELSE <<>>
<1>1. ManualCalls \in Seq(BOOLEAN) /\ \A h : more(h) \in Seq(BOOLEAN)
  BY CallsTyped DEF ManualCalls
<1>2. path = "mesh" /\ native = "mesh" => ManualCalls = <<>> /\ \A h : more(h) = <<>>
  BY DEF ManualCalls, radioDirect
<1>3. CASE OnHello
  <2>1. posted' = posted \o ManualCalls /\ UNCHANGED <<path, native, aside, radioOn>>
    BY <1>3 DEF OnHello, post, app
  <2> QED
    BY <1>1, <1>2, <2>1, PostedTyped, PostedNothing DEF RadioInv, Posts, OnMesh, Quiet
<1>4. CASE OnControl
  <2>1. /\ posted' = posted \o (ManualCalls \o more(holder'))
        /\ UNCHANGED <<path, native, aside, radioOn>>
    BY <1>4 DEF OnControl, finishRadioAcquire, post, app
  <2>2. <<>> \o <<>> = <<>>
    BY CallsTyped, PostedNothing
  <2> HIDE DEF more
  <2> QED
    BY <1>1, <1>2, <2>1, <2>2, PostedTyped, PostedNothing
    DEF RadioInv, Posts, OnMesh, Quiet
<1> QED
  BY <1>3, <1>4

(***************************************************************************)
(* RadioLink's thread takes the oldest posting; the last one stays last.   *)
(***************************************************************************)
LEMMA CarryingOutIsQuiet ==
  ASSUME RadioInv, setEnabled
  PROVE  RadioInv'
<1>1. /\ posted # <<>> /\ posted \in Seq(BOOLEAN)
      /\ radioOn' = Head(posted) /\ posted' = Tail(posted)
      /\ UNCHANGED <<path, native, aside>>
  BY DEF RadioInv, Posts, setEnabled, page, app
<1>2. posted' \in Seq(BOOLEAN)
  BY <1>1
<1>3. CASE Len(posted) = 1
  BY <1>1, <1>2, <1>3 DEF RadioInv, Posts, OnMesh, Quiet
<1>4. CASE Len(posted) # 1
  <2>1. posted' # <<>> /\ posted'[Len(posted')] = posted[Len(posted)]
    BY <1>1, <1>4, TailLast
  <2> QED
    BY <1>1, <1>2, <2>1 DEF RadioInv, Posts, OnMesh, Quiet
<1> QED
  BY <1>3, <1>4

(***************************************************************************)
(* However often and fast the path was switched, RadioLink is silent on    *)
(* MESH once it has done what it was told, unless something bypassed the   *)
(* handshake.                                                              *)
(***************************************************************************)
THEOREM MeshIsSilent == Spec => []MeshSilencesRadio
<1>1. Init => RadioInv
  BY CallsTyped DEF Init, RadioInv, Posts, OnMesh, Quiet
<1>2. RadioInv /\ [Next]_vars => RadioInv'
  <2> SUFFICES ASSUME RadioInv, [Next]_vars
               PROVE  RadioInv'
    OBVIOUS
  <2> USE DEF RadioInv, Posts, OnMesh, Quiet
  <2>1. CASE toggleRadioPath
    <3>1. CASE native = "radio"
      BY <2>1, <3>1, PostedLast DEF toggleRadioPath, post
    <3>2. CASE native # "radio"
      BY <2>1, <3>2, PostedNothing DEF toggleRadioPath, post
    <3> QED
      BY <3>1, <3>2
  <2>2. CASE PushToWeb
    BY <2>2, AdoptingIsQuiet DEF PushToWeb
  <2>3. CASE Loop
    <3>1. CASE native # path /\ adoptRadioPath(native, TRUE)
      BY <3>1, AdoptingIsQuiet
    <3>2. CASE native = "radio" /\ post(ManualCalls) /\ UNCHANGED app
      <4>1. ManualCalls \in Seq(BOOLEAN)
        BY CallsTyped DEF ManualCalls
      <4> QED
        BY <3>2, <4>1, PostedTyped DEF post, app
    <3> QED
      BY <2>3, <3>1, <3>2 DEF Loop
  <2>4. CASE waitRadioReleased
    BY <2>4 DEF waitRadioReleased, app, radio
  <2>5. CASE AskForControl \/ ControlButton
    BY <2>5 DEF AskForControl, ControlButton, page, app, radio
  <2>6. CASE radioCmd \/ NativeVideoStart
    <3>1. path' = path
      BY <2>6 DEF radioCmd, NativeVideoStart, page
    <3>2. CASE posted' = posted \o <<TRUE>> /\ aside' = (aside \/ path = "mesh")
      BY <3>1, <3>2, PostedLast
    <3>3. CASE UNCHANGED <<posted, aside, native, radioOn>>
      BY <3>1, <3>3
    <3> QED
      BY <2>6, <3>2, <3>3 DEF radioCmd, NativeVideoStart, post
  <2>7. CASE startNative \/ blockClaim
    BY <2>7 DEF startNative, blockClaim, page, app, radio
  <2>8. CASE setEnabled
    BY <2>8, CarryingOutIsQuiet
  <2>9. CASE onWsOpen \/ onWsClose \/ DispatchMessage
    BY <2>9 DEF onWsOpen, onWsClose, DispatchMessage, page, app, radio
  <2>10. CASE OtherClaims \/ OtherYields \/ LeaseExpires
    BY <2>10 DEF OtherClaims, OtherYields, LeaseExpires, Becomes, page, app, radio
  <2>11. CASE OnHello \/ OnControl
    BY <2>11, MessagesPost
  <2>12. CASE ClaimAgain
    BY <2>12 DEF ClaimAgain, app, radio
  <2>13. CASE UNCHANGED vars
    BY <2>13 DEF vars, page, app, radio
  <2> QED
    BY <2>1, <2>2, <2>3, <2>4, <2>5, <2>6, <2>7, <2>8, <2>9, <2>10, <2>11,
       <2>12, <2>13 DEF Next
<1>3. RadioInv => MeshSilencesRadio
  BY DEF RadioInv, OnMesh, Quiet, MeshSilencesRadio
<1> QED
  BY <1>1, <1>2, <1>3, PTL DEF Spec

-------------------------------------------------------------------------------
(***************************************************************************)
(* Types.  What is posted stays within its bound because whoever posts     *)
(* asks for room first, and the wire because an answer takes the place of  *)
(* what it answers; without a connection the wire is empty, so that no     *)
(* message can make a page without a connection the holder.                *)
(***************************************************************************)
Fit(p) == p \in Seq(BOOLEAN) /\ Len(p) <= MaxPosted

OnWire(u, d) ==
  /\ u \in Seq({"claim", "yield"}) /\ d \in Seq(Messages)
  /\ Len(u) + Len(d) <= MaxPending

PathTypes == path \in Paths /\ native \in Paths /\ pushed \in Seq(Paths)

PageFlags == /\ radioPending \in BOOLEAN /\ meshPending \in BOOLEAN
             /\ polling \in BOOLEAN /\ retry \in BOOLEAN
             /\ manual \in BOOLEAN /\ fallback \in BOOLEAN

OtherFlags == /\ saving \in BOOLEAN /\ radioOn \in BOOLEAN
              /\ aside \in BOOLEAN /\ link \in BOOLEAN

Counts == /\ switches \in 0..MaxSwitches /\ drops \in 0..MaxDrops
          /\ starting \in 0..MaxStarts

Holders == /\ holder \in {"none", "me", "other"}
           /\ controller \in {"none", "me", "other", "ghost"}

Lost == ~link => /\ holder = "none" /\ controller # "me"
                 /\ up = <<>> /\ down = <<>>

ConsoleInv ==
  PathTypes /\ PageFlags /\ OtherFlags /\ Counts /\ Holders /\ Lost
  /\ Fit(posted) /\ OnWire(up, down)

LEMMA ConsoleTyped == ConsoleInv => ConsoleTypeOK
  BY DEF ConsoleInv, ConsoleTypeOK, PathTypes, PageFlags, OtherFlags, Counts,
         Holders, Lost, Fit, OnWire

(***************************************************************************)
(* Queues.                                                                 *)
(***************************************************************************)
LEMMA FirstTaken ==
  ASSUME NEW S, NEW s \in Seq(S), s # <<>>
  PROVE  /\ Tail(s) \in Seq(S) /\ Head(s) \in S
         /\ Len(s) \in Nat /\ Len(s) > 0 /\ Len(Tail(s)) = Len(s) - 1
OBVIOUS

LEMMA Joined ==
  ASSUME NEW S, NEW s \in Seq(S), NEW t \in Seq(S)
  PROVE  /\ s \o t \in Seq(S) /\ Len(s \o t) = Len(s) + Len(t)
         /\ Len(s) \in Nat /\ Len(t) \in Nat
OBVIOUS

LEMMA OneMore ==
  ASSUME NEW S, NEW s \in Seq(S), NEW e \in S
  PROVE  /\ Append(s, e) \in Seq(S) /\ s \o <<e>> \in Seq(S)
         /\ Len(s) \in Nat /\ Len(Append(s, e)) = Len(s) + 1
         /\ Len(s \o <<e>>) = Len(s) + 1
OBVIOUS

LEMMA Single ==
  ASSUME NEW S, NEW e \in S
  PROVE  <<e>> \in Seq(S) /\ Len(<<e>>) = 1
OBVIOUS

LEMMA Nothing ==
  ASSUME NEW S
  PROVE  <<>> \in Seq(S) /\ Len(<<>>) = 0
OBVIOUS

(***************************************************************************)
(* Whoever makes n calls of setEnabled at most, and has room for them.     *)
(***************************************************************************)
LEMMA CallsFit ==
  ASSUME Fit(posted), NEW n \in Nat, PostRoom(n),
         NEW calls \in Seq(BOOLEAN), Len(calls) <= n, post(calls)
  PROVE  Fit(posted')
<1>1. /\ posted' \in Seq(BOOLEAN) /\ Len(posted') = Len(posted) + Len(calls)
      /\ Len(posted) \in Nat /\ Len(calls) \in Nat
  BY Joined DEF Fit, post
<1> QED
  BY <1>1, ConsoleAssumption DEF Fit, PostRoom, ConsoleAssumption

LEMMA AtMostOne ==
  ASSUME NEW b \in BOOLEAN, NEW calls, calls = IF b THEN <<TRUE>> ELSE <<>>
  PROVE  calls \in Seq(BOOLEAN) /\ Len(calls) \in Nat /\ Len(calls) <= 1
<1>1. CASE b
  BY <1>1, Single
<1>2. CASE ~b
  BY <1>2, Nothing
<1> QED
  BY <1>1, <1>2

LEMMA AtMostTwo ==
  ASSUME NEW s \in Seq(BOOLEAN), Len(s) \in Nat, Len(s) <= 1,
         NEW t \in Seq(BOOLEAN), Len(t) \in Nat, Len(t) <= 1
  PROVE  s \o t \in Seq(BOOLEAN) /\ Len(s \o t) <= 2
<1>1. s \o t \in Seq(BOOLEAN) /\ Len(s \o t) = Len(s) + Len(t)
  BY Joined
<1> QED
  BY <1>1

LEMMA ManualCallsTyped ==
  ManualCalls \in Seq(BOOLEAN) /\ Len(ManualCalls) \in Nat /\ Len(ManualCalls) <= 1
<1>1. (radioDirect /\ ~manual) \in BOOLEAN
  OBVIOUS
<1> QED
  BY <1>1, AtMostOne DEF ManualCalls

(***************************************************************************)
(* The messages.                                                           *)
(***************************************************************************)
LEMMA SentFits ==
  ASSUME OnWire(up, down), Room, NEW m \in {"claim", "yield"},
         send(<<m>>) \/ UNCHANGED up, UNCHANGED down
  PROVE  OnWire(up', down')
<1>1. CASE up' = up \o <<m>>
  <2>1. up' \in Seq({"claim", "yield"}) /\ Len(up') = Len(up) + 1 /\ Len(up) \in Nat
    BY <1>1, OneMore DEF OnWire
  <2>2. Len(down) \in Nat
    BY DEF OnWire
  <2> QED
    BY <2>1, <2>2, ConsoleAssumption DEF OnWire, Room, ConsoleAssumption
<1>2. CASE UNCHANGED up
  BY <1>2 DEF OnWire
<1> QED
  BY <1>1, <1>2 DEF send

LEMMA ToldFits ==
  ASSUME OnWire(up, down), Room, NEW m \in Messages, UNCHANGED up,
         down' = Append(down, m)
  PROVE  OnWire(up', down')
<1>1. down' \in Seq(Messages) /\ Len(down') = Len(down) + 1 /\ Len(down) \in Nat
  BY OneMore DEF OnWire
<1>2. Len(up) \in Nat
  BY DEF OnWire
<1> QED
  BY <1>1, <1>2, ConsoleAssumption DEF OnWire, Room, ConsoleAssumption

LEMMA Answered ==
  ASSUME OnWire(up, down), up # <<>>, NEW m \in Messages, up' = Tail(up),
         down' = Append(down, m) \/ UNCHANGED down
  PROVE  OnWire(up', down')
<1>1. /\ up' \in Seq({"claim", "yield"}) /\ Len(up') = Len(up) - 1
      /\ Len(up) \in Nat
  BY FirstTaken DEF OnWire
<1>2. Len(down) \in Nat
  BY DEF OnWire
<1>3. CASE down' = Append(down, m)
  <2>1. down' \in Seq(Messages) /\ Len(down') = Len(down) + 1
    BY <1>3, OneMore DEF OnWire
  <2> QED
    BY <1>1, <1>2, <2>1, ConsoleAssumption DEF OnWire, ConsoleAssumption
<1>4. CASE UNCHANGED down
  BY <1>1, <1>2, <1>4, ConsoleAssumption DEF OnWire, ConsoleAssumption
<1> QED
  BY <1>3, <1>4

LEMMA Heard ==
  ASSUME OnWire(up, down), down # <<>>, down' = Tail(down),
         send(<<"claim">>) \/ UNCHANGED up
  PROVE  OnWire(up', down') /\ Head(down).holder \in {"none", "me", "other"}
<1>1. /\ down' \in Seq(Messages) /\ Head(down) \in Messages
      /\ Len(down') = Len(down) - 1 /\ Len(down) \in Nat
  BY FirstTaken DEF OnWire
<1>2. Len(up) \in Nat
  BY DEF OnWire
<1>3. Head(down).holder \in {"none", "me", "other"}
  BY <1>1 DEF Messages
<1>4. CASE up' = up \o <<"claim">>
  <2>1. up' \in Seq({"claim", "yield"}) /\ Len(up') = Len(up) + 1
    BY <1>4, OneMore DEF OnWire
  <2> QED
    BY <1>1, <1>2, <1>3, <2>1, ConsoleAssumption DEF OnWire, ConsoleAssumption
<1>5. CASE UNCHANGED up
  BY <1>1, <1>2, <1>3, <1>5, ConsoleAssumption DEF OnWire, ConsoleAssumption
<1> QED
  BY <1>4, <1>5 DEF send

LEMMA ToldTyped ==
  \A t \in {"hello", "control"}, c \in {"none", "me", "other", "ghost"} :
     [t |-> t, holder |-> Told(c)] \in Messages
  BY DEF Told, Messages

(***************************************************************************)
(* requestControl sends one claim or nothing, and nothing unless there is  *)
(* a connection.                                                           *)
(***************************************************************************)
LEMMA ClaimsOnce ==
  ASSUME NEW h, requestControl(h)
  PROVE  (send(<<"claim">>) \/ UNCHANGED up) /\ (~link => UNCHANGED up)
  BY DEF requestControl, MayClaim, send

-------------------------------------------------------------------------------
(***************************************************************************)
(* The invariant, step by step.                                            *)
(***************************************************************************)
LEMMA ConsoleBegins == Init => ConsoleInv
<1> SUFFICES ASSUME Init PROVE ConsoleInv
  OBVIOUS
<1>1. PathTypes
  BY Nothing DEF Init, PathTypes, Paths
<1>2. PageFlags /\ OtherFlags
  BY DEF Init, PageFlags, OtherFlags
<1>3. Counts
  <2>1. \A n \in Nat : 0 \in 0..n
    OBVIOUS
  <2> QED
    BY <2>1, ConsoleAssumption DEF Init, Counts, ConsoleAssumption
<1>4. Holders /\ Lost
  BY DEF Init, Holders, Lost
<1>5. Fit(posted)
  <2>1. (path = "radio") \in BOOLEAN
    OBVIOUS
  <2>2. posted \in Seq(BOOLEAN) /\ Len(posted) \in Nat /\ Len(posted) <= 1
    BY <2>1, AtMostOne DEF Init
  <2> QED
    BY <2>2, ConsoleAssumption DEF Fit, ConsoleAssumption
<1>6. OnWire(up, down)
  <2>1. up \in Seq({"claim", "yield"}) /\ Len(up) = 0 /\ down \in Seq(Messages) /\ Len(down) = 0
    BY Nothing DEF Init
  <2> QED
    BY <2>1, ConsoleAssumption DEF OnWire, ConsoleAssumption
<1> QED
  BY <1>1, <1>2, <1>3, <1>4, <1>5, <1>6 DEF ConsoleInv

(***************************************************************************)
(* Both sides of adoptRadioPath: two calls and one message at most.        *)
(***************************************************************************)
LEMMA AdoptingKeepsTypes ==
  ASSUME ConsoleInv, NEW next \in Paths, NEW tick \in BOOLEAN,
         adoptRadioPath(next, tick), pushed' \in Seq(Paths)
  PROVE  ConsoleInv'
<1> USE DEF ConsoleInv
<1>1. PathTypes'
  BY DEF adoptRadioPath, PathTypes
<1>2. PageFlags'
  BY DEF adoptRadioPath, ApplyRadio, ApplyMesh, PageFlags, OtherFlags
<1>3. OtherFlags'
  BY DEF adoptRadioPath, ApplyRadio, ApplyMesh, OtherFlags
<1>4. Counts' /\ Holders'
  BY DEF adoptRadioPath, Counts, Holders
<1>5. \/ UNCHANGED up
      \/ link /\ send(<<"claim">>)
      \/ link /\ send(<<"yield">>)
  BY DEF adoptRadioPath, ApplyRadio, ApplyMesh, ClaimsNow, Lost, hasControl
<1>6. Lost'
  BY <1>5 DEF adoptRadioPath, Lost
<1>7. OnWire(up', down')
  BY <1>5, SentFits DEF adoptRadioPath
<1>8. Fit(posted')
  <2>1. CASE next = "radio"
    <3> DEFINE first == IF holder = "none" /\ native' = "radio" THEN <<TRUE>> ELSE <<>>
               second == IF tick /\ ~manual THEN <<TRUE>> ELSE <<>>
    <3>1. (holder = "none" /\ native' = "radio") \in BOOLEAN /\ (tick /\ ~manual) \in BOOLEAN
      OBVIOUS
    <3>2. first \in Seq(BOOLEAN) /\ Len(first) \in Nat /\ Len(first) <= 1
      BY <3>1, AtMostOne
    <3>3. second \in Seq(BOOLEAN) /\ Len(second) \in Nat /\ Len(second) <= 1
      BY <3>1, AtMostOne
    <3>4. post(first \o second)
      BY <2>1 DEF adoptRadioPath, ApplyRadio
    <3> HIDE DEF first, second
    <3>5. first \o second \in Seq(BOOLEAN) /\ Len(first \o second) <= 2
      BY <3>2, <3>3, AtMostTwo
    <3> QED
      BY <3>4, <3>5, CallsFit DEF adoptRadioPath
  <2>2. CASE next # "radio"
    <3>1. post(<<FALSE>>) /\ PostRoom(2)
      BY <2>2 DEF adoptRadioPath, ApplyMesh
    <3>2. <<FALSE>> \in Seq(BOOLEAN) /\ Len(<<FALSE>>) <= 2
      BY Single
    <3> QED
      BY <3>1, <3>2, CallsFit
  <2> QED
    BY <2>1, <2>2
<1> QED
  BY <1>1, <1>2, <1>3, <1>4, <1>6, <1>7, <1>8

LEMMA ButtonKeepsTypes ==
  ASSUME ConsoleInv, toggleRadioPath
  PROVE  ConsoleInv'
<1> USE DEF ConsoleInv
<1>1. native' \in Paths
  BY DEF toggleRadioPath, Paths
<1>2. PathTypes'
  BY <1>1, OneMore DEF toggleRadioPath, PathTypes, page
<1>3. PageFlags' /\ OtherFlags'
  BY DEF toggleRadioPath, PageFlags, OtherFlags, page, net
<1>4. Counts'
  BY ConsoleAssumption DEF toggleRadioPath, Counts, net, ConsoleAssumption
<1>5. Holders' /\ Lost'
  BY DEF toggleRadioPath, Holders, Lost, page, net
<1>6. OnWire(up', down')
  BY DEF toggleRadioPath, net, OnWire
<1>7. Fit(posted')
  <2>1. CASE native = "radio"
    <3>1. <<FALSE>> \in Seq(BOOLEAN) /\ Len(<<FALSE>>) <= 1 /\ post(<<FALSE>>) /\ PostRoom(1)
      BY <2>1, Single DEF toggleRadioPath
    <3> QED
      BY <3>1, CallsFit
  <2>2. CASE native # "radio"
    <3>1. <<>> \in Seq(BOOLEAN) /\ Len(<<>>) <= 1 /\ post(<<>>) /\ PostRoom(1)
      BY <2>2, Nothing DEF toggleRadioPath
    <3> QED
      BY <3>1, CallsFit
  <2> QED
    BY <2>1, <2>2
<1> QED
  BY <1>2, <1>3, <1>4, <1>5, <1>6, <1>7

(***************************************************************************)
(* The page's own steps that switch no path.                               *)
(***************************************************************************)
LEMMA ModeKeepsTypes ==
  ASSUME ConsoleInv, Loop, native = path
  PROVE  ConsoleInv'
<1> USE DEF ConsoleInv
<1>1. PostRoom(1) /\ post(ManualCalls) /\ manual' \in BOOLEAN
  BY DEF Loop, ensureManualMode, radioDirect, PageFlags
<1>2. /\ UNCHANGED <<path, holder, radioPending, meshPending, polling, retry, fallback>>
      /\ UNCHANGED <<saving, native, pushed, starting, switches, radioOn, aside>>
      /\ UNCHANGED <<link, up, down, controller, drops>>
  BY DEF Loop, app, net
<1>3. PathTypes' /\ Counts' /\ Holders' /\ Lost'
  BY <1>2 DEF PathTypes, Counts, Holders, Lost
<1>4. PageFlags' /\ OtherFlags'
  BY <1>1, <1>2 DEF PageFlags, OtherFlags
<1>5. OnWire(up', down')
  BY <1>2
<1>6. Fit(posted')
  BY <1>1, ManualCallsTyped, CallsFit
<1> QED
  BY <1>3, <1>4, <1>5, <1>6

LEMMA WaitingKeepsTypes ==
  ASSUME ConsoleInv, waitRadioReleased
  PROVE  ConsoleInv'
<1> USE DEF ConsoleInv
<1>1. Room /\ (send(<<"claim">>) \/ UNCHANGED up) /\ (~link => UNCHANGED up)
  BY ClaimsOnce DEF waitRadioReleased
<1>2. /\ UNCHANGED <<path, holder, radioPending, retry, manual, fallback, saving>>
      /\ UNCHANGED <<native, pushed, starting, switches, posted, radioOn, aside>>
      /\ UNCHANGED <<link, down, controller, drops>>
  BY DEF waitRadioReleased, app, radio
<1>3. PathTypes' /\ Counts' /\ Holders' /\ Fit(posted') /\ OtherFlags'
  BY <1>2 DEF PathTypes, Counts, Holders, OtherFlags
<1>4. PageFlags'
  <2>1. polling' \in BOOLEAN /\ meshPending' \in BOOLEAN
    BY DEF waitRadioReleased, PageFlags
  <2> QED
    BY <2>1, <1>2 DEF PageFlags
<1>5. Lost'
  BY <1>1, <1>2 DEF Lost
<1>6. OnWire(up', down')
  BY <1>1, <1>2, SentFits
<1> QED
  BY <1>3, <1>4, <1>5, <1>6

LEMMA AskingKeepsTypes ==
  ASSUME ConsoleInv, AskForControl \/ ControlButton \/ ClaimAgain
  PROVE  ConsoleInv'
<1> USE DEF ConsoleInv
<1>0. Len(up) \in Nat /\ Len(down) \in Nat
  BY DEF OnWire
<1>1. Room
  BY <1>0, ConsoleAssumption
  DEF AskForControl, ControlButton, ClaimAgain, Spare, Room, ConsoleAssumption
<1>2. \/ UNCHANGED up
      \/ link /\ send(<<"claim">>)
      \/ link /\ send(<<"yield">>)
  BY DEF AskForControl, ControlButton, ClaimAgain, requestControl, MayClaim
<1>3. /\ UNCHANGED <<path, holder, radioPending, meshPending, polling, manual>>
      /\ UNCHANGED <<saving, native, pushed, starting, switches, posted, radioOn, aside>>
      /\ UNCHANGED <<link, down, controller, drops>>
      /\ retry' \in BOOLEAN /\ fallback' \in BOOLEAN
  BY DEF AskForControl, ControlButton, ClaimAgain, page, app, radio, PageFlags,
         hasControl
<1>4. PathTypes' /\ Counts' /\ Holders' /\ Fit(posted') /\ OtherFlags'
  BY <1>3 DEF PathTypes, Counts, Holders, OtherFlags
<1>5. PageFlags'
  BY <1>3 DEF PageFlags
<1>6. Lost'
  BY <1>2, <1>3 DEF Lost
<1>7. OnWire(up', down')
  BY <1>1, <1>2, <1>3, SentFits
<1> QED
  BY <1>4, <1>5, <1>6, <1>7

(***************************************************************************)
(* Keys and pictures over the radio, a save, and RadioLink's own thread.   *)
(***************************************************************************)
LEMMA RadioKeepsTypes ==
  ASSUME ConsoleInv,
         radioCmd \/ startNative \/ NativeVideoStart \/ blockClaim \/ setEnabled
  PROVE  ConsoleInv'
<1> USE DEF ConsoleInv
<1>1. /\ UNCHANGED <<path, holder, radioPending, meshPending, polling, retry>>
      /\ UNCHANGED <<manual, fallback, native, pushed, switches>>
      /\ UNCHANGED <<link, up, down, controller, drops>>
  BY DEF radioCmd, startNative, NativeVideoStart, blockClaim, setEnabled, page, app, net
<1>2. starting' \in 0..MaxStarts
  BY ConsoleAssumption DEF radioCmd, startNative, NativeVideoStart, blockClaim,
     setEnabled, app, Counts, ConsoleAssumption
<1>3. PathTypes' /\ PageFlags' /\ Counts' /\ Holders' /\ Lost' /\ OnWire(up', down')
  BY <1>1, <1>2 DEF PathTypes, PageFlags, Counts, Holders, Lost
<1>4. Fit(posted') /\ radioOn' \in BOOLEAN
  <2>1. CASE (radioCmd \/ NativeVideoStart) /\ post(<<TRUE>>)
    <3>1. <<TRUE>> \in Seq(BOOLEAN) /\ Len(<<TRUE>>) <= 3 /\ PostRoom(3)
      BY <2>1, Single DEF radioCmd, NativeVideoStart
    <3>2. Fit(posted')
      BY <2>1, <3>1, CallsFit
    <3> QED
      BY <2>1, <3>2 DEF radioCmd, NativeVideoStart, OtherFlags
  <2>2. CASE startNative \/ blockClaim \/ (NativeVideoStart /\ UNCHANGED posted)
    BY <2>2 DEF startNative, blockClaim, NativeVideoStart, radio, OtherFlags
  <2>3. CASE setEnabled
    BY <2>3, FirstTaken, ConsoleAssumption DEF setEnabled, Fit, ConsoleAssumption
  <2>4. (radioCmd => post(<<TRUE>>)) /\ (NativeVideoStart => post(<<TRUE>>) \/ UNCHANGED posted)
    BY DEF radioCmd, NativeVideoStart
  <2> QED
    BY <2>1, <2>2, <2>3, <2>4
<1>5. OtherFlags'
  BY <1>1, <1>4 DEF OtherFlags, radioCmd, startNative, NativeVideoStart, blockClaim,
     setEnabled, radio
<1> QED
  BY <1>3, <1>4, <1>5

-------------------------------------------------------------------------------
(***************************************************************************)
(* The connection and the gateway.  Only a claim that arrives makes the    *)
(* page the controller, and none arrives without a connection.             *)
(***************************************************************************)
LEMMA GatewayKeepsTypes ==
  ASSUME ConsoleInv,
         onWsOpen \/ onWsClose \/ DispatchMessage
           \/ OtherClaims \/ OtherYields \/ LeaseExpires
  PROVE  ConsoleInv'
<1> USE DEF ConsoleInv
<1>1. /\ UNCHANGED <<path, radioPending, meshPending, polling, retry, fallback>>
      /\ UNCHANGED <<saving, native, pushed, starting, switches, posted, radioOn, aside>>
      /\ manual' \in BOOLEAN
  BY DEF onWsOpen, onWsClose, DispatchMessage, OtherClaims, OtherYields,
         LeaseExpires, Becomes, page, app, radio, PageFlags
<1>2. PathTypes' /\ PageFlags' /\ Fit(posted')
  BY <1>1 DEF PathTypes, PageFlags
<1>3. CASE onWsOpen
  <2>1. /\ ~link /\ link' /\ UNCHANGED <<holder, up, controller, drops>>
        /\ down' = <<[t |-> "hello", holder |-> Told(controller)]>>
    BY <1>3 DEF onWsOpen, page
  <2>2. down' \in Seq(Messages) /\ Len(down') = 1
    BY <2>1, ToldTyped, Single DEF Holders
  <2>3. up' \in Seq({"claim", "yield"}) /\ Len(up') = 0
    BY <2>1, Nothing DEF Lost
  <2>4. OnWire(up', down')
    BY <2>2, <2>3, ConsoleAssumption DEF OnWire, ConsoleAssumption
  <2>5. link' \in BOOLEAN
    BY <1>3 DEF onWsOpen
  <2> QED
    BY <1>1, <1>2, <2>1, <2>4, <2>5 DEF OtherFlags, Counts, Holders, Lost
<1>4. CASE onWsClose
  <2>1. /\ link' = FALSE /\ up' = <<>> /\ down' = <<>> /\ holder' = "none"
        /\ controller' \in {"none", "other", "ghost"}
    BY <1>4 DEF onWsClose, Holders
  <2>2. OnWire(up', down')
    BY <2>1, Nothing, ConsoleAssumption DEF OnWire, ConsoleAssumption
  <2>3. Counts'
    BY <1>1, <1>4, ConsoleAssumption DEF onWsClose, Counts, ConsoleAssumption
  <2>4. OtherFlags' /\ Holders' /\ Lost'
    BY <1>1, <2>1 DEF OtherFlags, Holders, Lost
  <2> QED
    BY <1>2, <2>2, <2>3, <2>4
<1>5. CASE DispatchMessage
  <2>1. /\ up # <<>> /\ up' = Tail(up)
        /\ controller' \in {"none", "me", "other", "ghost"}
        /\ UNCHANGED <<holder, link, drops>>
    BY <1>5 DEF DispatchMessage, page, Holders
  <2>2. [t |-> "control", holder |-> Told(controller')] \in Messages
    BY <2>1, ToldTyped
  <2>3. \/ down' = Append(down, [t |-> "control", holder |-> Told(controller')])
        \/ UNCHANGED down
    BY <1>5 DEF DispatchMessage, Tell
  <2>4. OnWire(up', down')
    BY <2>1, <2>2, <2>3, Answered
  <2>5. link
    BY <2>1 DEF Lost
  <2> QED
    BY <1>1, <1>2, <2>1, <2>4, <2>5 DEF OtherFlags, Counts, Holders, Lost
<1>6. ASSUME NEW c \in {"none", "other"}, Becomes(c)
      PROVE  ConsoleInv'
  <2>1. /\ Spare /\ controller' = c /\ UNCHANGED <<holder, link, up, drops>>
        /\ \/ link /\ down' = Append(down, [t |-> "control", holder |-> Told(c)])
           \/ UNCHANGED down
    BY <1>6 DEF Becomes, Tell, page
  <2>2. Len(up) \in Nat /\ Len(down) \in Nat
    BY DEF OnWire
  <2>3. Room
    BY <2>1, <2>2, ConsoleAssumption DEF Spare, Room, ConsoleAssumption
  <2>4. [t |-> "control", holder |-> Told(c)] \in Messages
    BY ToldTyped
  <2>5. CASE link /\ down' = Append(down, [t |-> "control", holder |-> Told(c)])
    <3>1. OnWire(up', down')
      BY <2>1, <2>3, <2>4, <2>5, ToldFits
    <3> QED
      BY <1>1, <1>2, <2>1, <2>5, <3>1 DEF OtherFlags, Counts, Holders, Lost
  <2>6. CASE UNCHANGED down
    BY <1>1, <1>2, <2>1, <2>6 DEF OtherFlags, Counts, Holders, Lost, OnWire
  <2> QED
    BY <2>1, <2>5, <2>6
<1> QED
  BY <1>3, <1>4, <1>5, <1>6 DEF OtherClaims, OtherYields, LeaseExpires

LEMMA MessagesKeepTypes ==
  ASSUME ConsoleInv, OnHello \/ OnControl
  PROVE  ConsoleInv'
<1> USE DEF ConsoleInv
<1>1. /\ down # <<>> /\ down' = Tail(down) /\ holder' = Head(down).holder
      /\ send(<<"claim">>) \/ UNCHANGED up
  BY ClaimsOnce DEF OnHello, OnControl, Arrives
<1>2. /\ UNCHANGED <<path, meshPending, polling, fallback>>
      /\ UNCHANGED <<saving, native, pushed, starting, switches, radioOn, aside>>
      /\ UNCHANGED <<link, controller, drops>>
  BY DEF OnHello, OnControl, app
<1>3. link
  BY <1>1 DEF Lost
<1>4. OnWire(up', down') /\ holder' \in {"none", "me", "other"}
  BY <1>1, Heard
<1>5. radioPending' \in BOOLEAN /\ retry' \in BOOLEAN /\ manual' \in BOOLEAN
  BY DEF OnHello, OnControl, finishRadioAcquire, ensureManualMode, radioDirect,
         PageFlags, FinishesRadio, ClaimsLater
<1>6. PathTypes' /\ PageFlags' /\ OtherFlags' /\ Counts' /\ Holders' /\ Lost'
  BY <1>2, <1>3, <1>4, <1>5
  DEF PathTypes, PageFlags, OtherFlags, Counts, Holders, Lost
<1>7. Fit(posted')
  <2>1. CASE OnHello
    BY <2>1, ManualCallsTyped, CallsFit DEF OnHello
  <2>2. CASE OnControl
    <3> DEFINE b == FinishesRadio(holder') /\ native = "radio"
               more == IF b THEN <<TRUE>> ELSE <<>>
    <3>1. b \in BOOLEAN
      BY DEF FinishesRadio
    <3>2. post(ManualCalls \o more) /\ PostRoom(2)
      BY <2>2 DEF OnControl, finishRadioAcquire
    <3>3. more = IF b THEN <<TRUE>> ELSE <<>>
      OBVIOUS
    <3> HIDE DEF b, more
    <3>4. more \in Seq(BOOLEAN) /\ Len(more) \in Nat /\ Len(more) <= 1
      BY <3>1, <3>3, AtMostOne
    <3>5. ManualCalls \o more \in Seq(BOOLEAN) /\ Len(ManualCalls \o more) <= 2
      BY <3>4, ManualCallsTyped, AtMostTwo
    <3> QED
      BY <3>2, <3>5, CallsFit
  <2> QED
    BY <2>1, <2>2
<1> QED
  BY <1>4, <1>6, <1>7

-------------------------------------------------------------------------------
LEMMA ConsoleKept == ConsoleInv /\ [Next]_vars => ConsoleInv'
<1> SUFFICES ASSUME ConsoleInv, [Next]_vars
             PROVE  ConsoleInv'
  OBVIOUS
<1>1. CASE toggleRadioPath
  BY <1>1, ButtonKeepsTypes
<1>2. CASE PushToWeb
  <2>1. Head(pushed) \in Paths /\ pushed' \in Seq(Paths)
    BY <1>2, FirstTaken DEF PushToWeb, ConsoleInv, PathTypes
  <2> QED
    BY <1>2, <2>1, AdoptingKeepsTypes DEF PushToWeb
<1>3. CASE Loop
  <2>1. CASE native = path
    BY <1>3, <2>1, ModeKeepsTypes
  <2>2. CASE native # path
    <3>1. adoptRadioPath(native, TRUE) /\ native \in Paths /\ pushed' \in Seq(Paths)
      BY <1>3, <2>2 DEF Loop, ConsoleInv, PathTypes
    <3> QED
      BY <3>1, AdoptingKeepsTypes
  <2> QED
    BY <2>1, <2>2
<1>4. CASE waitRadioReleased
  BY <1>4, WaitingKeepsTypes
<1>5. CASE AskForControl \/ ControlButton \/ ClaimAgain
  BY <1>5, AskingKeepsTypes
<1>6. CASE radioCmd \/ startNative \/ NativeVideoStart \/ blockClaim \/ setEnabled
  BY <1>6, RadioKeepsTypes
<1>7. CASE \/ onWsOpen \/ onWsClose \/ DispatchMessage
           \/ OtherClaims \/ OtherYields \/ LeaseExpires
  BY <1>7, GatewayKeepsTypes
<1>8. CASE OnHello \/ OnControl
  BY <1>8, MessagesKeepTypes
<1>9. CASE UNCHANGED vars
  BY <1>9 DEF vars, page, app, radio, net, ConsoleInv, PathTypes, PageFlags,
              OtherFlags, Counts, Holders, Lost
<1> QED
  BY <1>1, <1>2, <1>3, <1>4, <1>5, <1>6, <1>7, <1>8, <1>9 DEF Next

(***************************************************************************)
(* Types, for any bounds: switchings posted, messages and switches never   *)
(* outgrow them, and a page without a connection holds nothing.            *)
(***************************************************************************)
THEOREM ConsoleTypeCorrect == Spec => []ConsoleTypeOK
  BY ConsoleBegins, ConsoleKept, ConsoleTyped, PTL DEF Spec

-------------------------------------------------------------------------------
(***************************************************************************)
(* The last thing said is what the gateway decided last.                   *)
(***************************************************************************)
LastWord == link => Said(Len(down)) = Told(controller)

(***************************************************************************)
(* Whoever is said to hold control and no longer does: that nobody holds   *)
(* it is said later.                                                       *)
(***************************************************************************)
LossesTold ==
  \A i \in 0..Len(down) :
    Said(i) \in {"none", Told(controller)}
      \/ \E j \in (i + 1)..Len(down) : Said(j) = "none"

(***************************************************************************)
(* The greeting comes first, and finds a page that holds nothing.          *)
(***************************************************************************)
Greeting ==
  \A i \in DOMAIN down : down[i].t = "hello" => i = 1 /\ holder = "none"

Hearsay == LastWord /\ LossesTold /\ TakesTurns /\ Greeting

(***************************************************************************)
(* What a step does to it.                                                 *)
(***************************************************************************)
SaysNothing == UNCHANGED <<holder, down, link>> /\ (controller' = controller \/ ~link)

Announces ==
  /\ link /\ UNCHANGED <<holder, link>>
  /\ down' = Append(down, [t |-> "control", holder |-> Told(controller')])
  /\ Told(controller) \in {"none", Told(controller')} \/ Told(controller') = "none"

Reads ==
  /\ UNCHANGED <<controller, link>>
  /\ down # <<>> /\ down' = Tail(down) /\ holder' = Head(down).holder

Greets ==
  /\ ~link /\ UNCHANGED <<holder, controller>>
  /\ down' = <<[t |-> "hello", holder |-> Told(controller)]>>

FallsSilent == ~link' /\ holder' = "none" /\ down' = <<>>

LEMMA WaysToHear ==
  ASSUME ConsoleInv, [Next]_vars
  PROVE  SaysNothing \/ Announces \/ Reads \/ Greets \/ FallsSilent
<1>1. CASE toggleRadioPath \/ PushToWeb \/ Loop \/ waitRadioReleased
  BY <1>1 DEF toggleRadioPath, PushToWeb, Loop, waitRadioReleased, adoptRadioPath,
              page, app, radio, net, SaysNothing
<1>2. CASE AskForControl \/ ControlButton \/ ClaimAgain
  BY <1>2 DEF AskForControl, ControlButton, ClaimAgain, page, SaysNothing
<1>3. CASE radioCmd \/ startNative \/ NativeVideoStart \/ blockClaim \/ setEnabled
  BY <1>3 DEF radioCmd, startNative, NativeVideoStart, blockClaim, setEnabled, page, net, SaysNothing
<1>4. CASE onWsOpen
  BY <1>4 DEF onWsOpen, page, Greets
<1>5. CASE onWsClose
  BY <1>5 DEF onWsClose, FallsSilent
<1>6. CASE DispatchMessage
  <2>1. link /\ UNCHANGED <<holder, link>>
    BY <1>6 DEF DispatchMessage, page, ConsoleInv, Lost
  <2>2. CASE Head(up) = "claim" \/ controller = "me"
    <3>1. down' = Append(down, [t |-> "control", holder |-> Told(controller')])
      BY <1>6, <2>2 DEF DispatchMessage, Tell
    <3>2. Told(controller) \in {"none", Told(controller')} \/ Told(controller') = "none"
      BY <1>6, <2>2 DEF DispatchMessage, Told
    <3> QED
      BY <2>1, <3>1, <3>2 DEF Announces
  <2>3. CASE ~(Head(up) = "claim" \/ controller = "me")
    BY <1>6, <2>1, <2>3 DEF DispatchMessage, SaysNothing
  <2> QED
    BY <2>2, <2>3
<1>7. CASE OtherClaims \/ OtherYields \/ LeaseExpires
  <2>1. UNCHANGED <<holder, link>>
    BY <1>7 DEF OtherClaims, OtherYields, LeaseExpires, Becomes, page
  <2>2. CASE link
    <3>1. down' = Append(down, [t |-> "control", holder |-> Told(controller')])
      BY <1>7, <2>2 DEF OtherClaims, OtherYields, LeaseExpires, Becomes, Tell
    <3>2. Told(controller) = "none" \/ Told(controller') = "none"
      BY <1>7 DEF OtherClaims, OtherYields, LeaseExpires, Becomes, Told
    <3> QED
      BY <2>1, <2>2, <3>1, <3>2 DEF Announces
  <2>3. CASE ~link
    BY <1>7, <2>1, <2>3 DEF OtherClaims, OtherYields, LeaseExpires, Becomes, SaysNothing
  <2> QED
    BY <2>2, <2>3
<1>8. CASE OnHello \/ OnControl
  BY <1>8 DEF OnHello, OnControl, Arrives, Reads
<1>9. CASE UNCHANGED vars
  BY <1>9 DEF vars, page, net, SaysNothing
<1> QED
  BY <1>1, <1>2, <1>3, <1>4, <1>5, <1>6, <1>7, <1>8, <1>9 DEF Next

LEMMA AppendAt ==
  ASSUME NEW S, NEW s \in Seq(S), NEW e \in S
  PROVE  /\ Len(s) \in Nat /\ Len(Append(s, e)) = Len(s) + 1
         /\ Append(s, e)[Len(s) + 1] = e
         /\ \A i \in 1..Len(s) : Append(s, e)[i] = s[i]
         /\ DOMAIN s = 1..Len(s) /\ DOMAIN Append(s, e) = 1..(Len(s) + 1)
OBVIOUS

LEMMA TailAt ==
  ASSUME NEW S, NEW s \in Seq(S), s # <<>>
  PROVE  /\ Len(s) \in Nat /\ Len(s) > 0 /\ Len(Tail(s)) = Len(s) - 1
         /\ Head(s) = s[1]
         /\ \A i \in 1..(Len(s) - 1) : Tail(s)[i] = s[i + 1]
         /\ DOMAIN s = 1..Len(s) /\ DOMAIN Tail(s) = 1..(Len(s) - 1)
OBVIOUS

(***************************************************************************)
(* One more message: what was said before stays said.                      *)
(***************************************************************************)
LEMMA AfterAnnouncing ==
  ASSUME ConsoleInv, ConsoleInv', Announces
  PROVE  /\ Len(down) \in Nat /\ Len(down') = Len(down) + 1
         /\ \A i \in 0..Len(down) : Said(i)' = Said(i)
         /\ \A i : i = Len(down') => Said(i)' = Told(controller')
<1> DEFINE m == [t |-> "control", holder |-> Told(controller')]
<1>1. m \in Messages /\ down \in Seq(Messages)
  BY ToldTyped DEF ConsoleInv, OnWire, Holders
<1>2. down' = Append(down, m) /\ holder' = holder /\ m.holder = Told(controller')
  BY DEF Announces
<1> HIDE DEF m
<1>3. /\ Len(down) \in Nat /\ Len(down') = Len(down) + 1
      /\ \A i \in 1..Len(down) : down'[i] = down[i]
      /\ down'[Len(down) + 1] = m
  BY <1>1, <1>2, AppendAt
<1>4. ASSUME NEW i \in 0..Len(down)
      PROVE  Said(i)' = Said(i)
  <2>1. CASE i = 0
    BY <1>2, <2>1 DEF Said
  <2>2. CASE i # 0
    <3>1. i \in 1..Len(down)
      BY <1>3, <2>2
    <3> QED
      BY <1>3, <2>2, <3>1 DEF Said
  <2> QED
    BY <2>1, <2>2
<1>5. ASSUME NEW i, i = Len(down')
      PROVE  Said(i)' = Told(controller')
  <2>1. i # 0 /\ down'[i] = m
    BY <1>3, <1>5
  <2> QED
    BY <1>2, <2>1 DEF Said
<1> QED
  BY <1>3, <1>4, <1>5

(***************************************************************************)
(* One message less: what was said before moves up.                        *)
(***************************************************************************)
LEMMA AfterReading ==
  ASSUME ConsoleInv, Reads
  PROVE  /\ Len(down) \in Nat /\ Len(down) > 0 /\ Len(down') = Len(down) - 1
         /\ \A i \in 0..Len(down') : Said(i)' = Said(i + 1)
<1>1. /\ down \in Seq(Messages) /\ down # <<>> /\ down' = Tail(down)
      /\ holder' = Head(down).holder
  BY DEF ConsoleInv, OnWire, Reads
<1>2. /\ Len(down) \in Nat /\ Len(down) > 0 /\ Len(down') = Len(down) - 1
      /\ Head(down) = down[1]
      /\ \A i \in 1..(Len(down) - 1) : down'[i] = down[i + 1]
  BY <1>1, TailAt
<1>3. ASSUME NEW i \in 0..Len(down')
      PROVE  Said(i)' = Said(i + 1)
  <2>1. CASE i = 0
    BY <1>1, <1>2, <2>1 DEF Said
  <2>2. CASE i # 0
    BY <1>2, <1>3, <2>2 DEF Said
  <2> QED
    BY <2>1, <2>2
<1> QED
  BY <1>2, <1>3

LEMMA HearsayAnnounced ==
  ASSUME ConsoleInv, ConsoleInv', Hearsay, Announces
  PROVE  Hearsay'
<1>1. /\ Len(down) \in Nat /\ Len(down') = Len(down) + 1
      /\ \A i \in 0..Len(down) : Said(i)' = Said(i)
      /\ \A i : i = Len(down') => Said(i)' = Told(controller')
  BY AfterAnnouncing
<1>2. LastWord'
  BY <1>1 DEF LastWord
<1>3. LossesTold'
  <2> SUFFICES ASSUME NEW i \in 0..Len(down')
               PROVE  \/ Said(i)' \in {"none", Told(controller')}
                      \/ \E j \in (i + 1)..Len(down') : Said(j)' = "none"
    BY DEF LossesTold
  <2>1. CASE i = Len(down')
    BY <1>1, <2>1
  <2>2. CASE i # Len(down') /\ Told(controller') = "none"
    BY <1>1, <2>2
  <2>3. CASE i # Len(down') /\ Told(controller') # "none"
    <3>1. Told(controller) \in {"none", Told(controller')}
      BY <2>3 DEF Announces
    <3>2. i \in 0..Len(down) /\ Said(i)' = Said(i)
      BY <1>1, <2>3
    <3>3. CASE Said(i) \in {"none", Told(controller)}
      BY <3>1, <3>2, <3>3
    <3>4. CASE \E j \in (i + 1)..Len(down) : Said(j) = "none"
      <4>1. PICK j \in (i + 1)..Len(down) : Said(j) = "none"
        BY <3>4
      <4>2. j \in (i + 1)..Len(down') /\ j \in 0..Len(down)
        BY <1>1, <3>2, <4>1
      <4> QED
        BY <1>1, <4>1, <4>2
    <3> QED
      BY <3>2, <3>3, <3>4 DEF Hearsay, LossesTold
  <2> QED
    BY <2>1, <2>2, <2>3
<1>4. TakesTurns'
  <2> SUFFICES ASSUME NEW i \in 0..Len(down'), NEW k \in 0..Len(down'), i < k,
                      Said(i)' # "none", Said(k)' # "none", Said(i)' # Said(k)'
               PROVE  \E j \in (i + 1)..(k - 1) : Said(j)' = "none"
    BY DEF TakesTurns
  <2>1. i \in 0..Len(down) /\ Said(i)' = Said(i)
    BY <1>1
  <2>2. CASE k = Len(down')
    <3>1. Said(k)' = Told(controller')
      BY <1>1, <2>2
    <3>2. Told(controller) \in {"none", Told(controller')}
      BY <3>1 DEF Announces
    <3>3. Said(i) \notin {"none", Told(controller)}
      BY <2>1, <3>1, <3>2
    <3>4. PICK j \in (i + 1)..Len(down) : Said(j) = "none"
      BY <2>1, <3>3 DEF Hearsay, LossesTold
    <3>5. j \in (i + 1)..(k - 1) /\ j \in 0..Len(down)
      BY <1>1, <2>1, <2>2, <3>4
    <3> QED
      BY <1>1, <3>4, <3>5
  <2>3. CASE k # Len(down')
    <3>1. k \in 0..Len(down) /\ Said(k)' = Said(k)
      BY <1>1, <2>3
    <3>2. PICK j \in (i + 1)..(k - 1) : Said(j) = "none"
      BY <2>1, <3>1 DEF Hearsay, TakesTurns
    <3>3. j \in 0..Len(down)
      BY <1>1, <2>1, <3>1, <3>2
    <3> QED
      BY <1>1, <3>2, <3>3
  <2> QED
    BY <2>2, <2>3
<1>5. Greeting'
  <2> DEFINE m == [t |-> "control", holder |-> Told(controller')]
  <2>1. /\ m \in Messages /\ down \in Seq(Messages)
        /\ down' = Append(down, m) /\ m.t = "control" /\ holder' = holder
    BY ToldTyped DEF ConsoleInv, OnWire, Holders, Announces
  <2> HIDE DEF m
  <2>2. /\ DOMAIN down = 1..Len(down) /\ DOMAIN down' = 1..(Len(down) + 1)
        /\ \A i \in 1..Len(down) : down'[i] = down[i]
        /\ down'[Len(down) + 1].t = "control"
    BY <2>1, AppendAt
  <2>3. ASSUME NEW i \in DOMAIN down', down'[i].t = "hello"
        PROVE  i = 1 /\ holder' = "none"
    <3>1. i \in 1..Len(down) /\ down'[i] = down[i]
      BY <1>1, <2>2, <2>3
    <3> QED
      BY <2>1, <2>2, <2>3, <3>1 DEF Hearsay, Greeting
  <2> QED
    BY <2>3 DEF Greeting
<1> QED
  BY <1>2, <1>3, <1>4, <1>5 DEF Hearsay

LEMMA HearsayRead ==
  ASSUME ConsoleInv, Hearsay, Reads
  PROVE  Hearsay'
<1>1. /\ Len(down) \in Nat /\ Len(down) > 0 /\ Len(down') = Len(down) - 1
      /\ \A i \in 0..Len(down') : Said(i)' = Said(i + 1)
      /\ controller' = controller /\ link' = link
  BY AfterReading DEF Reads
<1>2. LastWord'
  <2>1. \A i : i = Len(down') => i \in 0..Len(down') /\ i + 1 = Len(down)
    BY <1>1
  <2>2. \A i : i = Len(down') => Said(i)' = Said(Len(down))
    BY <1>1, <2>1
  <2> QED
    BY <1>1, <2>2 DEF Hearsay, LastWord
<1>3. LossesTold'
  <2> SUFFICES ASSUME NEW i \in 0..Len(down')
               PROVE  \/ Said(i)' \in {"none", Told(controller')}
                      \/ \E j \in (i + 1)..Len(down') : Said(j)' = "none"
    BY DEF LossesTold
  <2>1. i + 1 \in 0..Len(down) /\ Said(i)' = Said(i + 1)
    BY <1>1
  <2>2. CASE Said(i + 1) \in {"none", Told(controller)}
    BY <1>1, <2>1, <2>2
  <2>3. CASE \E j \in ((i + 1) + 1)..Len(down) : Said(j) = "none"
    <3>1. PICK j \in ((i + 1) + 1)..Len(down) : Said(j) = "none"
      BY <2>3
    <3>2. j - 1 \in (i + 1)..Len(down') /\ j - 1 \in 0..Len(down') /\ (j - 1) + 1 = j
      BY <1>1, <3>1
    <3> QED
      BY <1>1, <3>1, <3>2
  <2> QED
    BY <2>1, <2>2, <2>3 DEF Hearsay, LossesTold
<1>4. TakesTurns'
  <2> SUFFICES ASSUME NEW i \in 0..Len(down'), NEW k \in 0..Len(down'), i < k,
                      Said(i)' # "none", Said(k)' # "none", Said(i)' # Said(k)'
               PROVE  \E j \in (i + 1)..(k - 1) : Said(j)' = "none"
    BY DEF TakesTurns
  <2>1. /\ i + 1 \in 0..Len(down) /\ Said(i)' = Said(i + 1)
        /\ k + 1 \in 0..Len(down) /\ Said(k)' = Said(k + 1) /\ i + 1 < k + 1
    BY <1>1
  <2>2. PICK j \in ((i + 1) + 1)..((k + 1) - 1) : Said(j) = "none"
    BY <2>1 DEF Hearsay, TakesTurns
  <2>3. j - 1 \in (i + 1)..(k - 1) /\ j - 1 \in 0..Len(down') /\ (j - 1) + 1 = j
    BY <1>1, <2>2
  <2> QED
    BY <1>1, <2>2, <2>3
<1>5. Greeting'
  <2>1. /\ down \in Seq(Messages) /\ down # <<>> /\ down' = Tail(down)
    BY DEF ConsoleInv, OnWire, Reads
  <2>2. /\ DOMAIN down = 1..Len(down) /\ DOMAIN down' = 1..(Len(down) - 1)
        /\ \A i \in 1..(Len(down) - 1) : down'[i] = down[i + 1]
    BY <2>1, TailAt
  <2>3. ASSUME NEW i \in DOMAIN down', down'[i].t = "hello"
        PROVE  FALSE
    <3>1. i + 1 \in DOMAIN down /\ down[i + 1].t = "hello" /\ i + 1 # 1
      BY <1>1, <2>2, <2>3
    <3> QED
      BY <3>1 DEF Hearsay, Greeting
  <2> QED
    BY <2>3 DEF Greeting
<1> QED
  BY <1>2, <1>3, <1>4, <1>5 DEF Hearsay

LEMMA HearsayElse ==
  ASSUME ConsoleInv, ConsoleInv', Hearsay, SaysNothing \/ Greets \/ FallsSilent
  PROVE  Hearsay'
<1>1. CASE SaysNothing
  <2>1. holder' = holder /\ down' = down /\ link' = link
    BY <1>1 DEF SaysNothing
  <2>2. CASE controller' = controller
    BY <2>1, <2>2 DEF Hearsay, LastWord, LossesTold, TakesTurns, Greeting, Said
  <2>3. CASE ~link
    <3>1. down = <<>> /\ holder = "none"
      BY <2>3 DEF ConsoleInv, Lost
    <3>2. Len(down) = 0 /\ \A i \in 0..Len(down) : Said(i)' = "none"
      BY <2>1, <3>1 DEF Said
    <3>3. LossesTold'
      BY <2>1, <3>2 DEF LossesTold
    <3> QED
      BY <2>1, <2>3, <3>3 DEF Hearsay, LastWord, TakesTurns, Greeting, Said
  <2> QED
    BY <1>1, <2>2, <2>3 DEF SaysNothing
<1>2. CASE Greets
  <2> DEFINE m == [t |-> "hello", holder |-> Told(controller)]
  <2>1. /\ m \in Messages /\ m.holder = Told(controller)
        /\ down' = <<m>> /\ holder' = holder /\ controller' = controller
    BY <1>2, ToldTyped DEF Greets, ConsoleInv, Holders
  <2>2. holder = "none"
    BY <1>2 DEF Greets, ConsoleInv, Lost
  <2> HIDE DEF m
  <2>3. Len(down') = 1 /\ down'[1] = m /\ DOMAIN down' = {1}
    BY <2>1
  <2>4. Said(0)' = "none" /\ Said(1)' = Told(controller')
    BY <2>1, <2>2, <2>3 DEF Said
  <2>5. \A i \in 0..Len(down') : i = 0 \/ i = 1
    BY <2>3
  <2>6. LastWord'
    BY <2>3, <2>4 DEF LastWord
  <2>7. LossesTold'
    BY <2>4, <2>5 DEF LossesTold
  <2>8. TakesTurns'
    BY <2>4, <2>5 DEF TakesTurns
  <2>9. Greeting'
    BY <2>1, <2>2, <2>3 DEF Greeting
  <2> QED
    BY <2>6, <2>7, <2>8, <2>9 DEF Hearsay
<1>3. CASE FallsSilent
  <2>1. down' = <<>> /\ holder' = "none" /\ ~link' /\ Len(down') = 0 /\ DOMAIN down' = {}
    BY <1>3 DEF FallsSilent
  <2>2. \A i \in 0..Len(down') : i = 0 /\ Said(i)' = "none"
    BY <2>1 DEF Said
  <2>3. LossesTold' /\ TakesTurns'
    BY <2>2 DEF LossesTold, TakesTurns
  <2> QED
    BY <2>1, <2>3 DEF Hearsay, LastWord, Greeting
<1> QED
  BY <1>1, <1>2, <1>3

LEMMA HearsayBegins == Init => Hearsay
<1> SUFFICES ASSUME Init PROVE Hearsay
  OBVIOUS
<1>1. down = <<>> /\ holder = "none" /\ ~link /\ Len(down) = 0 /\ DOMAIN down = {}
  BY DEF Init
<1>2. \A i \in 0..Len(down) : i = 0 /\ Said(i) = "none"
  BY <1>1 DEF Said
<1>3. LossesTold /\ TakesTurns
  BY <1>2 DEF LossesTold, TakesTurns
<1> QED
  BY <1>1, <1>3 DEF Hearsay, LastWord, Greeting

LEMMA HearsayKept == ConsoleInv /\ ConsoleInv' /\ Hearsay /\ [Next]_vars => Hearsay'
  BY WaysToHear, HearsayAnnounced, HearsayRead, HearsayElse

-------------------------------------------------------------------------------
(***************************************************************************)
(* Messages on their way to the gateway.                                   *)
(***************************************************************************)
Has(s, m) == \E i \in DOMAIN s : s[i] = m

Sendable == {"claim", "yield"}

LEMMA HasAppended ==
  ASSUME NEW s \in Seq(Sendable), NEW m \in Sendable
  PROVE  /\ Has(s \o <<m>>, m)
         /\ \A n : Has(s, n) => Has(s \o <<m>>, n)
         /\ \A n : n # m /\ Has(s \o <<m>>, n) => Has(s, n)
<1>1. /\ DOMAIN s = 1..Len(s) /\ Len(s) \in Nat
      /\ DOMAIN (s \o <<m>>) = 1..(Len(s) + 1)
      /\ \A i \in 1..Len(s) : (s \o <<m>>)[i] = s[i]
      /\ (s \o <<m>>)[Len(s) + 1] = m
  OBVIOUS
<1>2. Len(s) + 1 \in 1..(Len(s) + 1) /\ \A i \in 1..Len(s) : i \in 1..(Len(s) + 1)
  BY <1>1
<1>3. \A i \in 1..(Len(s) + 1) : i \in 1..Len(s) \/ i = Len(s) + 1
  BY <1>1
<1> DEFINE t == s \o <<m>>
<1>4. t = s \o <<m>>
  OBVIOUS
<1> HIDE DEF t
<1> QED
  BY <1>1, <1>2, <1>3, <1>4 DEF Has

LEMMA HasTaken ==
  ASSUME NEW s \in Seq(Sendable), s # <<>>
  PROVE  /\ \A n : Has(s, n) /\ Head(s) # n => Has(Tail(s), n)
         /\ \A n : Has(Tail(s), n) => Has(s, n)
         /\ Has(s, Head(s))
<1>1. /\ Len(s) \in Nat /\ Len(s) > 0 /\ Head(s) = s[1]
      /\ \A i \in 1..(Len(s) - 1) : Tail(s)[i] = s[i + 1]
      /\ DOMAIN s = 1..Len(s) /\ DOMAIN Tail(s) = 1..(Len(s) - 1)
  BY TailAt
<1>2. 1 \in 1..Len(s) /\ \A i \in 1..(Len(s) - 1) : i + 1 \in 1..Len(s)
  BY <1>1
<1>3. \A i \in 1..Len(s) : i # 1 => i - 1 \in 1..(Len(s) - 1) /\ (i - 1) + 1 = i
  BY <1>1
<1>4. \A n : Has(s, n) /\ Head(s) # n => Has(Tail(s), n)
  <2> SUFFICES ASSUME NEW n, NEW i \in DOMAIN s, s[i] = n, Head(s) # n
               PROVE  Has(Tail(s), n)
    BY DEF Has
  <2>1. i \in 1..Len(s) /\ i # 1
    BY <1>1
  <2>2. i - 1 \in DOMAIN Tail(s) /\ Tail(s)[i - 1] = n
    BY <1>1, <1>3, <2>1
  <2> QED
    BY <2>2 DEF Has
<1>5. \A n : Has(Tail(s), n) => Has(s, n)
  BY <1>1, <1>2 DEF Has
<1> QED
  BY <1>1, <1>2, <1>4, <1>5 DEF Has

LEMMA HasSent ==
  ASSUME ConsoleInv, NEW m \in Sendable, send(<<m>>)
  PROVE  /\ link => Has(up', m)
         /\ \A n : Has(up, n) => Has(up', n)
         /\ \A n : n # m /\ Has(up', n) => Has(up, n)
<1>1. up \in Seq(Sendable)
  BY DEF ConsoleInv, OnWire, Sendable
<1>2. CASE link
  BY <1>1, <1>2, HasAppended DEF send
<1>3. CASE ~link
  BY <1>3 DEF send
<1> QED
  BY <1>2, <1>3

LEMMA HasGone ==
  ASSUME ConsoleInv, DispatchMessage
  PROVE  /\ \A n : Has(up, n) /\ Head(up) # n => Has(up', n)
         /\ \A n : Has(up', n) => Has(up, n)
         /\ Head(up) \in Sendable /\ Has(up, Head(up)) /\ link
<1>1. up \in Seq(Sendable) /\ up # <<>> /\ up' = Tail(up)
  BY DEF ConsoleInv, OnWire, Sendable, DispatchMessage
<1>2. link
  BY <1>1 DEF ConsoleInv, Lost
<1> QED
  BY <1>1, <1>2, HasTaken, FirstTaken

-------------------------------------------------------------------------------
(***************************************************************************)
(* On MESH.                                                                *)
(***************************************************************************)
ClaimOwed ==
  path = "mesh" /\ native = "mesh" /\ ~meshPending /\ link /\ controller = "none"
    => retry \/ pushed # <<>> \/ down # <<>> \/ Has(up, "claim")

LEMMA NobodyHeard ==
  ASSUME ConsoleInv, Hearsay, link, controller = "none", down = <<>>
  PROVE  holder = "none"
  BY DEF Hearsay, LastWord, Said, Told

LEMMA ClaimGoesOut ==
  ASSUME ConsoleInv, requestControl("none"), ~saving, link,
         path = "mesh", native = "mesh"
  PROVE  Has(up', "claim")
<1>1. send(<<"claim">>)
  BY DEF requestControl, MayClaim, radioDirect
<1> QED
  BY <1>1, HasSent DEF Sendable

LEMMA FreeStep ==
  ASSUME ConsoleInv, Hearsay, ~saving, ClaimOwed, [Next]_vars
  PROVE  ClaimOwed'
<1> SUFFICES ASSUME path' = "mesh", native' = "mesh", ~meshPending', link',
                    controller' = "none", ~retry', pushed' = <<>>, down' = <<>>,
                    ~Has(up', "claim")
             PROVE  FALSE
  BY DEF ClaimOwed
<1>1. CASE toggleRadioPath
  <2>1. pushed \in Seq(Paths) /\ native' \in Paths
    BY <1>1 DEF ConsoleInv, PathTypes, toggleRadioPath, Paths
  <2>2. Append(pushed, native') # <<>>
    BY <2>1, AppendProperties
  <2> QED
    BY <1>1, <2>2 DEF toggleRadioPath
<1>2. ASSUME NEW tick \in BOOLEAN, adoptRadioPath("mesh", tick)
      PROVE  FALSE
  <2>1. /\ ApplyMesh /\ UNCHANGED <<holder, link, down, controller>>
    BY <1>2 DEF adoptRadioPath
  <2>2. link /\ holder = "none" /\ ~radioOn
    BY <2>1, NobodyHeard DEF ApplyMesh, ConsoleInv, OtherFlags
  <2>3. send(<<"claim">>)
    BY <2>1, <2>2 DEF ApplyMesh, ClaimsNow
  <2> QED
    BY <2>2, <2>3, HasSent DEF Sendable
<1>3. CASE PushToWeb
  <2>1. adoptRadioPath("mesh", FALSE)
    BY <1>3 DEF PushToWeb, adoptRadioPath
  <2> QED
    BY <1>2, <2>1
<1>4. CASE Loop
  <2>1. CASE adoptRadioPath(native, TRUE)
    BY <1>2, <2>1 DEF adoptRadioPath
  <2>2. CASE path = "radio" /\ UNCHANGED path
    BY <2>2
  <2> QED
    BY <1>4, <2>1, <2>2 DEF Loop
<1>5. CASE waitRadioReleased
  <2>1. UNCHANGED <<path, native, retry, pushed, link, down, controller, holder>>
    BY <1>5 DEF waitRadioReleased, app
  <2>2. CASE ~meshPending
    <3>1. up' = up
      BY <1>5, <2>2 DEF waitRadioReleased
    <3> QED
      BY <2>1, <2>2, <3>1 DEF ClaimOwed
  <2>3. CASE meshPending
    <3>1. holder = "none"
      BY <2>1, NobodyHeard
    <3>2. link
      BY <2>1
    <3>3. requestControl(holder)
      BY <1>5, <2>3, <3>2 DEF waitRadioReleased
    <3> QED
      BY <2>1, <3>1, <3>2, <3>3, ClaimGoesOut
  <2> QED
    BY <2>2, <2>3
<1>6. CASE AskForControl \/ ControlButton
  <2>1. /\ UNCHANGED <<path, native, meshPending, retry, pushed, link, down, controller>>
        /\ send(<<"claim">>) \/ send(<<"yield">>) \/ UNCHANGED up
    BY <1>6 DEF AskForControl, ControlButton, requestControl, page, app
  <2>2. Has(up, "claim")
    BY <2>1 DEF ClaimOwed
  <2> QED
    BY <2>1, <2>2, HasSent DEF Sendable
<1>7. CASE radioCmd \/ startNative \/ NativeVideoStart \/ blockClaim \/ setEnabled
           \/ UNCHANGED vars
  <2>1. UNCHANGED <<path, native, meshPending, retry, pushed, link, down, controller, up>>
    BY <1>7 DEF radioCmd, startNative, NativeVideoStart, blockClaim, setEnabled, vars,
       page, app, net
  <2> QED
    BY <2>1 DEF ClaimOwed
<1>8. CASE onWsOpen \/ onWsClose
  BY <1>8 DEF onWsOpen, onWsClose
<1>9. CASE DispatchMessage
  <2>1. UNCHANGED <<path, native, meshPending, retry, pushed, link>>
    BY <1>9 DEF DispatchMessage, page, app
  <2>2. down \in Seq(Messages) /\ [t |-> "control", holder |-> Told(controller')] \in Messages
    BY ToldTyped DEF ConsoleInv, OnWire
  <2>3. Tell("control", controller') # <<>>
    BY <2>2, AppendProperties DEF Tell
  <2>4. down' = down /\ Head(up) # "claim" /\ controller # "me"
    BY <1>9, <2>3 DEF DispatchMessage
  <2>5. controller = "none"
    BY <1>9, <2>4 DEF DispatchMessage
  <2> QED
    BY <1>9, <2>1, <2>4, <2>5, HasGone DEF ClaimOwed
<1>10. CASE OtherClaims \/ OtherYields \/ LeaseExpires
  <2>1. down \in Seq(Messages) /\ [t |-> "control", holder |-> Told("none")] \in Messages
    BY ToldTyped DEF ConsoleInv, OnWire
  <2>2. Tell("control", "none") # <<>>
    BY <2>1, AppendProperties DEF Tell
  <2> QED
    BY <1>10, <2>2 DEF OtherClaims, OtherYields, LeaseExpires, Becomes
<1>11. CASE OnHello \/ OnControl
  <2>1. /\ UNCHANGED <<path, native, meshPending, link, controller>>
        /\ Reads
    BY <1>11 DEF OnHello, OnControl, Arrives, Reads, app
  <2>2. /\ Len(down) \in Nat /\ Len(down) > 0 /\ Len(down') = Len(down) - 1
        /\ \A i \in 0..Len(down') : Said(i)' = Said(i + 1)
    BY <2>1, AfterReading
  <2>3. Len(down) = 1
    BY <2>2
  <2>4. Said(0)' = Said(1) /\ Said(1) = Told(controller)
    BY <2>1, <2>2, <2>3 DEF Hearsay, LastWord
  <2>5. holder' = "none"
    BY <2>1, <2>4 DEF Said, Told
  <2>6. CASE OnHello
    <3>1. requestControl("none")
      BY <2>1, <2>5, <2>6 DEF OnHello
    <3> QED
      BY <2>1, <3>1, ClaimGoesOut
  <2>7. CASE OnControl
    <3>1. path = "mesh" /\ ~meshPending
      BY <2>1
    <3>2. ClaimsLater(holder')
      BY <2>5, <3>1 DEF ClaimsLater
    <3>3. retry' = (retry \/ ClaimsLater(holder'))
      BY <2>7 DEF OnControl
    <3> QED
      BY <3>2, <3>3
  <2> QED
    BY <1>11, <2>6, <2>7
<1>12. CASE ClaimAgain
  <2>1. UNCHANGED <<path, native, pushed, link, down, controller, holder>>
    BY <1>12 DEF ClaimAgain, app
  <2>2. requestControl("none")
    BY <1>12, <2>1, NobodyHeard DEF ClaimAgain
  <2> QED
    BY <2>1, <2>2, ClaimGoesOut
<1> QED
  BY <1>1, <1>3, <1>4, <1>5, <1>6, <1>7, <1>8, <1>9, <1>10, <1>11, <1>12 DEF Next

-------------------------------------------------------------------------------
(***************************************************************************)
(* On 2.4G: what is posted leaves RadioLink switched on.                   *)
(***************************************************************************)
LastOn == IF posted = <<>> THEN radioOn ELSE posted[Len(posted)]

StartOwed ==
  path = "radio" /\ native = "radio" /\ pushed = <<>>
    => LastOn \/ ~manual \/ (radioPending /\ holder # "none")

LEMMA OnsPosted ==
  ASSUME ConsoleInv, NEW calls \in Seq({TRUE}), post(calls), UNCHANGED radioOn,
         calls # <<>> \/ LastOn
  PROVE  LastOn'
<1>1. /\ posted \in Seq(BOOLEAN) /\ posted' = posted \o calls
      /\ Len(posted) \in Nat /\ Len(calls) \in Nat
  BY DEF ConsoleInv, Fit, post
<1>2. CASE calls = <<>>
  <2>1. posted' = posted
    BY <1>1, <1>2, PostedNothing
  <2> QED
    BY <1>2, <2>1 DEF LastOn
<1>3. CASE calls # <<>>
  <2>1. Len(calls) > 0 /\ calls[Len(calls)] = TRUE
    <3>1. Len(calls) > 0 /\ Len(calls) \in 1..Len(calls)
      BY <1>1, <1>3, EmptySeq
    <3>2. calls[Len(calls)] = TRUE
      <4>1. calls[Len(calls)] \in {TRUE}
        BY <3>1, ElementOfSeq
      <4> QED
        BY <4>1
    <3> QED
      BY <3>1, <3>2
  <2>2. /\ Len(posted \o calls) = Len(posted) + Len(calls)
        /\ \A i \in 1..Len(calls) : (posted \o calls)[Len(posted) + i] = calls[i]
    BY <1>1, ConcatProperties
  <2>3. posted'[Len(posted')] = TRUE /\ Len(posted') # 0
    BY <1>1, <2>1, <2>2
  <2>4. posted' # <<>>
    BY <2>3
  <2> QED
    BY <2>3, <2>4 DEF LastOn
<1> QED
  BY <1>2, <1>3

LEMMA Ons ==
  /\ <<>> \in Seq({TRUE}) /\ <<TRUE>> \in Seq({TRUE}) /\ <<TRUE>> # <<>>
  /\ \A s \in Seq({TRUE}), t \in Seq({TRUE}) :
       s \o t \in Seq({TRUE}) /\ (s # <<>> \/ t # <<>> => s \o t # <<>>)
<1>1. <<>> \in Seq({TRUE}) /\ <<TRUE>> \in Seq({TRUE}) /\ <<TRUE>> # <<>>
  OBVIOUS
<1>2. ASSUME NEW s \in Seq({TRUE}), NEW t \in Seq({TRUE})
      PROVE  s \o t \in Seq({TRUE}) /\ (s # <<>> \/ t # <<>> => s \o t # <<>>)
  <2>1. /\ s \o t \in Seq({TRUE}) /\ Len(s \o t) = Len(s) + Len(t)
        /\ Len(s) \in Nat /\ Len(t) \in Nat
    BY Joined
  <2>2. s # <<>> \/ t # <<>> => Len(s \o t) # 0
    BY <2>1, EmptySeq
  <2>3. Len(s \o t) # 0 => s \o t # <<>>
    BY <2>1, EmptySeq
  <2> QED
    BY <2>1, <2>2, <2>3
<1> QED
  BY <1>1, <1>2

LEMMA ManualOns ==
  /\ ManualCalls \in Seq({TRUE})
  /\ radioDirect /\ ~manual => ManualCalls # <<>>
<1>1. CASE radioDirect /\ ~manual
  BY <1>1, Ons DEF ManualCalls
<1>2. CASE ~(radioDirect /\ ~manual)
  BY <1>2, Ons DEF ManualCalls
<1> QED
  BY <1>1, <1>2

LEMMA AdoptingOwes ==
  ASSUME ConsoleInv, NEW tick \in BOOLEAN, adoptRadioPath("radio", tick),
         native' = "radio"
  PROVE  LastOn' \/ (radioPending' /\ holder' # "none")
<1> DEFINE first == IF holder = "none" THEN <<TRUE>> ELSE <<>>
           second == IF tick /\ ~manual THEN <<TRUE>> ELSE <<>>
<1>1. first \in Seq({TRUE}) /\ second \in Seq({TRUE}) /\ (holder = "none" => first # <<>>)
  BY Ons
<1>2. /\ post(first \o second) /\ UNCHANGED <<holder, radioOn>>
      /\ radioPending' = (holder # "none")
  BY DEF adoptRadioPath, ApplyRadio
<1> HIDE DEF first, second
<1>3. CASE holder = "none"
  BY <1>1, <1>2, <1>3, Ons, OnsPosted
<1>4. CASE holder # "none"
  BY <1>2, <1>4
<1> QED
  BY <1>3, <1>4

LEMMA MessageOwes ==
  ASSUME ConsoleInv, Hearsay, StartOwed, OnHello \/ OnControl
  PROVE  StartOwed'
<1> SUFFICES ASSUME path' = "radio", native' = "radio", pushed' = <<>>
             PROVE  LastOn' \/ ~manual' \/ (radioPending' /\ holder' # "none")
  BY DEF StartOwed
<1>1. /\ UNCHANGED <<path, native, pushed, radioOn>>
      /\ down # <<>> /\ holder' = Head(down).holder
  BY DEF OnHello, OnControl, Arrives, app
<1>2. LastOn \/ ~manual \/ (radioPending /\ holder # "none")
  BY <1>1 DEF StartOwed
<1>3. radioDirect
  BY <1>1 DEF radioDirect
<1>4. CASE OnHello
  <2>1. post(ManualCalls) /\ ManualCalls \in Seq({TRUE})
    BY <1>4, ManualOns DEF OnHello
  <2>2. holder = "none"
    <3>1. down \in Seq(Messages)
      BY DEF ConsoleInv, OnWire
    <3>2. 1 \in DOMAIN down /\ down[1].t = "hello"
      BY <1>4, <3>1, TailAt DEF OnHello, Arrives
    <3> QED
      BY <3>2 DEF Hearsay, Greeting
  <2>3. ManualCalls # <<>> \/ LastOn
    BY <1>2, <1>3, <2>2, ManualOns
  <2> QED
    BY <1>1, <2>1, <2>3, OnsPosted
<1>5. CASE OnControl
  <2> DEFINE b == FinishesRadio(holder') /\ native = "radio"
             more == IF b THEN <<TRUE>> ELSE <<>>
  <2>1. /\ post(ManualCalls \o more)
        /\ radioPending' = (radioPending /\ ~FinishesRadio(holder'))
    BY <1>5 DEF OnControl, finishRadioAcquire
  <2>2. more \in Seq({TRUE}) /\ (b => more # <<>>)
    BY Ons
  <2>3. b <=> radioPending /\ holder' = "none"
    BY <1>1 DEF FinishesRadio
  <2>4. FinishesRadio(holder') => b
    BY <1>1
  <2> HIDE DEF b, more
  <2>5. /\ ManualCalls \o more \in Seq({TRUE})
        /\ ManualCalls # <<>> \/ more # <<>> => ManualCalls \o more # <<>>
    BY <2>2, ManualOns, Ons
  <2>6. CASE LastOn \/ ~manual \/ b
    <3>1. ManualCalls \o more # <<>> \/ LastOn
      BY <1>3, <2>2, <2>5, <2>6, ManualOns
    <3> QED
      BY <1>1, <2>1, <2>5, <3>1, OnsPosted
  <2>7. CASE ~(LastOn \/ ~manual \/ b)
    <3>1. radioPending /\ holder' # "none"
      BY <1>2, <2>3, <2>7
    <3>2. ~FinishesRadio(holder')
      BY <2>4, <2>7
    <3> QED
      BY <2>1, <3>1, <3>2
  <2> QED
    BY <2>6, <2>7
<1> QED
  BY <1>4, <1>5

LEMMA StartStep ==
  ASSUME ConsoleInv, Hearsay, StartOwed, [Next]_vars
  PROVE  StartOwed'
<1>1. CASE OnHello \/ OnControl
  BY <1>1, MessageOwes
<1>2. SUFFICES ASSUME ~(OnHello \/ OnControl),
                      path' = "radio", native' = "radio", pushed' = <<>>
               PROVE  LastOn' \/ ~manual' \/ (radioPending' /\ holder' # "none")
  BY <1>1 DEF StartOwed
<1>3. CASE toggleRadioPath
  <2>1. pushed \in Seq(Paths) /\ native' \in Paths
    BY <1>3 DEF ConsoleInv, PathTypes, toggleRadioPath, Paths
  <2>2. Append(pushed, native') # <<>>
    BY <2>1, AppendProperties
  <2> QED
    BY <1>2, <1>3, <2>2 DEF toggleRadioPath
<1>4. CASE PushToWeb
  <2>1. adoptRadioPath("radio", FALSE)
    BY <1>2, <1>4 DEF PushToWeb, adoptRadioPath
  <2> QED
    BY <1>2, <2>1, AdoptingOwes
<1>5. CASE Loop
  <2>1. CASE adoptRadioPath(native, TRUE)
    <3>1. adoptRadioPath("radio", TRUE)
      BY <1>2, <2>1 DEF adoptRadioPath
    <3> QED
      BY <1>2, <3>1, AdoptingOwes
  <2>2. CASE native = "radio" /\ ~manual /\ post(ManualCalls) /\ UNCHANGED radioOn
    <3>1. ManualCalls \in Seq({TRUE}) /\ ManualCalls # <<>>
      BY <2>2, ManualOns DEF radioDirect
    <3> QED
      BY <2>2, <3>1, OnsPosted
  <2> QED
    BY <1>5, <2>1, <2>2 DEF Loop
<1>6. CASE (radioCmd \/ NativeVideoStart) /\ post(<<TRUE>>)
  <2>1. UNCHANGED radioOn
    BY <1>6 DEF radioCmd, NativeVideoStart
  <2> QED
    BY <1>6, <2>1, Ons, OnsPosted
<1>7. CASE setEnabled
  <2>1. /\ posted # <<>> /\ posted \in Seq(BOOLEAN)
        /\ radioOn' = Head(posted) /\ posted' = Tail(posted)
        /\ UNCHANGED <<path, native, pushed, manual, radioPending, holder>>
    BY <1>7 DEF setEnabled, ConsoleInv, Fit, page, app
  <2>2. LastOn => LastOn'
    <3>1. CASE Len(posted) = 1
      BY <2>1, <3>1 DEF LastOn
    <3>2. CASE Len(posted) # 1
      BY <2>1, <3>2, TailLast DEF LastOn
    <3> QED
      BY <3>1, <3>2
  <2> QED
    BY <1>2, <2>1, <2>2 DEF StartOwed
<1>8. CASE onWsClose
  BY <1>8 DEF onWsClose
<1>9. CASE \/ waitRadioReleased \/ AskForControl \/ ControlButton \/ ClaimAgain
           \/ blockClaim \/ startNative \/ (NativeVideoStart /\ UNCHANGED posted)
           \/ onWsOpen \/ DispatchMessage
           \/ OtherClaims \/ OtherYields \/ LeaseExpires \/ UNCHANGED vars
  <2>1. UNCHANGED <<path, native, pushed, manual, radioPending, holder, posted, radioOn>>
    BY <1>9 DEF waitRadioReleased, AskForControl, ControlButton, ClaimAgain, blockClaim,
                startNative, NativeVideoStart, onWsOpen, DispatchMessage, OtherClaims,
                OtherYields, LeaseExpires, Becomes, vars, page, app, radio
  <2> QED
    BY <1>2, <2>1 DEF StartOwed, LastOn
<1>10. radioCmd => post(<<TRUE>>)
  BY DEF radioCmd
<1>11. NativeVideoStart => post(<<TRUE>>) \/ UNCHANGED posted
  BY DEF NativeVideoStart
<1> QED
  BY <1>2, <1>3, <1>4, <1>5, <1>6, <1>7, <1>8, <1>9, <1>10, <1>11 DEF Next

(***************************************************************************)
(* A page that waits for its own yield has one on its way, or the answer;  *)
(* one that holds nothing cannot come to hold anything.                    *)
(***************************************************************************)
Frees == \E i \in 1..Len(down) : Said(i) = "none"

YieldOwed ==
  path = "radio" /\ radioPending /\ holder = "me" => Has(up, "yield") \/ Frees

NothingComes ==
  path = "radio" /\ radioPending /\ holder = "none" =>
    /\ controller # "me" /\ ~Has(up, "claim")
    /\ \A i \in 1..Len(down) : Said(i) # "me"

WaitInv == YieldOwed /\ NothingComes

LEMMA WaitAdopted ==
  ASSUME ConsoleInv, NEW next, NEW tick, adoptRadioPath(next, tick)
  PROVE  WaitInv'
<1>1. CASE next = "radio"
  <2>1. /\ holder' = holder /\ radioPending' = (holder # "none")
        /\ IF holder = "me" THEN send(<<"yield">>) ELSE UNCHANGED up
    BY <1>1 DEF adoptRadioPath, ApplyRadio, hasControl
  <2>2. holder = "me" => Has(up', "yield")
    BY <2>1, HasSent DEF Sendable, ConsoleInv, Lost
  <2> QED
    BY <2>1, <2>2 DEF WaitInv, YieldOwed, NothingComes
<1>2. CASE next # "radio"
  BY <1>2 DEF adoptRadioPath, WaitInv, YieldOwed, NothingComes
<1> QED
  BY <1>1, <1>2

LEMMA WaitHeard ==
  ASSUME ConsoleInv, Hearsay, WaitInv, OnHello \/ OnControl
  PROVE  WaitInv'
<1>1. Reads /\ UNCHANGED <<path, controller>>
  BY DEF OnHello, OnControl, Arrives, Reads
<1>2. /\ Len(down) \in Nat /\ Len(down) > 0 /\ Len(down') = Len(down) - 1
      /\ \A i \in 0..Len(down') : Said(i)' = Said(i + 1)
  BY <1>1, AfterReading
<1>3. holder' = Said(1)
  <2>1. Said(0)' = Said(1)
    BY <1>2
  <2> QED
    BY <2>1 DEF Said
<1> SUFFICES ASSUME path' = "radio", radioPending'
             PROVE  WaitInv'
  BY DEF WaitInv, YieldOwed, NothingComes
<1>4. radioPending /\ path = "radio" /\ up' = up
  BY <1>1 DEF OnHello, OnControl, finishRadioAcquire
<1>5. CASE holder' = "me"
  <2>1. holder # "none"
    <3>1. 1 \in 1..Len(down)
      BY <1>2
    <3> QED
      BY <1>3, <1>4, <1>5, <3>1 DEF WaitInv, NothingComes
  <2>2. holder = "me"
    <3>1. 0 \in 0..Len(down) /\ 1 \in 0..Len(down) /\ Said(0) = holder
      BY <1>2 DEF Said
    <3>2. Said(0) # Said(1) => \E j \in (0 + 1)..(1 - 1) : Said(j) = "none"
      BY <1>3, <1>5, <2>1, <3>1 DEF Hearsay, TakesTurns
    <3> QED
      BY <1>3, <1>5, <3>1, <3>2
  <2>3. CASE Has(up, "yield")
    BY <1>4, <1>5, <2>3 DEF WaitInv, YieldOwed, NothingComes
  <2>4. CASE Frees
    <3>1. PICK i \in 1..Len(down) : Said(i) = "none"
      BY <2>4 DEF Frees
    <3>2. i # 1
      BY <1>3, <1>5, <3>1
    <3>3. i - 1 \in 1..Len(down') /\ i - 1 \in 0..Len(down') /\ (i - 1) + 1 = i
      BY <1>2, <3>1, <3>2
    <3>4. Said(i - 1)' = "none"
      BY <1>2, <3>1, <3>3
    <3>5. Frees'
      BY <3>3, <3>4 DEF Frees
    <3> QED
      BY <1>5, <3>5 DEF WaitInv, YieldOwed, NothingComes
  <2> QED
    BY <1>4, <2>2, <2>3, <2>4 DEF WaitInv, YieldOwed
<1>6. CASE holder' = "none"
  <2>1. CASE OnControl
    <3>1. FinishesRadio(holder')
      BY <1>4, <1>6 DEF FinishesRadio
    <3> QED
      BY <2>1, <3>1 DEF OnControl, finishRadioAcquire
  <2>2. CASE OnHello
    <3>1. down \in Seq(Messages)
      BY DEF ConsoleInv, OnWire
    <3>2. 1 \in DOMAIN down /\ down[1].t = "hello"
      BY <1>1, <2>2, <3>1, TailAt DEF OnHello, Arrives, Reads
    <3>3. holder = "none"
      BY <3>2 DEF Hearsay, Greeting
    <3>4. /\ controller # "me" /\ ~Has(up, "claim")
          /\ \A i \in 1..Len(down) : Said(i) # "me"
      BY <1>4, <3>3 DEF WaitInv, NothingComes
    <3>5. \A i \in 1..Len(down') : i \in 0..Len(down') /\ i + 1 \in 1..Len(down)
      BY <1>2
    <3>6. \A i \in 1..Len(down') : Said(i)' # "me"
      BY <1>2, <3>4, <3>5
    <3> QED
      BY <1>1, <1>4, <1>6, <3>4, <3>6 DEF WaitInv, YieldOwed, NothingComes
  <2> QED
    BY <2>1, <2>2
<1>7. CASE holder' \notin {"me", "none"}
  BY <1>7 DEF WaitInv, YieldOwed, NothingComes
<1> QED
  BY <1>5, <1>6, <1>7

LEMMA WaitAnnounced ==
  ASSUME ConsoleInv, ConsoleInv', WaitInv, Announces, UNCHANGED <<path, radioPending>>,
         Has(up, "yield") => Has(up', "yield") \/ Told(controller') = "none"
                               \/ (holder = "me" => Frees),
         Has(up', "claim") => Has(up, "claim"),
         controller' = "me" => controller = "me" \/ Has(up, "claim")
  PROVE  WaitInv'
<1>1. /\ Len(down) \in Nat /\ Len(down') = Len(down) + 1
      /\ \A i \in 0..Len(down) : Said(i)' = Said(i)
      /\ \A i : i = Len(down') => Said(i)' = Told(controller')
      /\ holder' = holder
  BY AfterAnnouncing DEF Announces
<1>2. Frees => Frees'
  <2>1. \A i \in 1..Len(down) : i \in 1..Len(down') /\ i \in 0..Len(down)
    BY <1>1
  <2> QED
    BY <1>1, <2>1 DEF Frees
<1>3. Told(controller') = "none" => Frees'
  <2>1. Len(down') \in 1..Len(down')
    BY <1>1
  <2>2. \A i : i = Len(down') /\ Told(controller') = "none" => Said(i)' = "none"
    BY <1>1
  <2>3. Told(controller') = "none" => \E i \in 1..Len(down') : Said(i)' = "none"
    BY <2>1, <2>2
  <2> QED
    BY <2>3 DEF Frees
<1>4. YieldOwed'
  BY <1>1, <1>2, <1>3 DEF WaitInv, YieldOwed
<1>5. ASSUME path = "radio", radioPending, holder = "none"
      PROVE  /\ controller' # "me" /\ ~Has(up', "claim")
             /\ \A i \in 1..Len(down') : Said(i)' # "me"
  <2>1. /\ controller # "me" /\ ~Has(up, "claim")
        /\ \A i \in 1..Len(down) : Said(i) # "me"
    BY <1>5 DEF WaitInv, NothingComes
  <2>2. controller' # "me" /\ ~Has(up', "claim") /\ Told(controller') # "me"
    BY <2>1 DEF Told
  <2>3. ASSUME NEW i \in 1..Len(down')
        PROVE  Said(i)' # "me"
    <3>1. CASE i = Len(down')
      BY <1>1, <2>2, <3>1
    <3>2. CASE i # Len(down')
      <4>1. i \in 1..Len(down) /\ i \in 0..Len(down)
        BY <1>1, <3>2
      <4> QED
        BY <1>1, <2>1, <4>1
    <3> QED
      BY <3>1, <3>2
  <2> QED
    BY <2>2, <2>3
<1>6. NothingComes'
  BY <1>1, <1>5 DEF NothingComes
<1> QED
  BY <1>4, <1>6 DEF WaitInv

LEMMA WaitSent ==
  ASSUME ConsoleInv, WaitInv, UNCHANGED <<path, radioPending, holder, down, controller>>,
         \/ UNCHANGED up
         \/ send(<<"yield">>)
         \/ path # "radio"
  PROVE  WaitInv'
<1>1. Frees' = Frees /\ \A i \in 1..Len(down) : Said(i)' = Said(i)
  BY DEF Frees, Said
<1>2. CASE UNCHANGED up
  BY <1>1, <1>2 DEF WaitInv, YieldOwed, NothingComes
<1>3. CASE send(<<"yield">>)
  <2>1. Has(up, "yield") => Has(up', "yield")
    BY <1>3, HasSent DEF Sendable
  <2>2. Has(up', "claim") => Has(up, "claim")
    BY <1>3, HasSent DEF Sendable
  <2> QED
    BY <1>1, <2>1, <2>2 DEF WaitInv, YieldOwed, NothingComes
<1>4. CASE path # "radio"
  BY <1>4 DEF WaitInv, YieldOwed, NothingComes
<1> QED
  BY <1>2, <1>3, <1>4

LEMMA WaitStep ==
  ASSUME ConsoleInv, ConsoleInv', Hearsay, WaitInv, [Next]_vars
  PROVE  WaitInv'
<1>1. CASE PushToWeb \/ Loop
  <2>1. CASE \E next, tick : adoptRadioPath(next, tick)
    BY <2>1, WaitAdopted
  <2>2. CASE UNCHANGED <<path, radioPending, holder, down, controller, up>>
    BY <2>2, WaitSent
  <2> QED
    BY <1>1, <2>1, <2>2 DEF PushToWeb, Loop, net
<1>2. CASE toggleRadioPath \/ radioCmd \/ startNative \/ NativeVideoStart \/ blockClaim
           \/ setEnabled \/ UNCHANGED vars
  <2>1. UNCHANGED <<path, radioPending, holder, down, controller, up>>
    BY <1>2 DEF toggleRadioPath, radioCmd, startNative, NativeVideoStart, blockClaim,
                setEnabled, vars, page, net
  <2> QED
    BY <2>1, WaitSent
<1>3. CASE waitRadioReleased \/ AskForControl \/ ControlButton \/ ClaimAgain
  <2>1. UNCHANGED <<path, radioPending, holder, down, controller>>
    BY <1>3 DEF waitRadioReleased, AskForControl, ControlButton, ClaimAgain, page
  <2>2. UNCHANGED up \/ send(<<"yield">>) \/ path # "radio"
    BY <1>3 DEF waitRadioReleased, AskForControl, ControlButton, ClaimAgain,
                requestControl, MayClaim, radioDirect
  <2> QED
    BY <2>1, <2>2, WaitSent
<1>4. CASE onWsOpen
  <2>1. holder' = "none" /\ Len(down') = 1 /\ down'[1].holder = Told(controller)
    BY <1>4 DEF onWsOpen, page, ConsoleInv, Lost
  <2>2. controller' # "me" /\ Told(controller) # "me" /\ up' = <<>>
    BY <1>4 DEF onWsOpen, ConsoleInv, Lost, Told
  <2>3. \A i \in 1..Len(down') : i = 1 /\ Said(i)' = Told(controller)
    BY <2>1 DEF Said
  <2>4. ~Has(up', "claim")
    BY <2>2 DEF Has
  <2> QED
    BY <2>1, <2>2, <2>3, <2>4 DEF WaitInv, YieldOwed, NothingComes
<1>5. CASE onWsClose
  <2>1. holder' = "none" /\ down' = <<>> /\ up' = <<>> /\ controller' # "me"
    BY <1>5 DEF onWsClose, ConsoleInv, Lost
  <2>2. ~Has(up', "claim") /\ \A i \in 1..Len(down') : FALSE
    BY <2>1 DEF Has
  <2> QED
    BY <2>1, <2>2 DEF WaitInv, YieldOwed, NothingComes
<1>6. CASE DispatchMessage
  <2>1. /\ \A n : Has(up, n) /\ Head(up) # n => Has(up', n)
        /\ \A n : Has(up', n) => Has(up, n)
        /\ Head(up) \in Sendable /\ Has(up, Head(up)) /\ link
    BY <1>6, HasGone
  <2>2. UNCHANGED <<path, radioPending, holder>>
    BY <1>6 DEF DispatchMessage, page
  <2>3. controller' = "me" => controller = "me" \/ Has(up, "claim")
    BY <1>6, <2>1 DEF DispatchMessage
  <2>4. Has(up, "yield") => Has(up', "yield") \/ Head(up) = "yield"
    BY <2>1
  <2>5. holder = "me" /\ controller # "me" => Frees
    <3> SUFFICES ASSUME holder = "me", controller # "me" PROVE Frees
      OBVIOUS
    <3>1. Len(down) \in Nat /\ 0 \in 0..Len(down) /\ Said(0) = "me"
      BY DEF ConsoleInv, OnWire, Said
    <3>2. Told(controller) # "me"
      BY DEF Told
    <3>3. \E j \in (0 + 1)..Len(down) : Said(j) = "none"
      BY <3>1, <3>2 DEF Hearsay, LossesTold
    <3> QED
      BY <3>3 DEF Frees
  <2>6. CASE Head(up) = "claim" \/ controller = "me"
    <3>1. Announces
      <4>1. down' = Append(down, [t |-> "control", holder |-> Told(controller')])
        BY <1>6, <2>6 DEF DispatchMessage, Tell
      <4>2. Told(controller) \in {"none", Told(controller')} \/ Told(controller') = "none"
        BY <1>6, <2>6 DEF DispatchMessage, Told
      <4>3. link' = link
        BY <1>6 DEF DispatchMessage
      <4> QED
        BY <2>1, <2>2, <4>1, <4>2, <4>3 DEF Announces
    <3>2. Has(up, "yield") => Has(up', "yield") \/ Told(controller') = "none"
                                \/ (holder = "me" => Frees)
      BY <1>6, <2>4, <2>5, <2>6 DEF DispatchMessage, Told
    <3> QED
      BY <2>1, <2>2, <2>3, <3>1, <3>2, WaitAnnounced
  <2>7. CASE Head(up) # "claim" /\ controller # "me"
    <3>1. down' = down /\ controller' = controller
      BY <1>6, <2>7 DEF DispatchMessage
    <3>2. Frees' = Frees /\ \A i \in 1..Len(down) : Said(i)' = Said(i)
      BY <2>2, <3>1 DEF Frees, Said
    <3> QED
      BY <2>1, <2>2, <2>5, <2>7, <3>1, <3>2 DEF WaitInv, YieldOwed, NothingComes
  <2> QED
    BY <2>6, <2>7
<1>7. CASE OtherClaims \/ OtherYields \/ LeaseExpires
  <2>1. UNCHANGED <<path, radioPending, holder, link, up>> /\ controller' # "me"
    BY <1>7 DEF OtherClaims, OtherYields, LeaseExpires, Becomes, page
  <2>2. CASE link
    <3>1. down' = Append(down, [t |-> "control", holder |-> Told(controller')])
      BY <1>7, <2>2 DEF OtherClaims, OtherYields, LeaseExpires, Becomes, Tell
    <3>2. Told(controller) = "none" \/ Told(controller') = "none"
      BY <1>7 DEF OtherClaims, OtherYields, LeaseExpires, Becomes, Told
    <3>3. Announces
      BY <2>1, <2>2, <3>1, <3>2 DEF Announces
    <3> QED
      BY <2>1, <3>3, WaitAnnounced
  <2>3. CASE ~link
    <3>1. down' = down /\ holder = "none" /\ down = <<>> /\ up = <<>>
      BY <1>7, <2>3 DEF OtherClaims, OtherYields, LeaseExpires, Becomes, ConsoleInv, Lost
    <3>2. ~Has(up', "claim") /\ \A i \in 1..Len(down') : FALSE
      BY <2>1, <3>1 DEF Has
    <3> QED
      BY <2>1, <3>1, <3>2 DEF WaitInv, YieldOwed, NothingComes
  <2> QED
    BY <2>2, <2>3
<1>8. CASE OnHello \/ OnControl
  BY <1>8, WaitHeard
<1> QED
  BY <1>1, <1>2, <1>3, <1>4, <1>5, <1>6, <1>7, <1>8 DEF Next

-------------------------------------------------------------------------------
(***************************************************************************)
(* What is heard, and what follows from it on either path.                 *)
(***************************************************************************)
HandInv == ConsoleInv /\ Hearsay /\ StartOwed /\ WaitInv

LEMMA HandBegins == Init => HandInv
<1> SUFFICES ASSUME Init PROVE HandInv
  OBVIOUS
<1>1. ConsoleInv /\ Hearsay
  BY ConsoleBegins, HearsayBegins
<1>2. StartOwed
  BY DEF Init, StartOwed
<1>3. WaitInv
  BY DEF Init, WaitInv, YieldOwed, NothingComes
<1> QED
  BY <1>1, <1>2, <1>3 DEF HandInv

LEMMA HandKept == HandInv /\ [Next]_vars => HandInv'
<1> SUFFICES ASSUME HandInv, [Next]_vars PROVE HandInv'
  OBVIOUS
<1>1. ConsoleInv'
  BY ConsoleKept DEF HandInv
<1>2. Hearsay' /\ StartOwed' /\ WaitInv'
  BY <1>1, HearsayKept, StartStep, WaitStep DEF HandInv
<1> QED
  BY <1>1, <1>2 DEF HandInv

LEMMA HasIsRange == \A s, m : Has(s, m) <=> m \in Range(s)
  BY DEF Has, Range

(***************************************************************************)
(* The page never hears control pass from one console to another at once.  *)
(***************************************************************************)
THEOREM ControlPassesThroughNobody == Spec => []TakesTurns
  BY HandBegins, HandKept, PTL DEF Spec, HandInv, Hearsay

(***************************************************************************)
(* What MeshTakesBack needs besides fairness: while no save is under way,  *)
(* no free gateway is forgotten on MESH.                                   *)
(***************************************************************************)
THEOREM NoFreeGatewayIsForgotten == Spec /\ []~saving => []FreeGatewayIsClaimed
<1>1. Init => ClaimOwed
  BY DEF Init, ClaimOwed
<1>2. HandInv /\ ClaimOwed /\ ~saving /\ [Next]_vars => ClaimOwed'
  BY FreeStep DEF HandInv
<1>3. ClaimOwed <=> FreeGatewayIsClaimed
  BY HasIsRange DEF ClaimOwed, FreeGatewayIsClaimed
<1> QED
  BY <1>1, <1>2, <1>3, HandBegins, HandKept, PTL DEF Spec

(***************************************************************************)
(* What RadioComesUp needs besides fairness.                               *)
(***************************************************************************)
THEOREM NoStartIsForgotten == Spec => []RadioIsOwed
<1>1. HandInv => RadioIsOwed
  <2> SUFFICES ASSUME HandInv, path = "radio", native = "radio", pushed = <<>>,
                      ~LastOn, manual
               PROVE  radioPending /\ (\/ holder = "other"
                                       \/ holder = "me" /\ ("yield" \in Range(up) \/ Frees))
    BY DEF RadioIsOwed, LastOn, Frees
  <2>1. radioPending /\ holder # "none"
    BY DEF HandInv, StartOwed
  <2>2. holder = "other" \/ holder = "me"
    BY <2>1 DEF HandInv, ConsoleInv, Holders
  <2>3. holder = "me" => Has(up, "yield") \/ Frees
    BY <2>1 DEF HandInv, WaitInv, YieldOwed
  <2> QED
    BY <2>1, <2>2, <2>3, HasIsRange
<1> QED
  BY <1>1, HandBegins, HandKept, PTL DEF Spec
===============================================================================
