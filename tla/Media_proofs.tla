------------------------------ MODULE Media_proofs ------------------------------
(***************************************************************************)
(* Proofs about Media, for any number of clients and any video sources.    *)
(***************************************************************************)
EXTENDS Media, TLAPS

(***************************************************************************)
(* A plan that is built is a plan, whatever the client can decode.         *)
(***************************************************************************)
LEMMA BuildPlanType ==
  ASSUME TypeOK, NEW d \in Clients
  PROVE  BuildPlan(d) \in Plans
  <1>1. \A s \in Sources, w \in BOOLEAN : Pick(s, d, w) \in {"main", "sub", "none"}
    BY DEF Pick
  <1>2. selected[d] \in Sources \cup {NoSource}
    BY DEF TypeOK
  <1>3. \A s \in Sources :
          Pick(s, d, fullHolder = d /\ s = selected[d]) \in {"main", "sub", "none"}
    BY <1>1
  <1> QED BY <1>2, <1>3 DEF BuildPlan, Plans

(***************************************************************************)
(* A change of the holder keeps the plans in the threads' hands.           *)
(***************************************************************************)
LEMMA SetHolderType ==
  ASSUME TypeOK, NEW h \in Clients \cup {NoClient}, SetHolder(h)
  PROVE  /\ fullHolder' \in Clients \cup {NoClient}
         /\ hand' \in [Clients -> SUBSET Envelopes]
         /\ \A c \in Clients : hand[c] = {} => hand'[c] = {}
         /\ told' \subseteq Clients
  <1>1. CASE UNCHANGED <<hand, told>>
    BY <1>1 DEF SetHolder, TypeOK
  <1>2. CASE /\ hand' = [t \in Clients |->
                           {[e EXCEPT !.fresh = FALSE] : e \in hand[t]}]
             /\ told' = {}
    <2>1. \A e \in Envelopes : [e EXCEPT !.fresh = FALSE] \in Envelopes
      BY DEF Envelopes
    <2>2. \A t \in Clients : hand[t] \subseteq Envelopes
      BY DEF TypeOK
    <2>3. \A t \in Clients :
            {[e EXCEPT !.fresh = FALSE] : e \in hand[t]} \subseteq Envelopes
      BY <2>1, <2>2
    <2> QED BY <1>2, <2>3 DEF SetHolder
  <1> QED BY <1>1, <1>2 DEF SetHolder

(***************************************************************************)
(* The registry, the threads' lists and the plans under way are well       *)
(* formed, and only a thread that is sending plans holds any.              *)
(***************************************************************************)
THEOREM TypeCorrect == Spec => []TypeOK
<1>1. Init => TypeOK
  <2> SUFFICES ASSUME Init PROVE TypeOK
    OBVIOUS
  <2>1. NoPlan \in Plans
    BY DEF NoPlan, Plans
  <2>2. caps \in [Clients -> SUBSET Codecs]
    BY DEF Init, Codecs, DefaultCaps
  <2> QED BY <2>1, <2>2 DEF Init, TypeOK
<1>2. TypeOK /\ [Next]_vars => TypeOK'
  <2> SUFFICES ASSUME TypeOK, [Next]_vars PROVE TypeOK'
    OBVIOUS
  <2>1. ASSUME NEW c \in Clients, Connect(c) PROVE TypeOK'
    <3>1. NoPlan \in Plans
      BY DEF NoPlan, Plans
    <3> QED BY <2>1, <3>1 DEF Connect, registry, TypeOK
  <2>2. ASSUME NEW c \in Clients, NEW codecs \in CapsReports, SetCaps(c, codecs)
        PROVE  TypeOK'
    <3>1. codecs \in SUBSET Codecs
      BY MediaAssumption
    <3> QED BY <2>2, <3>1 DEF SetCaps, TypeOK
  <2>3. ASSUME NEW c \in Clients, NEW s \in Sources, Select(c, s) PROVE TypeOK'
    <3>1. PICK h \in Clients \cup {NoClient} : SetHolder(h)
      BY <2>3 DEF Select, TypeOK
    <3>2. UNCHANGED <<caps, connected, todo, view>>
      BY <2>3 DEF Select
    <3>3. /\ thread[c] = "idle"
          /\ thread' = [thread EXCEPT ![c] = "list"]
          /\ selected' = [selected EXCEPT ![c] = s]
      BY <2>3 DEF Select
    <3> QED BY <3>1, <3>2, <3>3, SetHolderType DEF TypeOK
  <2>4. ASSUME NEW c \in Clients, AskPlan(c) \/ SelectUnknown(c) \/ Disconnect(c)
        PROVE  TypeOK'
    BY <2>4 DEF AskPlan, SelectUnknown, Disconnect, registry, TypeOK
  <2>5. ASSUME NEW c \in Clients, Forget(c) PROVE TypeOK'
    <3>1. PICK h \in Clients \cup {NoClient} : SetHolder(h)
      BY <2>5 DEF Forget, TypeOK
    <3>2. UNCHANGED <<connected, todo, view>>
      BY <2>5 DEF Forget
    <3>3. /\ thread[c] = "leaving"
          /\ thread' \in {[thread EXCEPT ![c] = "list"], [thread EXCEPT ![c] = "idle"]}
          /\ selected' = [selected EXCEPT ![c] = NoSource]
          /\ caps' = [caps EXCEPT ![c] = DefaultCaps]
      BY <2>5 DEF Forget
    <3>4. caps' \in [Clients -> SUBSET Codecs]
      BY <3>3 DEF TypeOK, DefaultCaps, Codecs
    <3> QED BY <3>1, <3>2, <3>3, <3>4, SetHolderType DEF TypeOK
  <2>6. ASSUME NEW c \in Clients, ListClients(c) PROVE TypeOK'
    BY <2>6 DEF ListClients, registry, TypeOK
  <2>7. ASSUME NEW c \in Clients, NEW d \in Clients, Build(c, d) PROVE TypeOK'
    <3>1. [to |-> d, plan |-> BuildPlan(d), fresh |-> TRUE] \in Envelopes
      BY BuildPlanType DEF Envelopes
    <3> QED BY <2>7, <3>1 DEF Build, registry, TypeOK
  <2>8. ASSUME NEW c \in Clients, NEW e \in hand[c], Send(c, e) PROVE TypeOK'
    <3>1. e \in Envelopes
      BY DEF TypeOK
    <3>2. e.to \in Clients /\ e.plan \in Plans
      BY <3>1 DEF Envelopes
    <3>3. view' \in [Clients -> Plans] /\ told' \subseteq Clients
      BY <2>8, <3>2 DEF Send, TypeOK
    <3> QED BY <2>8, <3>3 DEF Send, registry, TypeOK
  <2>9. CASE UNCHANGED vars
    BY <2>9 DEF vars, TypeOK
  <2> QED BY <2>1, <2>2, <2>3, <2>4, <2>5, <2>6, <2>7, <2>8, <2>9
          DEF Next, OnMessage, SendMediaPlan
<1> QED BY <1>1, <1>2, PTL DEF Spec

(***************************************************************************)
(* The slot never stays with a client that has gone, for any number of     *)
(* clients: it was connected when it took the slot, and only its own       *)
(* thread, which forgets it before it ends, can take it off the list.      *)
(***************************************************************************)
THEOREM HolderIsKnown == Spec => []NobodyAbsentHolds
<1>1. Init => NobodyAbsentHolds
  BY DEF Init, NobodyAbsentHolds
<1>2. TypeOK /\ NobodyAbsentHolds /\ [Next]_vars => NobodyAbsentHolds'
  <2> SUFFICES ASSUME TypeOK, NobodyAbsentHolds, [Next]_vars
               PROVE  NobodyAbsentHolds'
    OBVIOUS
  <2> USE DEF NobodyAbsentHolds, registry, TypeOK
  <2>1. ASSUME NEW c \in Clients, Connect(c) PROVE NobodyAbsentHolds'
    BY <2>1 DEF Connect
  <2>2. ASSUME NEW c \in Clients, NEW codecs \in CapsReports, SetCaps(c, codecs)
        PROVE  NobodyAbsentHolds'
    BY <2>2 DEF SetCaps
  <2>3. ASSUME NEW c \in Clients, NEW s \in Sources, Select(c, s)
        PROVE  NobodyAbsentHolds'
    BY <2>3 DEF Select, SetHolder
  <2>4. ASSUME NEW c \in Clients, AskPlan(c) \/ SelectUnknown(c) \/ Disconnect(c)
        PROVE  NobodyAbsentHolds'
    BY <2>4 DEF AskPlan, SelectUnknown, Disconnect
  <2>5. ASSUME NEW c \in Clients, Forget(c) PROVE NobodyAbsentHolds'
    BY <2>5 DEF Forget, SetHolder
  <2>6. ASSUME NEW c \in Clients, ListClients(c) PROVE NobodyAbsentHolds'
    BY <2>6 DEF ListClients
  <2>7. ASSUME NEW c \in Clients, NEW d \in Clients, Build(c, d)
        PROVE  NobodyAbsentHolds'
    BY <2>7 DEF Build
  <2>8. ASSUME NEW c \in Clients, NEW e \in hand[c], Send(c, e)
        PROVE  NobodyAbsentHolds'
    <3>1. thread[c] = "plans"
      OBVIOUS
    <3> QED BY <2>8, <3>1 DEF Send
  <2>9. CASE UNCHANGED vars
    BY <2>9 DEF vars
  <2> QED BY <2>1, <2>2, <2>3, <2>4, <2>5, <2>6, <2>7, <2>8, <2>9
          DEF Next, OnMessage, SendMediaPlan
<1> QED BY <1>1, <1>2, TypeCorrect, PTL DEF Spec

(***************************************************************************)
(* A thread sends one plan before it builds the next.                      *)
(***************************************************************************)
OneInHand == \A c \in Clients : \A e, f \in hand[c] : e = f

LEMMA SetHolderKeepsOne ==
  ASSUME TypeOK, OneInHand, NEW h, SetHolder(h)
  PROVE  OneInHand'
  <1>1. CASE UNCHANGED hand
    BY <1>1 DEF OneInHand
  <1>2. CASE hand' = [t \in Clients |->
                        {[e EXCEPT !.fresh = FALSE] : e \in hand[t]}]
    <2> SUFFICES ASSUME NEW c \in Clients, NEW e \in hand'[c], NEW f \in hand'[c]
                 PROVE  e = f
      BY DEF OneInHand
    <2>1. PICK x \in hand[c] : e = [x EXCEPT !.fresh = FALSE]
      BY <1>2
    <2>2. PICK y \in hand[c] : f = [y EXCEPT !.fresh = FALSE]
      BY <1>2
    <2>3. x = y
      BY DEF OneInHand
    <2> QED BY <2>1, <2>2, <2>3
  <1> QED BY <1>1, <1>2 DEF SetHolder

THEOREM OnePlanAtATime == Spec => []OneInHand
<1>1. Init => OneInHand
  BY DEF Init, OneInHand
<1>2. TypeOK /\ OneInHand /\ [Next]_vars => OneInHand'
  <2> SUFFICES ASSUME TypeOK, OneInHand, [Next]_vars PROVE OneInHand'
    OBVIOUS
  <2>1. CASE UNCHANGED hand
    BY <2>1 DEF OneInHand
  <2>2. ASSUME NEW h, SetHolder(h) PROVE OneInHand'
    BY <2>2, SetHolderKeepsOne
  <2>3. ASSUME NEW c \in Clients, NEW d \in Clients, Build(c, d) PROVE OneInHand'
    BY <2>3 DEF Build, OneInHand, TypeOK
  <2>4. ASSUME NEW c \in Clients, NEW e \in hand[c], Send(c, e) PROVE OneInHand'
    BY <2>4 DEF Send, OneInHand, TypeOK
  <2>5. ASSUME NEW c \in Clients,
               \/ Connect(c) \/ AskPlan(c) \/ SelectUnknown(c)
               \/ Disconnect(c) \/ ListClients(c)
        PROVE  UNCHANGED hand
    BY <2>5 DEF Connect, AskPlan, SelectUnknown, Disconnect, ListClients
  <2>6. ASSUME NEW c \in Clients, NEW codecs \in CapsReports, SetCaps(c, codecs)
        PROVE  UNCHANGED hand
    BY <2>6 DEF SetCaps
  <2>7. ASSUME NEW c \in Clients,
               Forget(c) \/ \E s \in Sources : Select(c, s)
        PROVE  \E h : SetHolder(h)
    BY <2>7 DEF Forget, Select
  <2>8. CASE UNCHANGED vars
    BY <2>1, <2>8 DEF vars
  <2> QED BY <2>1, <2>2, <2>3, <2>4, <2>5, <2>6, <2>7, <2>8
          DEF Next, OnMessage, SendMediaPlan
<1> QED BY <1>1, <1>2, TypeCorrect, PTL DEF Spec

(***************************************************************************)
(* Some thread is still bound to build a plan for c, or carries one that   *)
(* was built since the holder last changed.                                *)
(***************************************************************************)
OnItsWay(c) ==
  \E t \in Clients :
    \/ thread[t] = "list"
    \/ c \in todo[t]
    \/ \E e \in hand[t] : e.to = c /\ e.fresh

LEMMA ListingTellsAll ==
  ASSUME NEW t \in Clients, thread'[t] = "list"
  PROVE  NewsReachesAll'
BY DEF NewsReachesAll

(***************************************************************************)
(* Every connected client hears of a new holder, for any number of         *)
(* clients.  The thread that changes the holder goes on to list the        *)
(* clients; who connects after that is sent a plan by its own thread.      *)
(***************************************************************************)
THEOREM EveryoneHears == Spec => []NewsReachesAll
<1>1. Init => NewsReachesAll
  BY DEF Init, NewsReachesAll
<1>2. TypeOK /\ OneInHand /\ NewsReachesAll /\ [Next]_vars => NewsReachesAll'
  <2> SUFFICES ASSUME TypeOK, OneInHand, NewsReachesAll, [Next]_vars
               PROVE  NewsReachesAll'
    OBVIOUS
  <2> USE DEF registry
  <2>0. \A c \in connected \ told : OnItsWay(c)
    BY DEF NewsReachesAll, OnItsWay
  <2>A. (\A c \in connected' \ told' : OnItsWay(c)') => NewsReachesAll'
    BY DEF NewsReachesAll, OnItsWay
  <2>1. ASSUME NEW c \in Clients, Connect(c) PROVE NewsReachesAll'
    <3>1. ASSUME NEW x \in connected' \ told' PROVE OnItsWay(x)'
      <4>1. CASE x = c
        <5>1. c \in todo'[c]
          BY <2>1 DEF Connect, TypeOK
        <5> QED BY <4>1, <5>1 DEF OnItsWay
      <4>2. CASE x # c
        <5>1. PICK t \in Clients : \/ thread[t] = "list"
                                   \/ x \in todo[t]
                                   \/ \E e \in hand[t] : e.to = x /\ e.fresh
          BY <2>0, <2>1, <3>1, <4>2 DEF Connect, OnItsWay
        <5>2. t # c
          BY <2>1, <5>1 DEF Connect, TypeOK
        <5> QED BY <2>1, <5>1, <5>2 DEF Connect, OnItsWay, TypeOK
      <4> QED BY <4>1, <4>2
    <3> QED BY <2>A, <3>1
  <2>2. ASSUME NEW c \in Clients,
               \/ AskPlan(c)
               \/ \E codecs \in CapsReports : SetCaps(c, codecs)
        PROVE  NewsReachesAll'
    <3>1. /\ thread[c] = "idle"
          /\ thread' = [thread EXCEPT ![c] = "plans"]
          /\ todo' = [todo EXCEPT ![c] = {c}]
          /\ UNCHANGED <<connected, hand, told>>
      BY <2>2 DEF AskPlan, SetCaps
    <3>2. ASSUME NEW x \in connected' \ told' PROVE OnItsWay(x)'
      <4>1. PICK t \in Clients : \/ thread[t] = "list"
                                 \/ x \in todo[t]
                                 \/ \E e \in hand[t] : e.to = x /\ e.fresh
        BY <2>0, <3>1, <3>2 DEF OnItsWay
      <4>2. t # c
        BY <3>1, <4>1 DEF TypeOK
      <4> QED BY <3>1, <4>1, <4>2 DEF OnItsWay, TypeOK
    <3> QED BY <2>A, <3>2
  <2>3. ASSUME NEW c \in Clients,
               SelectUnknown(c) \/ \E s \in Sources : Select(c, s)
        PROVE  NewsReachesAll'
    <3>1. thread'[c] = "list"
      BY <2>3 DEF SelectUnknown, Select, TypeOK
    <3> QED BY <3>1, ListingTellsAll
  <2>4. ASSUME NEW c \in Clients, Disconnect(c) PROVE NewsReachesAll'
    <3>1. ASSUME NEW x \in connected' \ told' PROVE OnItsWay(x)'
      <4>1. PICK t \in Clients : \/ thread[t] = "list"
                                 \/ x \in todo[t]
                                 \/ \E e \in hand[t] : e.to = x /\ e.fresh
        BY <2>0, <2>4, <3>1 DEF Disconnect, OnItsWay
      <4>2. thread'[t] = "list" \/ thread[t] # "list"
        BY <2>4 DEF Disconnect, TypeOK
      <4> QED BY <2>4, <4>1, <4>2 DEF Disconnect, OnItsWay
    <3> QED BY <2>A, <3>1
  <2>5. ASSUME NEW c \in Clients, Forget(c) PROVE NewsReachesAll'
    <3>1. CASE fullHolder = c
      <4>1. thread'[c] = "list"
        BY <2>5, <3>1 DEF Forget, TypeOK
      <4> QED BY <4>1, ListingTellsAll
    <3>2. CASE fullHolder # c
      <4>1. UNCHANGED <<hand, told, todo, connected>>
        BY <2>5, <3>2 DEF Forget, SetHolder
      <4>2. ASSUME NEW x \in connected' \ told' PROVE OnItsWay(x)'
        <5>1. PICK t \in Clients : \/ thread[t] = "list"
                                   \/ x \in todo[t]
                                   \/ \E e \in hand[t] : e.to = x /\ e.fresh
          BY <2>0, <4>1, <4>2 DEF OnItsWay
        <5>2. thread'[t] = "list" \/ thread[t] # "list"
          BY <2>5 DEF Forget, TypeOK
        <5> QED BY <4>1, <5>1, <5>2 DEF OnItsWay
      <4> QED BY <2>A, <4>2
    <3> QED BY <3>1, <3>2
  <2>6. ASSUME NEW c \in Clients, ListClients(c) PROVE NewsReachesAll'
    <3>1. todo'[c] = connected /\ UNCHANGED connected
      BY <2>6 DEF ListClients, TypeOK
    <3> QED BY <3>1 DEF NewsReachesAll
  <2>7. ASSUME NEW c \in Clients, NEW d \in Clients, Build(c, d)
        PROVE  NewsReachesAll'
    <3> DEFINE new == [to |-> d, plan |-> BuildPlan(d), fresh |-> TRUE]
    <3>1. ASSUME NEW x \in connected' \ told' PROVE OnItsWay(x)'
      <4>1. CASE x = d
        <5>1. new \in hand'[c] /\ new.to = x /\ new.fresh
          BY <2>7, <4>1 DEF Build, TypeOK
        <5> QED BY <5>1 DEF OnItsWay
      <4>2. CASE x # d
        <5>1. PICK t \in Clients : \/ thread[t] = "list"
                                   \/ x \in todo[t]
                                   \/ \E e \in hand[t] : e.to = x /\ e.fresh
          BY <2>0, <2>7, <3>1 DEF Build, OnItsWay
        <5>2. CASE thread[t] = "list"
          BY <2>7, <5>2 DEF Build, OnItsWay
        <5>3. CASE x \in todo[t]
          <6>1. x \in todo'[t]
            BY <2>7, <4>2, <5>3 DEF Build, TypeOK
          <6> QED BY <6>1 DEF OnItsWay
        <5>4. CASE \E e \in hand[t] : e.to = x /\ e.fresh
          <6>1. t # c
            BY <2>7, <5>4 DEF Build
          <6>2. hand'[t] = hand[t]
            BY <2>7, <6>1 DEF Build, TypeOK
          <6> QED BY <5>4, <6>2 DEF OnItsWay
        <5> QED BY <5>1, <5>2, <5>3, <5>4
      <4> QED BY <4>1, <4>2
    <3> QED BY <2>A, <3>1
  <2>8. ASSUME NEW c \in Clients, NEW e \in hand[c], Send(c, e)
        PROVE  NewsReachesAll'
    <3>1. thread[c] = "plans"
      BY DEF TypeOK
    <3>2. ASSUME NEW x \in connected' \ told' PROVE OnItsWay(x)'
      <4>1. x \in connected \ told /\ ~(e.to = x /\ e.fresh)
        BY <2>8, <3>2 DEF Send
      <4>2. PICK t \in Clients : \/ thread[t] = "list"
                                 \/ x \in todo[t]
                                 \/ \E f \in hand[t] : f.to = x /\ f.fresh
        BY <2>0, <4>1 DEF OnItsWay
      <4>3. CASE t # c
        <5>1. hand'[t] = hand[t] /\ thread'[t] = thread[t] /\ todo' = todo
          BY <2>8, <4>3 DEF Send, TypeOK
        <5> QED BY <4>2, <5>1 DEF OnItsWay
      <4>4. CASE t = c /\ x \in todo[t]
        BY <2>8, <4>4 DEF Send, OnItsWay
      <4>5. CASE t = c /\ \E f \in hand[t] : f.to = x /\ f.fresh
        <5>1. \A f \in hand[c] : f = e
          BY DEF OneInHand
        <5> QED BY <4>1, <4>5, <5>1
      <4> QED BY <3>1, <4>2, <4>3, <4>4, <4>5
    <3> QED BY <2>A, <3>2
  <2>9. CASE UNCHANGED vars
    BY <2>9 DEF vars, NewsReachesAll
  <2> QED BY <2>1, <2>2, <2>3, <2>4, <2>5, <2>6, <2>7, <2>8, <2>9
          DEF Next, OnMessage, SendMediaPlan
<1> QED BY <1>1, <1>2, TypeCorrect, OnePlanAtATime, PTL DEF Spec

(***************************************************************************)
(* No client takes the slot from another, for any number of clients.       *)
(***************************************************************************)
THEOREM FirstComeFirstServed == Spec => SlotIsNotSnatched
<1>1. [Next]_vars => [fullHolder # NoClient =>
                        fullHolder' \in {fullHolder, NoClient}]_vars
  BY DEF Next, OnMessage, SendMediaPlan, Connect, SetCaps, Select, AskPlan,
         SelectUnknown, Disconnect, Forget, ListClients, Build, Send, SetHolder,
         registry, vars
<1> QED BY <1>1, PTL DEF Spec, SlotIsNotSnatched
===============================================================================
