-------------------------------- MODULE Media --------------------------------
(***************************************************************************)
(* MediaRegistry (rk3588/src/media_registry.cpp) and the session threads   *)
(* of RobotService that use it: one full-rate video stream for all         *)
(* clients, and a media plan that tells each client what to pull.          *)
(*                                                                         *)
(* The video bytes do not pass through the gateway: what a client pulls is *)
(* what the last plan it received says.  SendMediaPlan builds a plan under *)
(* the registry's mutex and sends it after leaving it, so that every       *)
(* session thread may hold a plan that has gone stale in the meantime.     *)
(***************************************************************************)
CONSTANTS
  Clients,     \* connections, hence session threads
  Sources,     \* configured video sources
  MainCodec,   \* codec of a source's main stream, or NoCodec without one
  SubCodec,    \* the same for its sub stream
  CapsReports, \* what a client may report it can decode
  NoClient,    \* full_holder_ = 0
  NoSource,    \* nothing selected
  NoCodec      \* rendition without a path

Codecs == {"h264", "h265"}
DefaultCaps == {"h264"}

ASSUME MediaAssumption ==
  /\ MainCodec \in [Sources -> Codecs \cup {NoCodec}]
  /\ SubCodec \in [Sources -> Codecs \cup {NoCodec}]
  /\ CapsReports \subseteq SUBSET Codecs
  /\ NoClient \notin Clients
  /\ NoSource \notin Sources
  /\ NoCodec \notin Codecs

VARIABLES
  caps,        \* clients_[id].h264 and .h265
  selected,    \* clients_[id].selected
  fullHolder,  \* full_holder_
  connected,   \* WsServer's clients_
  thread,      \* where the session threads are
  todo,        \* clients a thread still builds a plan for
  hand,        \* plans a thread has built and not yet sent
  view,        \* last plan a client received
  told         \* history: got a plan built since full_holder_ last changed

registry == <<caps, selected, fullHolder>>
vars == <<caps, selected, fullHolder, connected, thread, todo, hand, view, told>>

Plans == [main : Sources \cup {NoSource},
          quality : [Sources -> {"main", "sub", "none"}]]

NoPlan == [main |-> NoSource, quality |-> [s \in Sources |-> "none"]]

Envelopes == [to : Clients, plan : Plans, fresh : BOOLEAN]

TypeOK ==
  /\ caps \in [Clients -> SUBSET Codecs]
  /\ selected \in [Clients -> Sources \cup {NoSource}]
  /\ fullHolder \in Clients \cup {NoClient}
  /\ connected \subseteq Clients
  /\ thread \in [Clients -> {"idle", "list", "plans", "leaving"}]
  /\ todo \in [Clients -> SUBSET Clients]
  /\ hand \in [Clients -> SUBSET Envelopes]
  /\ \A c \in Clients : thread[c] # "plans" => todo[c] = {} /\ hand[c] = {}
  /\ view \in [Clients -> Plans]
  /\ told \subseteq Clients

Init ==
  /\ caps = [c \in Clients |-> DefaultCaps]
  /\ selected = [c \in Clients |-> NoSource]
  /\ fullHolder = NoClient
  /\ connected = {}
  /\ thread = [c \in Clients |-> "idle"]
  /\ todo = [c \in Clients |-> {}]
  /\ hand = [c \in Clients |-> {}]
  /\ view = [c \in Clients |-> NoPlan]
  /\ told = {}

-------------------------------------------------------------------------------
(***************************************************************************)
(* Pick and BuildPlanJson: a thumbnail is always the sub stream, the main  *)
(* view the main stream if the client can decode it.                       *)
(***************************************************************************)
CanDecode(codec, c) == codec \in caps[c]

Pick(s, c, wantMain) ==
  IF wantMain /\ CanDecode(MainCodec[s], c) THEN "main"
  ELSE IF CanDecode(SubCodec[s], c) THEN "sub" ELSE "none"

BuildPlan(c) ==
  [main |-> selected[c],
   quality |-> [s \in Sources |->
                  Pick(s, c, fullHolder = c /\ s = selected[c])]]

(***************************************************************************)
(* A new holder makes every plan built before it stale.                    *)
(***************************************************************************)
SetHolder(c) ==
  /\ fullHolder' = c
  /\ IF c = fullHolder
     THEN UNCHANGED <<hand, told>>
     ELSE /\ hand' = [t \in Clients |->
                        {[e EXCEPT !.fresh = FALSE] : e \in hand[t]}]
          /\ told' = {}

-------------------------------------------------------------------------------
(***************************************************************************)
(* OnConnect ends with a plan for the new client.  Ids are not used twice: *)
(* nobody may still know this one.                                         *)
(***************************************************************************)
Forgotten(c) == \A t \in Clients : c \notin todo[t] /\ \A e \in hand[t] : e.to # c

Connect(c) ==
  /\ c \notin connected /\ thread[c] = "idle" /\ Forgotten(c)
  /\ connected' = connected \cup {c}
  /\ thread' = [thread EXCEPT ![c] = "plans"]
  /\ todo' = [todo EXCEPT ![c] = {c}]
  /\ view' = [view EXCEPT ![c] = NoPlan]
  /\ told' = told \ {c}
  /\ UNCHANGED <<registry, hand>>

(***************************************************************************)
(* media_caps and media_plan: a plan for the client that asks.             *)
(***************************************************************************)
SetCaps(c, codecs) ==
  /\ c \in connected /\ thread[c] = "idle"
  /\ caps' = [caps EXCEPT ![c] = codecs]
  /\ thread' = [thread EXCEPT ![c] = "plans"]
  /\ todo' = [todo EXCEPT ![c] = {c}]
  /\ UNCHANGED <<selected, fullHolder, connected, hand, view, told>>

AskPlan(c) ==
  /\ c \in connected /\ thread[c] = "idle"
  /\ thread' = [thread EXCEPT ![c] = "plans"]
  /\ todo' = [todo EXCEPT ![c] = {c}]
  /\ UNCHANGED <<registry, connected, hand, view, told>>

(***************************************************************************)
(* media_select of a source nobody configured: everyone gets the old plan. *)
(***************************************************************************)
SelectUnknown(c) ==
  /\ c \in connected /\ thread[c] = "idle"
  /\ thread' = [thread EXCEPT ![c] = "list"]
  /\ UNCHANGED <<registry, connected, todo, hand, view, told>>

(***************************************************************************)
(* media_select: first come, first served.  A client that cannot decode    *)
(* the main stream gives the slot up.                                      *)
(***************************************************************************)
Select(c, s) ==
  /\ c \in connected /\ thread[c] = "idle"
  /\ selected' = [selected EXCEPT ![c] = s]
  /\ \/ /\ ~CanDecode(MainCodec[s], c)
        /\ SetHolder(IF fullHolder = c THEN NoClient ELSE fullHolder)
     \/ /\ CanDecode(MainCodec[s], c)
        /\ SetHolder(IF fullHolder = NoClient THEN c ELSE fullHolder)
  /\ thread' = [thread EXCEPT ![c] = "list"]
  /\ UNCHANGED <<caps, connected, todo, view>>

(***************************************************************************)
(* SessionLoop takes the client off the list, then calls OnDisconnect.     *)
(***************************************************************************)
Disconnect(c) ==
  /\ c \in connected /\ thread[c] = "idle"
  /\ connected' = connected \ {c}
  /\ thread' = [thread EXCEPT ![c] = "leaving"]
  /\ UNCHANGED <<registry, todo, hand, view, told>>

(***************************************************************************)
(* Mutants: a client that leaves keeps the slot; its slot is freed and     *)
(* nobody is told.                                                         *)
(***************************************************************************)
ForgetCapsOnly(c) ==
  /\ thread[c] = "leaving"
  /\ caps' = [caps EXCEPT ![c] = DefaultCaps]
  /\ selected' = [selected EXCEPT ![c] = NoSource]
  /\ thread' = [thread EXCEPT ![c] = IF fullHolder = c THEN "list" ELSE "idle"]
  /\ UNCHANGED <<fullHolder, connected, todo, hand, view, told>>

ForgetQuietly(c) ==
  /\ thread[c] = "leaving"
  /\ caps' = [caps EXCEPT ![c] = DefaultCaps]
  /\ selected' = [selected EXCEPT ![c] = NoSource]
  /\ SetHolder(IF fullHolder = c THEN NoClient ELSE fullHolder)
  /\ thread' = [thread EXCEPT ![c] = "idle"]
  /\ UNCHANGED <<connected, todo, view>>

(***************************************************************************)
(* Forget.  had_slot is read in a section before, but only this thread     *)
(* could change the answer.                                                *)
(***************************************************************************)
Forget(c) ==
  /\ thread[c] = "leaving"
  /\ caps' = [caps EXCEPT ![c] = DefaultCaps]
  /\ selected' = [selected EXCEPT ![c] = NoSource]
  /\ SetHolder(IF fullHolder = c THEN NoClient ELSE fullHolder)
  /\ thread' = [thread EXCEPT ![c] = IF fullHolder = c THEN "list" ELSE "idle"]
  /\ UNCHANGED <<connected, todo, view>>

-------------------------------------------------------------------------------
(***************************************************************************)
(* for (other : ClientIds()) SendMediaPlan(other).                         *)
(***************************************************************************)
ListClients(c) ==
  /\ thread[c] = "list"
  /\ todo' = [todo EXCEPT ![c] = connected]
  /\ thread' = [thread EXCEPT ![c] = IF connected = {} THEN "idle" ELSE "plans"]
  /\ UNCHANGED <<registry, connected, hand, view, told>>

Build(c, d) ==
  /\ thread[c] = "plans" /\ hand[c] = {} /\ d \in todo[c]
  /\ todo' = [todo EXCEPT ![c] = @ \ {d}]
  /\ hand' = [hand EXCEPT ![c] = {[to |-> d, plan |-> BuildPlan(d), fresh |-> TRUE]}]
  /\ UNCHANGED <<registry, connected, thread, view, told>>

(***************************************************************************)
(* Mutant: the thread goes on with its plan still in hand.                 *)
(***************************************************************************)
SendAndKeep(c, e) ==
  /\ e \in hand[c]
  /\ IF e.to \in connected
     THEN /\ view' = [view EXCEPT ![e.to] = e.plan]
          /\ told' = IF e.fresh THEN told \cup {e.to} ELSE told \ {e.to}
     ELSE UNCHANGED <<view, told>>
  /\ thread' = [thread EXCEPT ![c] = IF todo[c] = {} THEN "idle" ELSE "plans"]
  /\ UNCHANGED <<registry, connected, todo, hand>>

(***************************************************************************)
(* Nothing is sent to a client that has left.                              *)
(***************************************************************************)
Send(c, e) ==
  /\ e \in hand[c]
  /\ hand' = [hand EXCEPT ![c] = {}]
  /\ IF e.to \in connected
     THEN /\ view' = [view EXCEPT ![e.to] = e.plan]
          /\ told' = IF e.fresh THEN told \cup {e.to} ELSE told
     ELSE UNCHANGED <<view, told>>
  /\ thread' = [thread EXCEPT ![c] = IF todo[c] = {} THEN "idle" ELSE "plans"]
  /\ UNCHANGED <<registry, connected, todo>>

-------------------------------------------------------------------------------
OnMessage(c) ==
  \/ \E codecs \in CapsReports : SetCaps(c, codecs)
  \/ \E s \in Sources : Select(c, s)
  \/ AskPlan(c)
  \/ SelectUnknown(c)

SendMediaPlan(c) ==
  \/ \E d \in Clients : Build(c, d)
  \/ \E e \in hand[c] : Send(c, e)

Next ==
  \E c \in Clients :
    \/ Connect(c)
    \/ OnMessage(c)
    \/ Disconnect(c)
    \/ Forget(c)
    \/ ListClients(c)
    \/ SendMediaPlan(c)

Spec == Init /\ [][Next]_vars

-------------------------------------------------------------------------------
AtRest == \A c \in Clients : thread[c] = "idle"

(***************************************************************************)
(* The slot belongs to a client that is connected or is just being         *)
(* forgotten: a departed tablet never blocks the full-rate stream for the  *)
(* others (OnDisconnect: or this stream is lost for good).                 *)
(***************************************************************************)
NobodyAbsentHolds ==
  fullHolder # NoClient =>
    fullHolder \in connected \/ thread[fullHolder] = "leaving"

(***************************************************************************)
(* Whenever the holder changes, every connected client gets a plan built   *)
(* after the change, or a thread is still bound to build one: whoever      *)
(* connects, selects or leaves meanwhile.                                  *)
(***************************************************************************)
NewsReachesAll ==
  \A c \in connected \ told :
    \E t \in Clients :
      \/ thread[t] = "list"
      \/ c \in todo[t]
      \/ \E e \in hand[t] : e.to = c /\ e.fresh

(***************************************************************************)
(* First come, first served: the slot passes from one client to another    *)
(* only through being free.                                                *)
(***************************************************************************)
SlotIsNotSnatched ==
  [][fullHolder # NoClient => fullHolder' \in {fullHolder, NoClient}]_vars

(***************************************************************************)
(* media_registry.hpp: the full-rate stream exists once, the MESH cannot   *)
(* carry a second one and the gateway must enforce it.  With every handler *)
(* at rest at most one client has been told to pull a main stream.         *)
(***************************************************************************)
PullsMain(c) == \E s \in Sources : view[c].quality[s] = "main"

OneFullStream ==
  AtRest => \A c, d \in connected : PullsMain(c) /\ PullsMain(d) => c = d

===============================================================================
