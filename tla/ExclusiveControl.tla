--------------------------- MODULE ExclusiveControl ---------------------------
(***************************************************************************)
(* What the gateway promises about control of the robot: at any time at    *)
(* most one client may command it, a client comes to hold control only by  *)
(* asking while nobody holds it, and control ends only by being given back *)
(* or by lapsing.  It never passes from one client to another directly.    *)
(***************************************************************************)
CONSTANTS
  Clients,    \* connections that may ask for control
  NoClient    \* nobody, no member of Clients

VARIABLES
  holder,     \* who may command the robot now
  asking      \* clients whose claim is being decided

vars == <<holder, asking>>

TypeOK ==
  /\ holder \in Clients \cup {NoClient}
  /\ asking \in SUBSET Clients

Init ==
  /\ holder = NoClient
  /\ asking = {}

Ask(c) ==
  /\ c \notin asking
  /\ asking' = asking \cup {c}
  /\ UNCHANGED holder

(***************************************************************************)
(* A claim is granted when nobody holds control, or to the holder again.   *)
(***************************************************************************)
Grant(c) ==
  /\ c \in asking
  /\ holder \in {NoClient, c}
  /\ holder' = c
  /\ asking' = asking \ {c}

Deny(c) ==
  /\ c \in asking
  /\ holder \notin {NoClient, c}
  /\ asking' = asking \ {c}
  /\ UNCHANGED holder

(***************************************************************************)
(* Control ends: the holder yields or disconnects, or its lease runs out.  *)
(***************************************************************************)
Drop ==
  /\ holder # NoClient
  /\ holder' = NoClient
  /\ UNCHANGED asking

Next ==
  \/ \E c \in Clients : Ask(c) \/ Grant(c) \/ Deny(c)
  \/ Drop

Spec == Init /\ [][Next]_vars

===============================================================================
