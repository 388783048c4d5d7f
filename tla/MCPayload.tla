------------------------------ MODULE MCPayload ------------------------------
(***************************************************************************)
(* Two loads behind the payload board share a mailbox, or a lamp and one   *)
(* such load: both ways an answer comes back, and the mailbox overwritten. *)
(***************************************************************************)
EXTENDS Payload

CONSTANTS lamp, pump

===============================================================================
