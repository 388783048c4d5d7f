------------------------------- MODULE MCMedia -------------------------------
(***************************************************************************)
(* A camera with an H.265 main and an H.264 sub stream, and one with a     *)
(* single H.264 stream: a client that decodes only H.264 is refused the    *)
(* slot for the first and granted it for the second.                       *)
(***************************************************************************)
EXTENDS Media, TLC

CONSTANTS ptz, body

MCSources == {ptz, body}
MCMainCodec == (ptz :> "h265") @@ (body :> "h264")
MCSubCodec == (ptz :> "h264") @@ (body :> NoCodec)
MCCapsReports == {{"h264"}, {"h264", "h265"}}

(***************************************************************************)
(* For an instance with three clients: none reports more than H.264.       *)
(***************************************************************************)
NoCapsReports == {}

(***************************************************************************)
(* What OneFullStream depends on there: not the history of who was told.   *)
(***************************************************************************)
Present ==
  <<registry, connected, thread, todo, view,
    [c \in Clients |-> {<<e.to, e.plan>> : e \in hand[c]}]>>

ClientSymmetry == Permutations(Clients)
===============================================================================
