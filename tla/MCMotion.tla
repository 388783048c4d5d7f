------------------------------- MODULE MCMotion -------------------------------
(***************************************************************************)
(* One record of telemetry for every way the channels can steer the code:  *)
(* agreeing with the robot, lagging, contradicting each other, gone.       *)
(***************************************************************************)
EXTENDS Motion, TLC

Udp(state) ==
  [udp |-> TRUE, basic |-> state, lock |-> FALSE, ros |-> FALSE,
   rosBasic |-> -1, body |-> FALSE, bodyState |-> -1]

Silence == [Udp(Sitting) EXCEPT !.udp = FALSE]

MCTelemetry ==
  {Udp(s) : s \in {Sitting, SitToStand, TorqueStanding, Marching}}
    \cup {Silence,
          [Udp(Sitting) EXCEPT !.lock = TRUE],
          [Udp(Sitting) EXCEPT !.ros = TRUE, !.rosBasic = Rl],
          [Udp(Sitting) EXCEPT !.body = TRUE, !.bodyState = Marching],
          [Udp(InitialStanding) EXCEPT !.body = TRUE, !.bodyState = EmergencyOrFall]}
===============================================================================
