-------------------------------- MODULE MCGait --------------------------------
(***************************************************************************)
(* A gait for level ground, a stair gait and one that needs the robot to   *)
(* stand still: every path through Execute, and two different gaits at     *)
(* once in the pending slot and in the queue.                              *)
(***************************************************************************)
EXTENDS Gait, TLC

CONSTANTS walk, stair, stairmulti

MCGaits == {walk, stair, stairmulti}
MCStairGaits == {stair, stairmulti}
MCMultiFrame == {stairmulti}
===============================================================================
