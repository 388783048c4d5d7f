---------------------------- MODULE MCControlLease ----------------------------
(***************************************************************************)
(* Two tablets and the StateLoop thread; the lease outlasts the watchdog   *)
(* by one tick, so that a lease without live axes occurs.                  *)
(***************************************************************************)
EXTENDS ControlLease, TLC

CONSTANTS c1, c2

MCClients == {c1, c2}
MCLeaseTicks == 2
MCWatchTicks == 1

===============================================================================
