------------------------------- MODULE MCConsole -------------------------------
(***************************************************************************)
(* One App, its gateway and another console.                               *)
(***************************************************************************)
EXTENDS Console
===============================================================================
