---------------------------------- MODULE MCPump ----------------------------------
(***************************************************************************)
(* Pump for TLC.                                                             *)
(***************************************************************************)
EXTENDS Pump
===================================================================================
