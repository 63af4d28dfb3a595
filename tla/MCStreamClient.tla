------------------------------ MODULE MCStreamClient ------------------------------
(***************************************************************************)
(* StreamClient for TLC: a driver that grants what it is asked for or more,  *)
(* and one that may grant fewer.                                             *)
(***************************************************************************)
EXTENDS StreamClient

MCGrantsEnough == {3, 4}
MCGrantsAny == {2, 3, 4}
====================================================================================
