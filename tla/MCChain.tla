--------------------------------- MODULE MCChain ---------------------------------
(***************************************************************************)
(* Chain for TLC.                                                            *)
(***************************************************************************)
EXTENDS Chain
==================================================================================
