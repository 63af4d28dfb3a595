-------------------------------- MODULE MCPipeline --------------------------------
(***************************************************************************)
(* Pipeline for TLC: one buffer in each stream stands for three, since only  *)
(* whether buffers are left queued matters here.                             *)
(***************************************************************************)
EXTENDS Pipeline

MCGrants == {1}
====================================================================================
