---------------------------- MODULE MCStreaming ----------------------------
(***************************************************************************)
(* Two viewers, one after the other, and a user who comes and goes.        *)
(***************************************************************************)
EXTENDS Streaming

MCModules == {"Camera"}
MCUpdateModules == {"Camera"}
MCViewers == {"v1", "v2"}
=============================================================================
