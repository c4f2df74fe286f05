----------------------------- MODULE MCProcess -----------------------------
(***************************************************************************)
(* One viewer, a log that keeps one line or two, one signal.               *)
(***************************************************************************)
EXTENDS Process

MCThreads == {"main", "video", "handler"}
MCViewers == {"v1"}
=============================================================================
