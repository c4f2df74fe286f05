------------------------------ MODULE MCAlarm ------------------------------
(***************************************************************************)
(* A group with an alarm of each kind: plain, muteable, latching, both.    *)
(***************************************************************************)
EXTENDS Alarm

MCAlarmList == << "plain", "muteable", "latching", "both" >>
MCMuteable == {"muteable", "both"}
MCLatching == {"latching", "both"}
=============================================================================
