--------------------------- MODULE CameraManager ---------------------------
(***************************************************************************)
(* The camera manager's task (src/src/CameraManager), once a second on the *)
(* main thread.  It reads the state of the video thread in two steps: is   *)
(* there a recording, then whose.                                          *)
(***************************************************************************)
EXTENDS MsgQueue

VARIABLES
    que,            \* the MsgQueue of every module
    cpc,            \* where the task is
    Recording,      \* VideoStreamer::Recording
    Client_Name     \* VideoStreamer::Client_Name

\* Mutants of Wanted: only one of the reasons counts.
WantedRecording(q) == Recording
WantedBroadcast(q) == q.Broadcast

Wanted(q) == Recording \/ q.Broadcast

\* "isRecording() || IsBroadcast()": during a recording the flag is not
\* looked at, and stays raised.
Run_Task ==
    /\ cpc = "idle"
    /\ Wanted(que["Camera"])
    /\ cpc' = "send"
    /\ que' = IF Recording THEN que ELSE [que EXCEPT !["Camera"] = IsBroadcastDone(@)]

\* SendData(); of the settings only the name of the viewer ever changes.
SendData ==
    /\ cpc = "send"
    /\ cpc' = "idle"
    /\ que' = [que EXCEPT !["Camera"] = Send(@, "StreamInfo", Client_Name)]
=============================================================================
