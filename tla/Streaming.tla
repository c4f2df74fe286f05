----------------------------- MODULE Streaming -----------------------------
(***************************************************************************)
(* The video thread with the camera manager that reports it and the        *)
(* network side as Mail promises it: two threads, viewers on one port and  *)
(* a user on the other.  Here Log() always returns, and an exit() of the   *)
(* video thread is the end; the module Process looks into both.            *)
(***************************************************************************)
EXTENDS VideoStreamer, MsgQueue

CONSTANTS Lines, Reports, MaxTx

VARIABLES que, perm, joined, view, cpc

Service == INSTANCE Mail
Camera  == INSTANCE CameraManager

userVars == << que, perm, joined, view >>
streamingVars  == << userVars, cpc, videoVars, RunSystem, up >>

StreamingTypeOK ==
    /\ VideoTypeOK
    /\ DOMAIN que = Modules
    /\ \A m \in Modules : IsQueue(que[m], m, Lines)
    /\ {perm, joined} \subseteq BOOLEAN
    /\ cpc \in {"idle", "send"}

StreamingInit ==
    /\ Service!MailInit
    /\ VideoInit
    /\ RunSystem = TRUE
    /\ cpc = "idle"

VideoThread ==
    /\ VideoStep
    /\ UNCHANGED << userVars, cpc >>

VideoGone ==
    /\ up /\ vpc = "exit"
    /\ up' = FALSE
    /\ UNCHANGED << userVars, cpc, videoVars, RunSystem >>

CameraTask ==
    /\ up
    /\ \/ Camera!Run_Task /\ Len(que["Camera"].TxMsgs) <= MaxTx
       \/ Camera!SendData
    /\ UNCHANGED << perm, joined, view, up, videoVars, RunSystem >>

\* The network side runs between the tasks of the main thread.  (The camera
\* manager takes no lines, and does not depend on the permission.)
Users ==
    /\ cpc = "idle"
    /\ Service!Join \/ Service!Announce \/ Service!Leave
    /\ UNCHANGED << cpc, videoVars, RunSystem >>

Collects ==
    /\ cpc = "idle"
    /\ Service!Collect
    /\ UNCHANGED << cpc, videoVars, RunSystem >>

Viewing ==
    /\ ViewerNext
    /\ UNCHANGED << userVars, cpc >>

StreamingNext == VideoThread \/ VideoGone \/ CameraTask \/ Users \/ Collects \/ Viewing

\* The thread gets on, but nothing makes the loop of a stream end: that is up
\* to the camera program, the disk and the viewer.
VideoProgress == (VideoThread /\ vpc # "stream" /\ vpc' # vpc) \/ VideoGone

\* The main loop, too, keeps running the task and the network side.
StreamingFairness ==
    /\ SF_streamingVars(VideoProgress)
    /\ SF_streamingVars(CameraTask)
    /\ SF_streamingVars(Collects)

StreamingSpec == StreamingInit /\ [][StreamingNext]_streamingVars /\ StreamingFairness

-----------------------------------------------------------------------------
(* Properties.                                                             *)

TellsStream(r) == r.RecordType = "StreamInfo"

\* A user who joins is told about the stream, recording or not: the flag that
\* asks for it is cleared only when it is heeded (CameraManager.cpp:85).
NewcomerToldStream ==
    joined ~> (\E r \in view["Camera"] : TellsStream(r)) \/ ~joined \/ ~up

\* The manager asks whether there is a recording, and only then whose
\* (CameraManager.cpp:85): a report may carry the name of nobody, or of the
\* next viewer.  No user is left with it: if only the stream goes on, the name
\* he has is in the end, and from then on, that of its viewer, whatever streams
\* and users there were before.
ViewerTold ==
    \A v \in Viewers :
        <>[](up /\ joined /\ Recording /\ client_fp = v)
            => <>[](\E r \in view["Camera"] : TellsStream(r) /\ r.Data = v)
=============================================================================
