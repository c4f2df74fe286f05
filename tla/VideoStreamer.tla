--------------------------- MODULE VideoStreamer ---------------------------
(***************************************************************************)
(* The video thread (src/src/VideoStream, and RunVideo() of main.cpp): it  *)
(* serves one viewer at a time on a port of its own, copying what the      *)
(* camera program writes to a pipe into a file and to the viewer.          *)
(*                                                                         *)
(*   start --> check --> accept --> pipe --> popen --> file --> record     *)
(*               ^                              |       |         |        *)
(*               |                              v       v         v        *)
(*             clear <-- close <-- stop <--   exit    exit      stream     *)
(*                                   ^-- ended <-----------------'         *)
(*                                                                         *)
(* Steps that call EventMsg::Log() are in LoggedStep, the others in        *)
(* QuietStep, so that the modules that use this one can say what Log()     *)
(* means for them.                                                         *)
(*                                                                         *)
(* watching[v] is the viewer's connection: none, open, stalled (it reads   *)
(* no more and the buffers are full), fin, pipe and reset (as peer in      *)
(* TcpServer), done (closed by the program).                               *)
(***************************************************************************)
EXTENDS Integers, Sequences, Functions

CONSTANTS
    Viewers,        \* viewers, each of whom connects once
    NoViewer,       \* client_fp after a failed accept(); an empty Client_Name
    MaxFails        \* bound: accept() fails that often

ASSUME VideoAssumption ==
    /\ NoViewer \notin Viewers
    /\ MaxFails \in Nat

VARIABLES
    vpc,            \* where the thread is
    client_fp,      \* the viewer behind RunStream()'s client_fp
    Client_Name,    \* VideoStreamer::Client_Name, its viewer
    Recording,      \* VideoStreamer::Recording
    fails,          \* times accept() has failed
    watching,       \* the connection of each viewer
    waiting,        \* viewers waiting for accept(), oldest first
    RunSystem,      \* the program's flag
    up              \* the process runs

streamVars == << vpc, client_fp, Client_Name, Recording, fails >>
viewerVars == << watching, waiting >>
videoVars  == << streamVars, viewerVars >>

VideoTypeOK ==
    /\ vpc \in {"start", "check", "accept", "pipe", "popen", "file", "record",
                "stream", "ended", "stop", "close", "clear", "exit", "gone"}
    /\ {client_fp, Client_Name} \subseteq Viewers \cup {NoViewer}
    /\ {RunSystem, up} \subseteq BOOLEAN
    /\ Recording = (vpc \in {"stream", "ended", "stop"})
    /\ fails \in 0 .. MaxFails
    /\ watching \in [Viewers -> {"none", "open", "stalled", "fin", "pipe", "reset", "done"}]
    /\ waiting \in Seq(Viewers)

VideoInit ==
    /\ vpc = "start"
    /\ client_fp = NoViewer
    /\ Client_Name = NoViewer
    /\ Recording = FALSE
    /\ fails = 0
    /\ watching = [v \in Viewers |-> "none"]
    /\ waiting = << >>

-----------------------------------------------------------------------------
(* The viewers.                                                            *)

Viewer(v, before, after) ==
    /\ watching[v] \in before
    /\ watching' = [watching EXCEPT ![v] = after]
    /\ waiting' = IF before = {"none"} THEN Append(waiting, v) ELSE waiting
    /\ UNCHANGED << streamVars, RunSystem, up >>

ViewerConnects(v) == Viewer(v, {"none"}, "open")
ViewerStalls(v)   == Viewer(v, {"open"}, "stalled")
ViewerResumes(v)  == Viewer(v, {"stalled"}, "open")
ViewerCloses(v)   == Viewer(v, {"open"}, "fin")
ViewerAborts(v)   == Viewer(v, {"open", "stalled"}, "reset")

ViewerNext ==
    \E v \in Viewers :
        \/ ViewerConnects(v)
        \/ ViewerStalls(v)
        \/ ViewerResumes(v)
        \/ ViewerCloses(v)
        \/ ViewerAborts(v)

-----------------------------------------------------------------------------
(* RunVideo() and RunStream().                                             *)

Go(from, to) == up /\ vpc = from /\ vpc' = to

RunVideo ==
    /\ Go("start", "check")
    /\ UNCHANGED << client_fp, Client_Name, Recording, fails, viewerVars, RunSystem, up >>

\* Mutant of Continues: the thread serves one viewer only.
ContinuesOnce == RunSystem /\ \A v \in Viewers : watching[v] # "done"

Continues == RunSystem

CheckRun ==
    /\ Go("check", IF Continues THEN "accept" ELSE "gone")
    /\ UNCHANGED << client_fp, Client_Name, Recording, fails, viewerVars, RunSystem, up >>

\* accept() waits for a viewer, whose name is kept for the camera manager.
WaitForClient ==
    /\ Go("accept", "pipe")
    /\ waiting # << >>
    /\ client_fp' = Head(waiting)
    /\ Client_Name' = Head(waiting)
    /\ waiting' = Tail(waiting)
    /\ UNCHANGED << Recording, fails, watching, RunSystem, up >>

\* When accept() fails RunStream() goes on with the descriptor -1.
AcceptFails ==
    /\ Go("accept", "pipe")
    /\ fails < MaxFails
    /\ fails' = fails + 1
    /\ client_fp' = NoViewer
    /\ UNCHANGED << Client_Name, Recording, viewerVars, RunSystem, up >>

\* OpenPipe() logs its command, runs it, and exits if that fails;
\* OpenLocalFile() exits when the file cannot be opened.
Opens(from, to) ==
    /\ Go(from, to)
    /\ UNCHANGED << client_fp, Client_Name, Recording, fails, viewerVars, RunSystem, up >>

\* Mutant of SetRecording: the flag is never taken back.
SetRecordingOnly(from, to, value) ==
    /\ Go(from, to)
    /\ Recording' = (Recording \/ value)
    /\ UNCHANGED << client_fp, Client_Name, fails, viewerVars, RunSystem, up >>

SetRecording(from, to, value) ==
    /\ Go(from, to)
    /\ Recording' = value
    /\ UNCHANGED << client_fp, Client_Name, fails, viewerVars, RunSystem, up >>

StartRecording == SetRecording("record", "stream", TRUE)

\* What write() to the client does: it succeeds, fails, raises SIGPIPE, or
\* waits as long as the viewer is stalled.
Peer == IF client_fp = NoViewer THEN "none" ELSE watching[client_fp]

WriteOk    == Peer \in {"open", "fin"}
WriteKills == Peer = "pipe"

\* One round of the loop.  The end of file comes with the last of the data,
\* which is still written to the file and to the viewer.
Chunk ==
    /\ WriteOk
    /\ \E next \in {"stream", "ended"} : Go("stream", next)
    /\ \E after \in IF Peer = "fin" THEN {"fin", "pipe"} ELSE {Peer} :
         watching' = [watching EXCEPT ![client_fp] = after]
    /\ UNCHANGED << client_fp, Client_Name, Recording, fails, waiting, RunSystem, up >>

\* fwrite() to the file fails, which is called first and does not look at the
\* viewer, or write() to the viewer does: logged, and the loop ends.
ChunkFails ==
    /\ Go("stream", "ended")
    /\ UNCHANGED << client_fp, Client_Name, Recording, fails, viewerVars, RunSystem, up >>

\* SIGPIPE has its default action.
ChunkKills ==
    /\ WriteKills
    /\ up /\ vpc = "stream"
    /\ up' = FALSE
    /\ UNCHANGED << videoVars, RunSystem >>

StreamEnds ==
    /\ Go("ended", "stop")
    /\ UNCHANGED << client_fp, Client_Name, Recording, fails, viewerVars, RunSystem, up >>

StopRecording == SetRecording("stop", "close", FALSE)

\* fclose(), pclose() and close(); close(-1) does nothing.
CloseAll ==
    /\ Go("close", "clear")
    /\ client_fp' = NoViewer
    /\ watching' = [v \in Viewers |-> IF v = client_fp THEN "done" ELSE watching[v]]
    /\ UNCHANGED << Client_Name, Recording, fails, waiting, RunSystem, up >>

\* Mutant of Cleared: the name of the last viewer is kept.
ClearedNot == Client_Name

Cleared == NoViewer

ClearName ==
    /\ Go("clear", "check")
    /\ Client_Name' = Cleared
    /\ UNCHANGED << client_fp, Recording, fails, viewerVars, RunSystem, up >>

LoggedStep ==
    \/ RunVideo
    \/ WaitForClient
    \/ Opens("pipe", "popen")
    \/ Opens("popen", "exit")
    \/ Opens("file", "exit")
    \/ StartRecording
    \/ ChunkFails
    \/ StreamEnds

QuietStep ==
    \/ CheckRun
    \/ AcceptFails
    \/ Opens("popen", "file")
    \/ Opens("file", "record")
    \/ Chunk
    \/ ChunkKills
    \/ StopRecording
    \/ CloseAll
    \/ ClearName

VideoStep == LoggedStep \/ QuietStep

-----------------------------------------------------------------------------
(* Properties.                                                             *)

\* While a stream is recorded the name the camera manager reports is the
\* viewer's it is sent to, also after a failed accept() and whatever became
\* of the viewers before (VideoStream.cpp:111-113, 190-192).
NameWhileRecording == Recording => Client_Name = client_fp

\* A viewer who connects is served in the end, although one is served at a
\* time, whatever becomes of the streams before, if only each of them ends:
\* with the camera program (VideoStream.cpp:142), or with its viewer.  One who
\* reads no more, and does not leave, holds up the others (VideoStream.cpp:174).
ViewerServed ==
    []<>(vpc # "stream") =>
        \A v \in Viewers :
            v \in Range(waiting) ~> v \notin Range(waiting) \/ ~RunSystem \/ ~up
=============================================================================
