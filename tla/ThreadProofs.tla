---------------------------- MODULE ThreadProofs ----------------------------
(***************************************************************************)
(* Proofs about what the threads of the program share: the log, the video  *)
(* thread, the process in which they live, and the camera manager that     *)
(* looks at the video thread; for any viewers, any modules, any depth of   *)
(* the log and any number of failures of accept().                         *)
(***************************************************************************)
EXTENDS Process, Streaming, TLAPS

-----------------------------------------------------------------------------
(* The log.                                                                *)

Inside == {"trim", "push", "write", "unlock"}

\* How far memory and file are apart while t is inside Log().
Progress(t) ==
    /\ at[t] \in {"trim", "unlock"} => SameLines(Messages, logFile)
    /\ at[t] = "push"  => /\ SameLines(Messages, Trimmed(logFile))
                          /\ Len(Messages) < Num_Msgs
    /\ at[t] = "write" => SameLines(Messages, Append(Trimmed(logFile), t))

\* The inductive invariant: only the holder of the lock is inside, and what it
\* has done so far is all that memory and file differ in.
EventInv ==
    /\ EventTypeOK
    /\ \A t \in Threads : Mtx = t <=> at[t] \in Inside
    /\ \A t \in Threads : Progress(t)
    /\ LogFileAgrees
    /\ LogDepth

Line == Threads \cup {Lost}

LEMMA TrimmedTyped ==
    ASSUME NEW S, NEW s \in Seq(S)
    PROVE  /\ Trimmed(s) \in Seq(S)
           /\ Len(s) <= Num_Msgs => Len(Trimmed(s)) < Num_Msgs
           /\ Len(Trimmed(s)) <= Len(s)
  BY EventAssumption DEF Trimmed

\* Trimming both keeps them alike.
LEMMA TrimBoth ==
    ASSUME NEW m \in Seq(Threads), NEW f \in Seq(Line), SameLines(m, f)
    PROVE  SameLines(Trimmed(m), Trimmed(f))
<1>1. Len(f) = Len(m) /\ Len(m) \in Nat
  BY DEF SameLines
<1>2. CASE Len(m) >= Num_Msgs
  <2>1. Trimmed(m) = Tail(m) /\ Trimmed(f) = Tail(f)
    BY <1>1, <1>2 DEF Trimmed
  <2>2. m # << >> /\ f # << >>
    BY <1>1, <1>2, EventAssumption
  <2>3. /\ Len(Tail(m)) = Len(m) - 1 /\ Len(Tail(f)) = Len(m) - 1
        /\ \A i \in 1 .. Len(m) - 1 : Tail(m)[i] = m[i + 1] /\ Tail(f)[i] = f[i + 1]
    BY <1>1, <2>2
  <2>4. \A i \in 1 .. Len(m) - 1 : f[i + 1] \in {m[i + 1], Lost}
    BY <1>1 DEF SameLines
  <2>5. QED
    BY <2>1, <2>3, <2>4 DEF SameLines
<1>3. CASE ~(Len(m) >= Num_Msgs)
  BY <1>1, <1>3 DEF Trimmed
<1>4. QED
  BY <1>2, <1>3

\* Appending the same line, or one that was lost, keeps them alike.
LEMMA AppendBoth ==
    ASSUME NEW m \in Seq(Threads), NEW f \in Seq(Line), SameLines(m, f),
           NEW t \in Threads, NEW l \in {t, Lost}
    PROVE  SameLines(Append(m, t), Append(f, l))
<1>1. Len(f) = Len(m) /\ Len(m) \in Nat
  BY DEF SameLines
<1>2. \A i \in 1 .. Len(m) : f[i] \in {m[i], Lost}
  BY DEF SameLines
<1>3. /\ Len(Append(m, t)) = Len(m) + 1 /\ Len(Append(f, l)) = Len(m) + 1
      /\ \A i \in 1 .. Len(m) + 1 :
           /\ Append(m, t)[i] = IF i = Len(m) + 1 THEN t ELSE m[i]
           /\ Append(f, l)[i] = IF i = Len(m) + 1 THEN l ELSE f[i]
  BY <1>1 DEF Line
<1>4. QED
  BY <1>2, <1>3 DEF SameLines

LEMMA EventInitInv == EventInit => EventInv
  BY EventAssumption
  DEF EventInit, EventInv, EventTypeOK, Inside, Progress, LogFileAgrees, LogDepth, SameLines

\* What a step of t leaves to prove: the others are where they were.
LEMMA OnlyOneInside ==
    ASSUME EventInv, NEW t \in Threads, at[t] \in Inside
    PROVE  Mtx = t /\ \A u \in Threads \ {t} : at[u] \notin Inside /\ Mtx # u
  BY DEF EventInv

LEMMA EventStep ==
    ASSUME EventInv, [EventNext]_eventVars
    PROVE  EventInv'
<1> USE EventAssumption
<1>1. ASSUME NEW t \in Threads, Call(t)
      PROVE  EventInv'
  BY <1>1
  DEF EventInv, EventTypeOK, Call, Inside, Progress, LogFileAgrees, LogDepth, SameLines, Trimmed
<1>2. ASSUME NEW t \in Threads, Lock(t)
      PROVE  EventInv'
  <2>1. \A u \in Threads : at[u] \notin Inside
    BY <1>2 DEF Lock, CanLock, EventInv
  <2>2. \A u \in Threads : Progress(u)'
    BY <1>2, <2>1
    DEF Lock, CanLock, EventInv, EventTypeOK, Inside, Progress, LogFileAgrees, SameLines
  <2>3. QED
    BY <1>2, <2>1, <2>2
    DEF Lock, CanLock, EventInv, EventTypeOK, Inside, LogFileAgrees, LogDepth
<1>3. ASSUME NEW t \in Threads, Trim(t)
      PROVE  EventInv'
  <2>1. Mtx = t /\ \A u \in Threads \ {t} : at[u] \notin Inside /\ Mtx # u
    BY <1>3, OnlyOneInside DEF Trim, Inside
  <2>2. /\ Messages \in Seq(Threads) /\ logFile \in Seq(Line)
        /\ SameLines(Messages, logFile) /\ Len(Messages) <= Num_Msgs
    BY <1>3 DEF Trim, EventInv, EventTypeOK, Progress, LogDepth, Line
  <2>3. /\ Messages' = Trimmed(Messages) /\ logFile' = logFile /\ Mtx' = Mtx
        /\ at' = [at EXCEPT ![t] = "push"]
    BY <1>3 DEF Trim
  <2>4. /\ Messages' \in Seq(Threads) /\ Len(Messages') < Num_Msgs
        /\ SameLines(Messages', Trimmed(logFile'))
    BY <2>2, <2>3, TrimmedTyped, TrimBoth
  <2>5. EventTypeOK' /\ at'[t] = "push"
    BY <2>3, <2>4 DEF EventInv, EventTypeOK
  <2>6. \A u \in Threads \ {t} : at'[u] = at[u]
    BY <2>3 DEF EventInv, EventTypeOK
  <2>7. Progress(t)'
    BY <2>4, <2>5 DEF Progress
  <2>8. LogDepth' /\ LogFileAgrees'
    BY <2>1, <2>3, <2>4, <2>5 DEF LogDepth, LogFileAgrees, EventTypeOK
  <2>9. QED
    BY <2>1, <2>3, <2>5, <2>6, <2>7, <2>8 DEF EventInv, Inside, Progress
<1>4. ASSUME NEW t \in Threads, Push(t)
      PROVE  EventInv'
  <2>1. Mtx = t /\ \A u \in Threads \ {t} : at[u] \notin Inside /\ Mtx # u
    BY <1>4, OnlyOneInside DEF Push, Inside
  <2>2. /\ Messages \in Seq(Threads) /\ logFile \in Seq(Line)
        /\ SameLines(Messages, Trimmed(logFile)) /\ Len(Messages) < Num_Msgs
    BY <1>4 DEF Push, EventInv, EventTypeOK, Progress, Line
  <2>3. /\ Messages' = Append(Messages, t) /\ logFile' = logFile /\ Mtx' = Mtx
        /\ at' = [at EXCEPT ![t] = "write"]
    BY <1>4 DEF Push
  <2>4. Trimmed(logFile) \in Seq(Line)
    BY <2>2, TrimmedTyped
  <2>5. SameLines(Messages', Append(Trimmed(logFile'), t))
    BY <2>2, <2>3, <2>4, AppendBoth
  <2>6. Messages' \in Seq(Threads) /\ Len(Messages') <= Num_Msgs
    BY <2>2, <2>3
  <2>7. EventTypeOK' /\ at'[t] = "write"
    BY <2>3, <2>6 DEF EventInv, EventTypeOK
  <2>8. \A u \in Threads \ {t} : at'[u] = at[u]
    BY <2>3 DEF EventInv, EventTypeOK
  <2>9. Progress(t)'
    BY <2>5, <2>7 DEF Progress
  <2>10. LogDepth' /\ LogFileAgrees'
    BY <2>1, <2>3, <2>6 DEF LogDepth, LogFileAgrees
  <2>11. QED
    BY <2>1, <2>3, <2>7, <2>8, <2>9, <2>10 DEF EventInv, Inside, Progress
<1>5. ASSUME NEW t \in Threads, Write(t)
      PROVE  EventInv'
  <2>1. Mtx = t /\ \A u \in Threads \ {t} : at[u] \notin Inside /\ Mtx # u
    BY <1>5, OnlyOneInside DEF Write, Inside
  <2>2. PICK line \in {t, Lost} : logFile' = Append(Trimmed(logFile), line)
    BY <1>5 DEF Write
  <2>3. /\ Messages \in Seq(Threads) /\ logFile \in Seq(Line) /\ Len(Messages) <= Num_Msgs
        /\ SameLines(Messages, Append(Trimmed(logFile), t))
    BY <1>5 DEF Write, EventInv, EventTypeOK, Progress, LogDepth, Line
  <2>4. /\ Messages' = Messages /\ Mtx' = Mtx
        /\ at' = [at EXCEPT ![t] = "unlock"]
    BY <1>5 DEF Write
  <2>5. Trimmed(logFile) \in Seq(Line)
    BY <2>3, TrimmedTyped
  <2>6. SameLines(Messages', logFile') /\ logFile' \in Seq(Line)
    <3>1. \A i \in 1 .. Len(Trimmed(logFile)) + 1 :
             /\ Append(Trimmed(logFile), t)[i]
                  = IF i = Len(Trimmed(logFile)) + 1 THEN t ELSE Trimmed(logFile)[i]
             /\ Append(Trimmed(logFile), line)[i]
                  = IF i = Len(Trimmed(logFile)) + 1 THEN line ELSE Trimmed(logFile)[i]
      BY <2>5 DEF Line
    <3>2. /\ Len(Append(Trimmed(logFile), t)) = Len(Trimmed(logFile)) + 1
          /\ Len(Append(Trimmed(logFile), line)) = Len(Trimmed(logFile)) + 1
      BY <2>5 DEF Line
    <3>3. t # Lost
      OBVIOUS
    <3>4. QED
      BY <2>2, <2>3, <2>4, <2>5, <3>1, <3>2, <3>3 DEF SameLines, Line
  <2>7. EventTypeOK' /\ at'[t] = "unlock"
    BY <2>4, <2>6 DEF EventInv, EventTypeOK, Line
  <2>8. \A u \in Threads \ {t} : at'[u] = at[u]
    BY <2>4 DEF EventInv, EventTypeOK
  <2>9. Progress(t)'
    BY <2>6, <2>7 DEF Progress
  <2>10. LogDepth' /\ LogFileAgrees'
    BY <2>3, <2>4, <2>6 DEF LogDepth, LogFileAgrees
  <2>11. QED
    BY <2>1, <2>4, <2>7, <2>8, <2>9, <2>10 DEF EventInv, Inside, Progress
<1>6. ASSUME NEW t \in Threads, Unlock(t)
      PROVE  EventInv'
  <2>1. Mtx = t /\ \A u \in Threads \ {t} : at[u] \notin Inside /\ Mtx # u
    BY <1>6, OnlyOneInside DEF Unlock, Inside
  <2>2. SameLines(Messages, logFile) /\ LogDepth
    BY <1>6 DEF Unlock, EventInv, Progress
  <2>3. QED
    BY <1>6, <2>1, <2>2
    DEF Unlock, EventInv, EventTypeOK, Inside, Progress, LogFileAgrees, LogDepth
<1>7. CASE UNCHANGED eventVars
  BY <1>7 DEF eventVars, EventInv, EventTypeOK, Progress, LogFileAgrees, LogDepth, SameLines, Trimmed
<1>8. QED
  BY <1>1, <1>2, <1>3, <1>4, <1>5, <1>6, <1>7 DEF EventNext, LogStep

-----------------------------------------------------------------------------
(* The log on its own, and in the process.                                 *)

LEMMA EventInvariant == EventSpec => []EventInv
  BY EventInitInv, EventStep, PTL DEF EventSpec

\* However many threads log, and whatever the depth is, the log never holds
\* more lines than its depth.
THEOREM LogKeepsDepth == EventSpec => []LogDepth
<1>1. EventInv => LogDepth
  BY DEF EventInv
<1>2. QED
  BY <1>1, EventInvariant, PTL

\* Whenever nobody is in Log(), file and memory tell the same story.
THEOREM LogTellsFile == EventSpec => []LogFileAgrees
<1>1. EventInv => LogFileAgrees
  BY DEF EventInv
<1>2. QED
  BY <1>1, EventInvariant, PTL

LEMMA ProcessInitLog == ProcessInit => EventInit
  BY DEF ProcessInit

LEMMA ProcessStepLog == [ProcessNext]_allVars => [EventNext]_eventVars
<1> SUFFICES ASSUME [ProcessNext]_allVars
             PROVE  EventNext \/ UNCHANGED eventVars
  OBVIOUS
<1> USE ProcessAssumption
<1>1. CASE Main
  BY <1>1 DEF Main, MainRound, MainRoundEnds, MainLogs, MainCalls, MainCalled, EventNext
<1>2. ASSUME NEW t \in Threads, Logging(t)
      PROVE  EventNext
  BY <1>2 DEF Logging, EventNext
<1>3. CASE VideoRuns
  BY <1>3 DEF VideoRuns, EventNext
<1>4. CASE Signal
  BY <1>4 DEF Signal
<1>5. CASE Ending
  <2>1. ASSUME NEW t \in Threads, System_Shutdown(t)
        PROVE  EventNext
    BY <2>1 DEF System_Shutdown, EventNext
  <2>2. CASE HandlerExits
    BY <2>1, <2>2 DEF HandlerExits, ExitAgain
  <2>3. CASE HandlerEnds
    BY <2>3 DEF HandlerEnds, ProcessEnds
  <2>4. CASE VideoExits
    BY <2>1, <2>4 DEF VideoExits, ExitAgain
  <2>5. CASE VideoExitEnds
    BY <2>5 DEF VideoExitEnds, ProcessEnds
  <2>6. CASE MainReturns
    BY <2>6 DEF MainReturns, ExitAgain
  <2>7. QED
    BY <1>5, <2>2, <2>3, <2>4, <2>5, <2>6 DEF Ending
<1>6. CASE UseAfterDelete
  BY <1>6 DEF UseAfterDelete, ProcessEnds
<1>7. CASE World
  BY <1>7 DEF World
<1>8. CASE UNCHANGED allVars
  BY <1>8 DEF allVars
<1>9. QED
  BY <1>1, <1>2, <1>3, <1>4, <1>5, <1>6, <1>7, <1>8 DEF ProcessNext

\* The threads of the process, its signal handler and exit() among them, use
\* the log only in the way the module EventMsg says.
THEOREM ProcessUsesLog == ProcessSpec => EventSpec
  BY ProcessInitLog, ProcessStepLog, PTL DEF ProcessSpec, EventSpec

\* So the log of the program keeps its depth and agrees with its file, to the
\* end of the process.
THEOREM ProcessLogSafe == ProcessSpec => [](LogDepth /\ LogFileAgrees)
  BY ProcessUsesLog, LogKeepsDepth, LogTellsFile, PTL
-----------------------------------------------------------------------------
(* The video thread.                                                       *)

\* The inductive invariant of the thread.  NameWhileRecording is not inductive:
\* accept() may fail, and then the descriptor is that of nobody while the name
\* stays what it was.  So no name may be left over when accept() is called,
\* and in between the two are set and cleared together, but for "clear".
VideoInv ==
    /\ VideoTypeOK
    /\ vpc \in {"start", "check", "accept", "clear"} => client_fp = NoViewer
    /\ vpc # "clear" => Client_Name = client_fp

\* Recording, when it is FALSE, agrees with a place where nothing is recorded.
LEMMA NotRecording ==
    ASSUME NEW b, b = FALSE, NEW place, NEW places, place \notin places
    PROVE  b = (place \in places)
<1>1. (place \in places) = FALSE
  BY SMT
<1> QED
  BY <1>1, Zenon

-----------------------------------------------------------------------------
(* The steps of the thread and of the viewers.                             *)

LEMMA ViewersKeepVideoInv ==
    ASSUME VideoInv, ViewerNext
    PROVE  VideoInv'
<1> DEFINE States == {"none", "open", "stalled", "fin", "pipe", "reset", "done"}
<1>1. ASSUME NEW v \in Viewers, NEW before, NEW after \in States,
             Viewer(v, before, after)
      PROVE  VideoInv'
  <2>1. waiting' \in Seq(Viewers)
    BY <1>1 DEF Viewer, VideoInv, VideoTypeOK
  <2>2. watching' \in [Viewers -> States]
    BY <1>1 DEF Viewer, VideoInv, VideoTypeOK
  <2> QED
    BY <1>1, <2>1, <2>2 DEF Viewer, VideoInv, VideoTypeOK, streamVars
<1> QED
  BY <1>1 DEF ViewerNext, ViewerConnects, ViewerStalls, ViewerResumes,
              ViewerCloses, ViewerAborts

\* A step that only goes from one place to another keeps the invariant when
\* neither place is one where the descriptor or the flag matters.
LEMMA OpensKeepsVideoInv ==
    ASSUME VideoInv,
           NEW from \in {"pipe", "popen", "file"},
           NEW to \in {"popen", "file", "record", "exit"},
           Opens(from, to)
    PROVE  VideoInv'
  BY DEF VideoInv, VideoTypeOK, Opens, Go, viewerVars

LEMMA AcceptKeepsVideoInv ==
    ASSUME VideoInv, WaitForClient \/ AcceptFails
    PROVE  VideoInv'
<1>1. CASE WaitForClient
  <2>1. Head(waiting) \in Viewers /\ Tail(waiting) \in Seq(Viewers)
    BY <1>1 DEF WaitForClient, VideoInv, VideoTypeOK
  <2> QED
    BY <1>1, <2>1 DEF WaitForClient, Go, VideoInv, VideoTypeOK
<1>2. CASE AcceptFails
  <2>1. fails' \in 0 .. MaxFails
    BY <1>2, VideoAssumption DEF AcceptFails, VideoInv, VideoTypeOK
  <2> QED
    BY <1>2, <2>1 DEF AcceptFails, Go, viewerVars, VideoInv, VideoTypeOK
<1> QED
  BY <1>1, <1>2

\* Recording is TRUE exactly from StartRecording to StopRecording.
LEMMA RecordingKeepsVideoInv ==
    ASSUME VideoInv, StartRecording \/ StopRecording
    PROVE  VideoInv'
<1>1. CASE StartRecording
  <2>1. Recording' = TRUE /\ vpc' = "stream" /\ vpc = "record"
    BY <1>1 DEF StartRecording, SetRecording, Go
  <2> QED
    BY <1>1, <2>1 DEF StartRecording, SetRecording, viewerVars, VideoInv, VideoTypeOK
<1>2. CASE StopRecording
  <2>1. Recording' = FALSE /\ vpc' = "close" /\ vpc = "stop"
    BY <1>2 DEF StopRecording, SetRecording, Go
  <2>2. ~(vpc' \in {"stream", "ended", "stop"})
    BY <2>1
  <2>3. Recording' = (vpc' \in {"stream", "ended", "stop"})
    BY <2>1, <2>2, NotRecording, Zenon
  <2> QED
    BY <1>2, <2>1, <2>3 DEF StopRecording, SetRecording, viewerVars, VideoInv, VideoTypeOK
<1> QED
  BY <1>1, <1>2

LEMMA ChunkKeepsVideoInv ==
    ASSUME VideoInv, Chunk \/ ChunkFails \/ StreamEnds \/ ChunkKills
    PROVE  VideoInv'
<1>1. CASE Chunk
  <2>1. PICK after \in IF Peer = "fin" THEN {"fin", "pipe"} ELSE {Peer} :
          watching' = [watching EXCEPT ![client_fp] = after]
    BY <1>1 DEF Chunk
  <2>2. after \in {"open", "fin", "pipe"}
    BY <1>1, <2>1 DEF Chunk, WriteOk
  <2>3. watching' \in [Viewers -> {"none", "open", "stalled", "fin", "pipe",
                                   "reset", "done"}]
    BY <2>1, <2>2 DEF VideoInv, VideoTypeOK
  <2> QED
    BY <1>1, <2>3 DEF Chunk, Go, VideoInv, VideoTypeOK
<1>2. CASE ChunkFails \/ StreamEnds
  BY <1>2 DEF ChunkFails, StreamEnds, Go, viewerVars, VideoInv, VideoTypeOK
<1>3. CASE ChunkKills
  BY <1>3 DEF ChunkKills, videoVars, streamVars, viewerVars, VideoInv, VideoTypeOK
<1> QED
  BY <1>1, <1>2, <1>3

\* The name outlives the descriptor by one step, at "clear".
LEMMA CloseKeepsVideoInv ==
    ASSUME VideoInv, CloseAll \/ ClearName
    PROVE  VideoInv'
<1>1. CASE CloseAll
  <2>1. watching' \in [Viewers -> {"none", "open", "stalled", "fin", "pipe",
                                   "reset", "done"}]
    BY <1>1 DEF CloseAll, VideoInv, VideoTypeOK
  <2> QED
    BY <1>1, <2>1 DEF CloseAll, Go, VideoInv, VideoTypeOK
<1>2. CASE ClearName
  BY <1>2 DEF ClearName, Cleared, Go, viewerVars, VideoInv, VideoTypeOK
<1> QED
  BY <1>1, <1>2

LEMMA VideoStepKeepsVideoInv ==
    ASSUME VideoInv, VideoStep
    PROVE  VideoInv'
<1>1. CASE RunVideo \/ CheckRun
  BY <1>1 DEF RunVideo, CheckRun, Go, viewerVars, VideoInv, VideoTypeOK
<1>2. CASE \/ Opens("pipe", "popen") \/ Opens("popen", "exit")
           \/ Opens("file", "exit") \/ Opens("popen", "file")
           \/ Opens("file", "record")
  BY <1>2, OpensKeepsVideoInv
<1> QED
  BY <1>1, <1>2, AcceptKeepsVideoInv, RecordingKeepsVideoInv,
     ChunkKeepsVideoInv, CloseKeepsVideoInv
  DEF VideoStep, LoggedStep, QuietStep

-----------------------------------------------------------------------------
(* The video thread in the life of the process.                            *)

\* The main thread holds a lock of the C library within a round only.
MainInv ==
    /\ mpc \in {"loop", "round", "over"}
    /\ inLibrary \in BOOLEAN
    /\ inLibrary => mpc = "round"

\* In "down" the thread is inside exit() and never goes on.
ProcessInv ==
    /\ vpc # "down" => VideoInv
    /\ vpc = "down" => ~Recording
    /\ EventInv
    /\ MainInv
    /\ hpc \in {"none", "log", "wait"}
    /\ {sig, deleted, RunSystem, up} \subseteq BOOLEAN
    /\ deleted = ~RunSystem

LEMMA RecordingOnly ==
    ASSUME NEW b, NEW place, NEW places, b = (place \in places), place \notin places
    PROVE  b = FALSE
<1>1. (place \in places) = FALSE
  BY SMT
<1> QED
  BY <1>1, Zenon

LEMMA Opposite ==
    ASSUME NEW a, NEW b, a = TRUE, b = FALSE
    PROVE  a = ~b
<1>1. TRUE = ~FALSE
  OBVIOUS
<1> QED
  BY <1>1

LEMMA ProcessInitInv == ProcessInit => ProcessInv
<1> SUFFICES ASSUME ProcessInit PROVE ProcessInv
  OBVIOUS
<1>1. ~(vpc \in {"stream", "ended", "stop"}) /\ Recording = FALSE
  BY DEF ProcessInit, VideoInit
<1>2. Recording = (vpc \in {"stream", "ended", "stop"})
  BY <1>1, NotRecording, Zenon
<1>3. VideoInv
  BY <1>2, VideoAssumption DEF ProcessInit, VideoInit, VideoTypeOK, VideoInv
<1> QED
  BY <1>3, EventInitInv DEF ProcessInit, VideoInit, ProcessInv, MainInv

\* The thread runs, and its viewers act, without touching the flag RunSystem.
LEMMA VideoKeepsRunSystem ==
    ASSUME VideoStep \/ ViewerNext
    PROVE  RunSystem' = RunSystem
  BY DEF VideoStep, LoggedStep, QuietStep, RunVideo, CheckRun, WaitForClient,
     AcceptFails, Opens, StartRecording, StopRecording, SetRecording, Chunk,
     ChunkFails, ChunkKills, StreamEnds, CloseAll, ClearName,
     ViewerNext, ViewerConnects, ViewerStalls, ViewerResumes, ViewerCloses,
     ViewerAborts, Viewer

\* Where the thread is, is left by the steps of the thread only, and none of
\* them leaves or reaches "down".
LEMMA DownStays ==
    /\ VideoStep => vpc # "down" /\ vpc' # "down"
    /\ ViewerNext => vpc' = vpc /\ Recording' = Recording /\ up' = up
  BY DEF VideoStep, LoggedStep, QuietStep, RunVideo, CheckRun, WaitForClient,
     AcceptFails, Opens, StartRecording, StopRecording, SetRecording, Chunk,
     ChunkFails, ChunkKills, StreamEnds, CloseAll, ClearName, Go,
     ViewerNext, ViewerConnects, ViewerStalls, ViewerResumes, ViewerCloses,
     ViewerAborts, Viewer, streamVars, videoVars

\* The end of exit(), or of the process, leaves the thread as it was.
LEMMA StaysVideoInv ==
    ASSUME VideoInv, UNCHANGED videoVars, {RunSystem', up'} \subseteq BOOLEAN
    PROVE  VideoInv'
  BY DEF videoVars, streamVars, viewerVars, VideoInv, VideoTypeOK

LEMMA ProcessStepInv == ProcessInv /\ [ProcessNext]_allVars => ProcessInv'
<1> SUFFICES ASSUME ProcessInv, [ProcessNext]_allVars PROVE ProcessInv'
  OBVIOUS
<1>1. EventInv'
  BY ProcessStepLog, EventStep DEF ProcessInv
<1>2. /\ vpc # "down" => VideoInv
      /\ vpc = "down" => ~Recording
      /\ MainInv /\ hpc \in {"none", "log", "wait"}
      /\ {sig, deleted, RunSystem, up} \subseteq BOOLEAN
      /\ UNCHANGED mainVars => MainInv'
  BY DEF ProcessInv, MainInv, mainVars
<1>3. \/ deleted' = deleted /\ RunSystem' = RunSystem
      \/ deleted' = TRUE /\ RunSystem' = FALSE
      => deleted' = ~RunSystem'
  <2>1. deleted = ~RunSystem
    BY DEF ProcessInv
  <2>2. ASSUME deleted' = deleted, RunSystem' = RunSystem PROVE deleted' = ~RunSystem'
    BY <2>1, <2>2, Zenon
  <2>3. ASSUME deleted' = TRUE, RunSystem' = FALSE PROVE deleted' = ~RunSystem'
    BY <2>3, Opposite, Zenon
  <2> QED
    BY <2>2, <2>3
<1>4. CASE VideoRuns
  <2>1. VideoStep /\ UNCHANGED << mainVars, hpc, sig, deleted >>
    BY <1>4 DEF VideoRuns, VideoStep
  <2>2. vpc # "down" /\ vpc' # "down" /\ RunSystem' = RunSystem
    BY <2>1, DownStays, VideoKeepsRunSystem
  <2>3. VideoInv'
    BY <1>2, <2>1, <2>2, VideoStepKeepsVideoInv
  <2>4. up' \in BOOLEAN
    BY <2>3 DEF VideoInv, VideoTypeOK
  <2> QED
    BY <1>1, <1>2, <1>3, <2>1, <2>2, <2>3, <2>4 DEF ProcessInv
<1>5. CASE World
  <2>1. ViewerNext /\ UNCHANGED << mainVars, hpc, sig, deleted >>
    BY <1>5 DEF World
  <2>2. vpc' = vpc /\ Recording' = Recording /\ up' = up /\ RunSystem' = RunSystem
    BY <2>1, DownStays, VideoKeepsRunSystem
  <2>3. vpc # "down" => VideoInv'
    BY <1>2, <2>1, ViewersKeepVideoInv
  <2> QED
    BY <1>1, <1>2, <1>3, <2>1, <2>2, <2>3 DEF ProcessInv
<1>6. CASE VideoExits
  <2>1. vpc = "exit" /\ VideoInv
    BY <1>2, <1>6 DEF VideoExits
  <2>2. Recording = FALSE
    <3>1. Recording = (vpc \in {"stream", "ended", "stop"})
      BY <2>1 DEF VideoInv, VideoTypeOK
    <3>2. vpc \notin {"stream", "ended", "stop"}
      BY <2>1
    <3> QED
      BY <3>1, <3>2, RecordingOnly, Zenon
  <2>3. UNCHANGED << client_fp, Client_Name, Recording, fails, watching, waiting, mainVars, hpc, sig >>
    BY <1>6 DEF VideoExits, viewerVars
  <2>4. CASE System_Shutdown("video") /\ vpc' = "down"
    BY <1>1, <1>2, <1>3, <2>2, <2>3, <2>4 DEF System_Shutdown, ProcessInv
  <2>5. CASE ExitAgain /\ vpc' = "gone"
    <3>1. Recording' = FALSE /\ vpc' = "gone"
      BY <2>2, <2>3, <2>5
    <3>2. ~(vpc' \in {"stream", "ended", "stop"})
      BY <3>1
    <3>3. Recording' = (vpc' \in {"stream", "ended", "stop"})
      BY <3>1, <3>2, NotRecording, Zenon
    <3>4. VideoInv'
      BY <2>1, <2>3, <2>5, <3>3 DEF ExitAgain, VideoInv, VideoTypeOK
    <3> QED
      BY <1>1, <1>2, <1>3, <2>3, <2>5, <3>4 DEF ExitAgain, ProcessInv
  <2> QED
    BY <1>6, <2>4, <2>5 DEF VideoExits
<1>7. CASE \/ Main \/ Signal \/ HandlerExits \/ HandlerEnds \/ VideoExitEnds
           \/ MainReturns \/ UseAfterDelete \/ UNCHANGED allVars
           \/ \E t \in Threads : Logging(t)
  <2>1. /\ UNCHANGED videoVars
        /\ up' \in BOOLEAN /\ sig' \in BOOLEAN
        /\ MainInv' /\ hpc' \in {"none", "log", "wait"}
        /\ \/ deleted' = deleted /\ RunSystem' = RunSystem
           \/ deleted' = TRUE /\ RunSystem' = FALSE
    <3>1. CASE HandlerExits
      BY <1>2, <3>1 DEF HandlerExits, System_Shutdown, ExitAgain
    <3>2. CASE MainReturns
      BY <1>2, <3>2 DEF MainReturns, MainGoes, MainInv, ExitAgain
    <3>3. CASE HandlerEnds \/ VideoExitEnds \/ UseAfterDelete
      BY <1>2, <3>3 DEF HandlerEnds, VideoExitEnds, UseAfterDelete, ProcessEnds
    <3>4. CASE Main
      <4>1. MainInv'
        <5>1. CASE MainRound \/ MainRoundEnds
          BY <1>2, <5>1 DEF MainRound, MainRoundEnds, MainGoes, MainInv
        <5>2. CASE MainLogs
          BY <1>2, <5>2 DEF MainLogs, lifeVars
        <5>3. CASE MainCalls
          BY <1>2, <5>3 DEF MainCalls, MainInv
        <5>4. CASE MainCalled
          BY <1>2, <5>4 DEF MainCalled, MainInv
        <5> QED
          BY <3>4, <5>1, <5>2, <5>3, <5>4 DEF Main
      <4> QED
        BY <1>2, <3>4, <4>1
        DEF Main, MainRound, MainRoundEnds, MainLogs, MainCalls, MainCalled, lifeVars
    <3>6. CASE \E t \in Threads : Logging(t)
      BY <1>2, <3>6 DEF Logging, lifeVars
    <3>5. CASE Signal \/ UNCHANGED allVars
      BY <1>2, <3>5 DEF Signal, allVars, lifeVars
    <3> QED
      BY <1>7, <3>1, <3>2, <3>3, <3>4, <3>5, <3>6
  <2>2. vpc' = vpc /\ Recording' = Recording
    BY <2>1 DEF videoVars, streamVars
  <2>3. deleted' \in BOOLEAN /\ RunSystem' \in BOOLEAN
    BY <1>2, <2>1
  <2>4. vpc # "down" => VideoInv'
    BY <1>2, <2>1, <2>3, StaysVideoInv
  <2> QED
    BY <1>1, <1>2, <1>3, <2>1, <2>2, <2>3, <2>4 DEF ProcessInv
<1> QED
  BY <1>4, <1>5, <1>6, <1>7 DEF ProcessNext, Ending

\* Every variable of the process keeps its type until the end, and the objects
\* are deleted exactly when the loops have been told to stop, whichever thread
\* calls exit() and however often (main.cpp:80-115).
THEOREM ProcessTypeCorrect == ProcessSpec => []ProcessTypeOK
<1>1. ProcessInv => ProcessTypeOK
  BY DEF ProcessInv, ProcessTypeOK, MainInv, VideoInv, EventInv
<1> QED
  BY <1>1, ProcessInitInv, ProcessStepInv, PTL DEF ProcessSpec

\* Also in the process, with signals, exit() and deleted objects, the name the
\* camera manager could read during a recording is that of its viewer.
THEOREM NameIsViewerToTheEnd == ProcessSpec => []NameWhileRecording
<1>1. ProcessInv => NameWhileRecording
  <2> SUFFICES ASSUME ProcessInv, Recording PROVE Client_Name = client_fp
    BY DEF NameWhileRecording
  <2>1. VideoInv
    BY DEF ProcessInv
  <2>2. vpc # "clear"
    BY <2>1 DEF VideoInv, VideoTypeOK
  <2> QED
    BY <2>1, <2>2 DEF VideoInv
<1> QED
  BY <1>1, ProcessInitInv, ProcessStepInv, PTL DEF ProcessSpec

-----------------------------------------------------------------------------
(* The composition with the camera manager and the network side.           *)

Queues == DOMAIN que = Modules /\ \A m \in Modules : IsQueue(que[m], m, Lines)

StreamingInv ==
    /\ VideoInv
    /\ Queues
    /\ {perm, joined} \subseteq BOOLEAN
    /\ cpc \in {"idle", "send"}

LEMMA StreamingInvImplies == StreamingInv => StreamingTypeOK /\ NameWhileRecording
<1> SUFFICES ASSUME StreamingInv PROVE StreamingTypeOK /\ NameWhileRecording
  OBVIOUS
<1>1. StreamingTypeOK
  BY DEF StreamingInv, StreamingTypeOK, VideoInv, Queues
<1>2. ASSUME Recording PROVE Client_Name = client_fp
  <2>1. vpc # "clear"
    BY <1>2 DEF StreamingInv, VideoInv, VideoTypeOK
  <2> QED
    BY <2>1 DEF StreamingInv, VideoInv
<1> QED
  BY <1>1, <1>2 DEF NameWhileRecording

LEMMA StreamingInitInv == StreamingInit => StreamingInv
<1> SUFFICES ASSUME StreamingInit PROVE StreamingInv
  OBVIOUS
<1>1. VideoInv
  <2>1. RunSystem = TRUE /\ up = TRUE
    BY DEF StreamingInit, Service!MailInit
  <2>2. VideoInit
    BY DEF StreamingInit
  <2>3. ~(vpc \in {"stream", "ended", "stop"}) /\ Recording = FALSE
    BY <2>2 DEF VideoInit
  <2>4. Recording = (vpc \in {"stream", "ended", "stop"})
    BY <2>3, NotRecording, Zenon
  <2>5. VideoTypeOK
    BY <2>1, <2>2, <2>4, VideoAssumption DEF VideoInit, VideoTypeOK
  <2> QED
    BY <2>2, <2>5 DEF VideoInit, VideoInv
<1>2. Queues
  <2>1. que = [m \in Modules |-> NewQueue(m)]
    BY DEF StreamingInit, Service!MailInit, Service!NewQueue, NewQueue
  <2>2. \A m \in Modules : IsQueue(NewQueue(m), m, Lines)
    BY DEF NewQueue, IsQueue, QueueFields
  <2> QED
    BY <2>1, <2>2 DEF Queues
<1> QED
  BY <1>1, <1>2 DEF StreamingInit, Service!MailInit, StreamingInv

\* What the network side and the camera manager do to a queue leaves a queue.
LEMMA QueueStaysQueue ==
    ASSUME NEW q, NEW m, NEW data, IsQueue(q, m, Lines)
    PROVE  /\ IsQueue(SetBroadcast(q), m, Lines)
           /\ IsQueue(GetAllMsgs(q), m, Lines)
           /\ IsQueue(IsBroadcastDone(q), m, Lines)
           /\ IsQueue(Send(q, "StreamInfo", data), m, Lines)
  BY DEF IsQueue, QueueFields, SetBroadcast, GetAllMsgs, IsBroadcastDone, Send

LEMMA UsersKeepQueues ==
    ASSUME Queues, Users \/ Collects
    PROVE  Queues'
<1>1. CASE que' = Service!Flagged
  BY <1>1, QueueStaysQueue DEF Queues, Service!Flagged, Service!SetBroadcast, SetBroadcast
<1>2. CASE que' = [m \in Modules |-> GetAllMsgs(que[m])]
  BY <1>2, QueueStaysQueue DEF Queues
<1>3. CASE que' = que
  BY <1>3 DEF Queues
<1> QED
  BY <1>1, <1>2, <1>3 DEF Users, Collects, Service!Join, Service!Announce,
     Service!Leave, Service!Collect, Service!HandOver, Service!GetAllMsgs, GetAllMsgs

LEMMA CameraKeepsQueues ==
    ASSUME Queues, CameraTask
    PROVE  Queues'
<1> DEFINE c == que["Camera"]
<1>1. CASE que' = [que EXCEPT !["Camera"] = IsBroadcastDone(c)]
  BY <1>1, QueueStaysQueue DEF Queues
<1>2. CASE que' = [que EXCEPT !["Camera"] = Send(c, "StreamInfo", Client_Name)]
  BY <1>2, QueueStaysQueue DEF Queues
<1>3. CASE que' = que
  BY <1>3 DEF Queues
<1>4. Camera!IsBroadcastDone(c) = IsBroadcastDone(c)
  BY DEF Camera!IsBroadcastDone, IsBroadcastDone
<1>5. Camera!Send(c, "StreamInfo", Client_Name) = Send(c, "StreamInfo", Client_Name)
  BY DEF Camera!Send, Send, Camera!Report, Report
<1> HIDE DEF c
<1> QED
  BY <1>1, <1>2, <1>3, <1>4, <1>5 DEF CameraTask, Camera!Run_Task, Camera!SendData, c

LEMMA StreamingStepInv == StreamingInv /\ [StreamingNext]_streamingVars => StreamingInv'
<1> SUFFICES ASSUME StreamingInv, [StreamingNext]_streamingVars PROVE StreamingInv'
  OBVIOUS
<1> USE DEF StreamingInv
<1>1. CASE VideoThread
  BY <1>1, VideoStepKeepsVideoInv DEF VideoThread, userVars, Queues
<1>2. CASE VideoGone
  BY <1>2 DEF VideoGone, userVars, videoVars, streamVars, viewerVars,
              Queues, VideoInv, VideoTypeOK
<1>3. CASE CameraTask
  <2>1. VideoInv'
    BY <1>3 DEF CameraTask, videoVars, streamVars, viewerVars, VideoInv, VideoTypeOK
  <2>2. Queues'
    BY <1>3, CameraKeepsQueues
  <2> QED
    BY <1>3, <2>1, <2>2 DEF CameraTask, Camera!Run_Task, Camera!SendData
<1>4. CASE Users \/ Collects
  <2>1. VideoInv'
    BY <1>4 DEF Users, Collects, Service!Join, Service!Announce, Service!Leave,
       Service!Collect, Service!HandOver, videoVars, streamVars, viewerVars, VideoInv, VideoTypeOK
  <2>2. Queues'
    BY <1>4, UsersKeepQueues
  <2> QED
    BY <1>4, <2>1, <2>2 DEF Users, Collects, Service!Join, Service!Announce,
       Service!Leave, Service!Collect, Service!HandOver
<1>5. CASE Viewing
  BY <1>5, ViewersKeepVideoInv DEF Viewing, userVars, Queues
<1>6. CASE UNCHANGED streamingVars
  BY <1>6 DEF streamingVars, userVars, videoVars, streamVars, viewerVars, Queues,
              VideoInv, VideoTypeOK
<1> QED
  BY <1>1, <1>2, <1>3, <1>4, <1>5, <1>6 DEF StreamingNext

-----------------------------------------------------------------------------
(* The results.                                                            *)

\* Every variable of the video thread, the camera manager and the network side
\* keeps its type, whatever the viewers do (VideoStream.cpp, CameraManager.cpp).
THEOREM StreamingTypeCorrect == StreamingSpec => []StreamingTypeOK
<1>1. StreamingInv => StreamingTypeOK
  BY StreamingInvImplies
<1> QED
  BY <1>1, StreamingInitInv, StreamingStepInv, PTL DEF StreamingSpec

\* While a stream is recorded the name that is reported is that of the viewer
\* the stream is sent to, for any viewers and any failures of accept()
\* (VideoStream.cpp:111-113, 190-192).
THEOREM NameIsViewer == StreamingSpec => []NameWhileRecording
<1>1. StreamingInv => NameWhileRecording
  BY StreamingInvImplies
<1> QED
  BY <1>1, StreamingInitInv, StreamingStepInv, PTL DEF StreamingSpec
=============================================================================
