------------------------------ MODULE Process ------------------------------
(***************************************************************************)
(* The life of the process (src/src/main.cpp): the main thread goes round  *)
(* its loop, the video thread serves viewers, both log, and the program    *)
(* ends by a signal, by exit() of the video thread, or by SIGPIPE.         *)
(*                                                                         *)
(* SIGTERM is delivered on the main thread.  Its handler is exit(), which  *)
(* runs System_Shutdown() on top of whatever the main thread was doing:    *)
(* that never goes on, so the handler counts as a thread of its own, as    *)
(* far as the log is concerned.  What it was doing may have been a call of *)
(* the C library that holds one of the library's own locks: delete,        *)
(* localtime() and fopen() of the others then wait for ever.               *)
(***************************************************************************)
EXTENDS VideoStreamer, EventMsg

CONSTANT LibraryLocks   \* do calls of the C library wait for each other?

ASSUME ProcessAssumption ==
    /\ Threads = {"main", "video", "handler"}
    /\ LibraryLocks \in BOOLEAN

VARIABLES
    mpc,            \* main thread: head of its "loop", in a "round", or "over"
    inLibrary,      \* external: the main thread holds a lock of the C library
    hpc,            \* handler: "none", "log" in System_Shutdown(), "wait"
    sig,            \* a signal has been sent to stop the program
    deleted         \* System_Shutdown() has deleted the objects

mainVars == << mpc, inLibrary >>
lifeVars == << mainVars, hpc, sig, deleted, RunSystem, up >>
allVars  == << videoVars, eventVars, lifeVars >>

ProcessTypeOK ==
    /\ vpc = "down" \/ VideoTypeOK
    /\ EventTypeOK
    /\ mpc \in {"loop", "round", "over"}
    /\ inLibrary \in BOOLEAN
    /\ inLibrary => mpc = "round"
    /\ hpc \in {"none", "log", "wait"}
    /\ {sig, deleted} \subseteq BOOLEAN
    /\ deleted = ~RunSystem

ProcessInit ==
    /\ VideoInit
    /\ EventInit
    /\ RunSystem = TRUE
    /\ up = TRUE
    /\ mpc = "round"
    /\ inLibrary = FALSE
    /\ hpc = "none"
    /\ sig = FALSE
    /\ deleted = FALSE

-----------------------------------------------------------------------------
(* The two threads.                                                        *)

Runs(t) == up /\ at[t] = "out"

\* The main thread goes on: no signal has interrupted it, for good.
MainGoes == up /\ ~sig /\ ~inLibrary

\* RunSystem is looked at here only.  (The first round is the start.)
MainRound ==
    /\ MainGoes /\ mpc = "loop" /\ RunSystem
    /\ mpc' = "round"
    /\ UNCHANGED << videoVars, eventVars, inLibrary, hpc, sig, deleted, RunSystem, up >>

MainRoundEnds ==
    /\ MainGoes /\ mpc = "round" /\ at["main"] = "out"
    /\ mpc' = "loop"
    /\ UNCHANGED << videoVars, eventVars, inLibrary, hpc, sig, deleted, RunSystem, up >>

\* Any round may log; here nothing else of it matters, ...
MainLogs ==
    /\ MainGoes /\ mpc = "round"
    /\ Call("main")
    /\ UNCHANGED << videoVars, lifeVars >>

\* ... but that at any place, in Log() or not, it may be inside a call of the
\* C library and hold a lock: of the allocator, the time zone, the open files.
MainCalls ==
    /\ LibraryLocks
    /\ MainGoes /\ mpc = "round"
    /\ inLibrary' = TRUE
    /\ UNCHANGED << videoVars, eventVars, mpc, hpc, sig, deleted, RunSystem, up >>

MainCalled ==
    /\ up /\ ~sig /\ inLibrary
    /\ inLibrary' = FALSE
    /\ UNCHANGED << videoVars, eventVars, mpc, hpc, sig, deleted, RunSystem, up >>

\* A call of the C library by anyone else returns.  (Which lock it is is left
\* open, so that it may wait here where it would not have to: it then waits no
\* longer than for the call of the main thread.)
LibraryFree == ~inLibrary

\* A call of Log() gets on.  Before the mutex there is localtime(), and under
\* it are the allocator and fopen(); the last step is the unlock alone.
Logging(t) ==
    /\ up
    /\ IF t = "main" THEN MainGoes ELSE LibraryFree \/ at[t] = "unlock"
    /\ LogStep(t)
    /\ UNCHANGED << videoVars, lifeVars >>

VideoRuns ==
    /\ Runs("video")
    /\ \/ LoggedStep /\ Call("video")
       \/ QuietStep /\ UNCHANGED eventVars
    /\ UNCHANGED << mainVars, hpc, sig, deleted >>

-----------------------------------------------------------------------------
(* The end.                                                                *)

\* exit() has been called for the first time: System_Shutdown() stops the
\* loops and deletes the objects, for which it needs the allocator, and then
\* logs.
System_Shutdown(t) ==
    /\ RunSystem
    /\ LibraryFree
    /\ RunSystem' = FALSE
    /\ deleted' = TRUE
    /\ Call(t)
    /\ UNCHANGED up

\* exit() called while it runs already is undefined: the process ends, or the
\* second call waits for the first.
ExitAgain ==
    /\ ~RunSystem
    /\ up' \in BOOLEAN
    /\ UNCHANGED << RunSystem, deleted, eventVars >>

ProcessEnds ==
    /\ up' = FALSE
    /\ UNCHANGED << videoVars, eventVars, mainVars, hpc, sig, deleted, RunSystem >>

Signal ==
    /\ up /\ ~sig
    /\ sig' = TRUE
    /\ UNCHANGED << videoVars, eventVars, mainVars, hpc, deleted, RunSystem, up >>

HandlerExits ==
    /\ up /\ sig /\ hpc = "none"
    /\ \/ System_Shutdown("handler") /\ hpc' = "log"
       \/ ExitAgain /\ hpc' = "wait"
    /\ UNCHANGED << videoVars, mainVars, sig >>

HandlerEnds ==
    /\ Runs("handler") /\ hpc = "log"
    /\ LibraryFree
    /\ ProcessEnds

VideoExits ==
    /\ Runs("video") /\ vpc = "exit"
    /\ \/ System_Shutdown("video") /\ vpc' = "down"
       \/ ExitAgain /\ vpc' = "gone"
    /\ UNCHANGED << client_fp, Client_Name, Recording, fails, viewerVars, mainVars, hpc, sig >>

\* exit() closes the files at its end.
VideoExitEnds ==
    /\ Runs("video") /\ vpc = "down"
    /\ LibraryFree
    /\ ProcessEnds

\* The main thread leaves its loop only after exit() of the video thread.  Its
\* VideoThread has not been joined, so that main() ends in std::terminate(),
\* whose SIGABRT has exit() as its handler too.
MainReturns ==
    /\ MainGoes /\ mpc = "loop"
    /\ mpc' = "over"
    /\ ExitAgain
    /\ UNCHANGED << videoVars, inLibrary, hpc, sig >>

\* A thread that goes on uses objects that are deleted.
UseAfterDelete ==
    /\ up /\ deleted
    /\ ProcessEnds

Ending ==
    \/ HandlerExits
    \/ HandlerEnds
    \/ VideoExits
    \/ VideoExitEnds
    \/ MainReturns

World ==
    /\ up
    /\ ViewerNext
    /\ UNCHANGED << eventVars, mainVars, hpc, sig, deleted >>

Main == MainRound \/ MainRoundEnds \/ MainLogs \/ MainCalls \/ MainCalled

ProcessNext ==
    \/ Main
    \/ \E t \in Threads : Logging(t)
    \/ VideoRuns
    \/ Signal
    \/ Ending
    \/ UseAfterDelete
    \/ World

\* Threads that can go on do, the handler and exit() among them; nobody has
\* to send a signal, to view or to log.  A call of the C library returns
\* unless it is interrupted for good.  What may wait for a lock is strong: the
\* main thread sleeps in select() in every round of its loop and holds neither
\* Mtx nor a lock of the library then, so that whoever waits gets it in the end.
ProcessFairness ==
    /\ WF_allVars(MainCalled)
    /\ \A t \in Threads : SF_allVars(Logging(t))
    /\ WF_allVars(HandlerExits)
    /\ WF_allVars(HandlerEnds)
    /\ SF_allVars(VideoExits)
    /\ SF_allVars(VideoExitEnds)

ProcessSpec == ProcessInit /\ [][ProcessNext]_allVars /\ ProcessFairness

-----------------------------------------------------------------------------
(* Properties.                                                             *)

\* "Stop daemon" (ROSV_Control.sh:18): a signal stops the program.
Stopped == ~up

StopEnds == sig ~> Stopped

\* What does hold: the program ends once it was told to or the video thread
\* has given up, unless the signal hit the main thread where it held a lock
\* that its handler, or the exit() of the video thread, then waits for: the
\* mutex of Log() (main.cpp:114, EventMessages.cpp:83), or one of the C
\* library (main.cpp:96-112, EventMessages.cpp:76).
StopsUnlessLocked ==
    sig \/ vpc \in {"exit", "down"} ~> Stopped \/ (sig /\ (Mtx = "main" \/ inLibrary))
=============================================================================
