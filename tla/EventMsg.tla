------------------------------ MODULE EventMsg ------------------------------
(***************************************************************************)
(* The log (src/src/EventMessages): one object for the whole program,      *)
(* which keeps the last lines in memory and appends each to a file.  Every *)
(* thread calls Log(); what is between Mtx.lock() and Mtx.unlock() is      *)
(* split into the steps that another thread could see if it were not for   *)
(* the lock.                                                               *)
(*                                                                         *)
(* A line is the thread that logs it.                                      *)
(***************************************************************************)
EXTENDS Integers, Sequences

CONSTANTS
    Threads,        \* the callers
    NoThread,       \* holder of a free mutex
    Lost,           \* what is in the file of a line when fopen() failed
    Num_Msgs        \* lines kept in memory; main() sets 5

ASSUME EventAssumption ==
    /\ NoThread \notin Threads
    /\ Lost \notin Threads
    /\ Num_Msgs \in Nat \ {0}

VARIABLES
    Mtx,            \* the holder of EventMsg::Mtx
    Messages,       \* EventMsg::Messages
    logFile,        \* history: the last lines of the file, Num_Msgs at most
    at              \* where each thread is in Log(); "out" when it is not

eventVars == << Mtx, Messages, logFile, at >>

EventTypeOK ==
    /\ Mtx \in Threads \cup {NoThread}
    /\ Messages \in Seq(Threads)
    /\ logFile \in Seq(Threads \cup {Lost})
    /\ at \in [Threads -> {"out", "lock", "trim", "push", "write", "unlock"}]

EventInit ==
    /\ Mtx = NoThread
    /\ Messages = << >>
    /\ logFile = << >>
    /\ at = [t \in Threads |-> "out"]

\* Room for one more line: the oldest is dropped when the depth is reached.
Trimmed(lines) == IF Len(lines) >= Num_Msgs THEN Tail(lines) ELSE lines

\* Log() is called; the line is put together before the lock is asked for.
Call(t) ==
    /\ at[t] = "out"
    /\ at' = [at EXCEPT ![t] = "lock"]
    /\ UNCHANGED << Mtx, Messages, logFile >>

\* Mutant of CanLock: the mutex is not asked for.
CanLockAlways == TRUE

CanLock == Mtx = NoThread

Lock(t) ==
    /\ at[t] = "lock"
    /\ CanLock
    /\ Mtx' = t
    /\ at' = [at EXCEPT ![t] = "trim"]
    /\ UNCHANGED << Messages, logFile >>

Trim(t) ==
    /\ at[t] = "trim"
    /\ Messages' = Trimmed(Messages)
    /\ at' = [at EXCEPT ![t] = "push"]
    /\ UNCHANGED << Mtx, logFile >>

\* Mutant of Push: the lock is given up before the file is written.
PushUnlocks(t) ==
    /\ at[t] = "push"
    /\ Messages' = Append(Messages, t)
    /\ Mtx' = NoThread
    /\ at' = [at EXCEPT ![t] = "write"]
    /\ UNCHANGED logFile

Push(t) ==
    /\ at[t] = "push"
    /\ Messages' = Append(Messages, t)
    /\ at' = [at EXCEPT ![t] = "write"]
    /\ UNCHANGED << Mtx, logFile >>

Write(t) ==
    /\ at[t] = "write"
    /\ \E line \in {t, Lost} : logFile' = Append(Trimmed(logFile), line)
    /\ at' = [at EXCEPT ![t] = "unlock"]
    /\ UNCHANGED << Mtx, Messages >>

\* Mutant of Unlock: a way out of Log() that forgets the lock.
UnlockForgotten(t) ==
    /\ at[t] = "unlock"
    /\ Mtx' \in {NoThread, Mtx}
    /\ at' = [at EXCEPT ![t] = "out"]
    /\ UNCHANGED << Messages, logFile >>

Unlock(t) ==
    /\ at[t] = "unlock"
    /\ Mtx' = NoThread
    /\ at' = [at EXCEPT ![t] = "out"]
    /\ UNCHANGED << Messages, logFile >>

LogStep(t) == Lock(t) \/ Trim(t) \/ Push(t) \/ Write(t) \/ Unlock(t)

EventNext == \E t \in Threads : Call(t) \/ LogStep(t)

EventSpec == EventInit /\ [][EventNext]_eventVars

-----------------------------------------------------------------------------
(* Properties.                                                             *)

\* The log never holds more lines than its depth, however many threads are
\* between the test of the size and the push_back (EventMessages.cpp:87-90).
LogDepth == Len(Messages) <= Num_Msgs

\* The file and the memory tell the same story: between two calls of Log()
\* the last lines of the file are those in memory, in the same order, except
\* for those that could not be written.
SameLines(lines, file) ==
    /\ Len(file) = Len(lines)
    /\ \A i \in 1 .. Len(lines) : file[i] \in {lines[i], Lost}

LogFileAgrees == Mtx = NoThread => SameLines(Messages, logFile)
=============================================================================
