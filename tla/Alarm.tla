------------------------------- MODULE Alarm -------------------------------
(***************************************************************************)
(* Alarms and groups of alarms (src/src/Alarm).  An alarm is owned by the  *)
(* module that measures, which sets its state each time it runs; a group   *)
(* collects alarms of several owners and gives the worst of them to the    *)
(* modules that must react.  All calls are made on the main thread.        *)
(***************************************************************************)
EXTENDS Sequences, Integers, SequencesExt

CONSTANTS
    AlarmList,      \* the alarms of a group, in the order they were added
    Muteable,       \* those constructed with mutable_ = true
    Latching        \* those constructed with latching_ = true

Alarms == Range(AlarmList)

ASSUME AlarmAssumption ==
    /\ AlarmList \in Seq(Alarms)
    /\ Muteable \subseteq Alarms
    /\ Latching \subseteq Alarms

CLEAR   == 0
WARNING == 1
ERROR   == 2
Severity == {CLEAR, WARNING, ERROR}

\* A variable for a severity that is not initialised holds any content of the
\* memory, here a severity or one value that is none.
Garbage == -1
Unset == Severity \cup {Garbage}

VARIABLES
    State,          \* Alarm::State of every alarm
    Muted           \* Alarm::Muted of every alarm

alarmVars == << State, Muted >>

AlarmTypeOK ==
    /\ State \in [Alarms -> Severity]
    /\ Muted \in [Alarms -> BOOLEAN]

AlarmInit ==
    /\ State = [a \in Alarms |-> CLEAR]
    /\ Muted = [a \in Alarms |-> FALSE]

GetState(a) ==
    IF State[a] = WARNING /\ a \in Muteable THEN CLEAR ELSE State[a]

\* Mutant of Accepts: a warning is not held by the latch.
AcceptsFromWarning(a, s) == State[a] # ERROR \/ a \notin Latching

\* Does an alarm take the state s it is set to?
Accepts(a, s) ==
    CASE State[a] = CLEAR   -> TRUE
      [] State[a] = WARNING -> s = ERROR \/ a \notin Latching
      [] State[a] = ERROR   -> a \notin Latching

\* Mutant of Taken: severities add up.
TakenAdds(a, s) == State[a] + s

\* The state an alarm has after it was set to s, and whether it stays muted.
Taken(a, s) == IF Accepts(a, s) THEN s ELSE State[a]
StaysMuted(a, s) == Muted[a] /\ State[a] = s

SetState(a, s) ==
    /\ State' = [State EXCEPT ![a] = Taken(a, s)]
    /\ Muted' = [Muted EXCEPT ![a] = StaysMuted(a, s)]

\* A task that measures sets all its alarms before another task runs.
SetAll(states) ==
    /\ State' = [a \in Alarms |-> Taken(a, states[a])]
    /\ Muted' = [a \in Alarms |-> StaysMuted(a, states[a])]

SetMuted(a) ==
    /\ Muted' = [Muted EXCEPT ![a] = @ \/ (a \in Muteable /\ State[a] # CLEAR)]
    /\ UNCHANGED State

\* Mutant of Escalate: the last alarm of the list decides.
EscalateLast(global, local) == local

\* One round of the loop in AlarmGroup::GetGroupState().
Escalate(global, local) ==
    CASE global = CLEAR   -> local
      [] global = WARNING -> IF local = ERROR THEN ERROR ELSE global
      [] global = ERROR   -> global

\* The severity after i rounds, and after all of them.
StateAfter[i \in 0 .. Len(AlarmList)] ==
    IF i = 0 THEN CLEAR ELSE Escalate(StateAfter[i - 1], GetState(AlarmList[i]))

GetGroupState == StateAfter[Len(AlarmList)]

\* What AlarmGroup::GetJSON() tells of the alarms of the group.
AlarmReport == [a \in Alarms |-> GetState(a)]

AlarmNext ==
    \E a \in Alarms : SetMuted(a) \/ \E s \in Severity : SetState(a, s)

AlarmSpec == AlarmInit /\ [][AlarmNext]_alarmVars

-----------------------------------------------------------------------------
(* Properties.                                                             *)

\* The group reports the highest severity found (Alarm.h:79), whatever the
\* order of its members: the loop's partial comparison is a maximum.
GroupIsHighest ==
    /\ \A a \in Alarms : GetState(a) <= GetGroupState
    /\ GetGroupState # CLEAR => \E a \in Alarms : GetState(a) = GetGroupState

\* A latched alarm that has been raised is never seen to improve, in its own
\* state or through a group, however often its owner sets it (Alarm.h:13).
LatchedNeverFalls ==
    [][\A a \in Latching : State'[a] >= State[a] /\ GetState(a)' >= GetState(a)]_alarmVars

\* "Muted alarm returns CLEAR." (Alarm.h:11)
MutedReturnsClear == \A a \in Alarms : Muted[a] => GetState(a) = CLEAR
=============================================================================
