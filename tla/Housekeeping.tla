---------------------------- MODULE Housekeeping ----------------------------
(***************************************************************************)
(* The two tasks that run once a second, the power manager and the light   *)
(* manager, with the network side as Mail promises it.  They share the     *)
(* alarms: one sets them, the other reads them, and each reports to the    *)
(* users in its own way what it has seen.                                  *)
(***************************************************************************)
EXTENDS Mail, Alarm, FiniteSets

CONSTANTS
    TempAlarm, Tolerance, Chanels,
    Voltages,       \* bound: what a voltage may be measured as
    Temperatures    \* bound: what the temperature may be measured as

\* PowerManager() makes every alarm of the program, and each latches.
ASSUME HousekeepingAssumption ==
    /\ {"Power", "Lighting"} \subseteq Modules
    /\ IsFiniteSet(Chanels)
    /\ Latching = Alarms
    /\ TempAlarm \in Alarms
    /\ Tolerance \in Nat
    /\ Voltages \subseteq Int
    /\ Temperatures \subseteq Int

VARIABLES
    Volts, Temp, PowerLastAlm, LastTemp,
    last_value, LightLastAlm, LastPermission, lit

Power == INSTANCE PowerManager WITH LastAlm <- PowerLastAlm
Light == INSTANCE LightManager WITH LastAlm <- LightLastAlm

powerVars == << Volts, Temp, PowerLastAlm, LastTemp >>
lightVars == << last_value, LightLastAlm, LastPermission, lit >>
houseVars == << mailVars, alarmVars, powerVars, lightVars >>

HousekeepingTypeOK ==
    /\ DOMAIN que = Modules
    /\ \A m \in Modules : IsQueue(que[m], m, Lines)
    /\ {perm, joined, up} \subseteq BOOLEAN
    /\ AlarmTypeOK
    /\ Power!PowerTypeOK
    /\ Light!LightTypeOK

HousekeepingInit ==
    /\ MailInit
    /\ AlarmInit
    /\ Power!PowerInit
    /\ Light!LightInit

\* The main loop runs the tasks between two calls of the network side.
\* (Bound: at most MaxTx reports wait when a task starts.)
Free(m) == up /\ Len(que[m].TxMsgs) <= MaxTx

PowerTask ==
    /\ Free("Power")
    /\ \E v \in [Power!VoltNames -> Voltages], temp \in Temperatures : Power!RunTask(v, temp)
    /\ UNCHANGED << perm, joined, view, up, lightVars >>

LightTask ==
    /\ Free("Lighting")
    /\ Light!RunTask
    /\ UNCHANGED << perm, joined, view, up, alarmVars, powerVars >>

\* The network side, as long as the process runs.  (The commands it would
\* deliver are never looked at by these modules.)
Network ==
    /\ \/ Join
       \/ Announce
       \/ Leave
       \/ Collect
       \/ Permit
    /\ UNCHANGED << alarmVars, powerVars, lightVars >>

HousekeepingNext == Network \/ PowerTask \/ LightTask

\* The task manager finds the light task due every second, and Mail promises
\* to collect the reports.
HousekeepingFairness ==
    /\ WF_houseVars(LightTask)
    /\ WF_houseVars(Collect /\ UNCHANGED << alarmVars, powerVars, lightVars >>)

HousekeepingSpec ==
    HousekeepingInit /\ [][HousekeepingNext]_houseVars /\ HousekeepingFairness

-----------------------------------------------------------------------------
(* Properties.                                                             *)

\* What the user knows once the reports on their way have arrived.
Told(m) == Heard(view[m], que[m].TxMsgs)

\* A user who is connected knows the alarms of the power manager as they are
\* and the voltages as they were recorded, unless it is about to be told all:
\* although the last severities start as garbage, alarms latch while the
\* measured severity goes on changing, and reports are sent on change only
\* (PowerManager.cpp:125-153).
PowerTelemetry ==
    joined =>
        \/ que["Power"].Broadcast
        \/ /\ Report("Power", "VoltAlarm", [c \in Power!VoltNames |-> GetState(c)])
                \in Told("Power")
           /\ Report("Power", "TempAlarm", GetState(TempAlarm)) \in Told("Power")
           /\ \E r \in Told("Power") : r.RecordType = "PowerData" /\ r.Data.Volt = Volts

\* A user who is connected knows from the light manager the permission and
\* the worst severity that decided about the lights; which alarm of the group
\* it is may have changed since (LightManager.cpp:128-165).
Worst(states) == CHOOSE s \in Range(states) : \A t \in Range(states) : t <= s

LightTelemetry ==
    joined =>
        \/ que["Lighting"].Broadcast
        \/ /\ Report("Lighting", "Permission", LastPermission) \in Told("Lighting")
           /\ \E r \in Told("Lighting") :
                r.RecordType = "Alarms" /\ Worst(r.Data) = LightLastAlm

\* One measurement out of range and the lights, once dark, stay dark for good:
\* the alarm latches, so that no later measurement and no user lights them
\* (PowerManager.cpp:135 with LightManager.cpp:144).
Tripped == \E a \in Alarms : State[a] = ERROR

Dark == \A c \in Chanels : lit[c] = 0

TrippedStaysDark ==
    [][Tripped /\ Dark => Tripped' /\ Dark']_houseVars

\* While the permission and the alarms stand still the lights follow them: an
\* error puts them out, a warning leaves them on.
LightsFollow ==
    /\ <>[](perm /\ ~Tripped) => <>[](\A c \in Chanels : lit[c] = 1)
    /\ <>[](~perm \/ Tripped) => <>[]Dark
=============================================================================
