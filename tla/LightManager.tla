---------------------------- MODULE LightManager ----------------------------
(***************************************************************************)
(* The light manager's task (src/src/LightManager), once a second: the     *)
(* lights are on while the permission "Clients" is given and no alarm is   *)
(* in ERROR.  It reports its alarms and the permission when they change    *)
(* and when a user has joined, its channels only when they change.         *)
(*                                                                         *)
(* The lines that users send to this module are stored by its queue and    *)
(* never looked at.                                                        *)
(***************************************************************************)
EXTENDS Alarm, MsgQueue, FiniteSets

CONSTANT Chanels    \* the channels of lighting.json

VARIABLES
    que,            \* the MsgQueue of every module
    perm,           \* the permission "Clients", set by SubProtocol
    last_value,     \* LightChanel::last_value of each channel
    LastAlm,        \* group severity the last time it was looked at
    LastPermission, \* permission the last time it was looked at
    lit             \* external: what the PWM module was last told

lightVars == << last_value, LastAlm, LastPermission, lit >>

LightTypeOK ==
    /\ last_value \in [Chanels -> {-1, 0, 1}]
    /\ LastAlm \in Unset
    /\ LastPermission \in BOOLEAN
    /\ lit \in [Chanels -> {0, 1}]

\* The constructor leaves LastAlm and LastPermission uninitialised.
LightInit ==
    /\ last_value = [c \in Chanels |-> -1]
    /\ LastAlm \in Unset
    /\ LastPermission \in BOOLEAN
    /\ lit = [c \in Chanels |-> 0]

\* Mutants of Enabled: the comparison is one severity too low; or the alarms
\* are not asked.
EnabledOnlyClear == GetGroupState = CLEAR /\ perm
EnabledInError == perm

Enabled == GetGroupState # ERROR /\ perm

pwr == IF Enabled THEN 1 ELSE 0

Changed == {c \in Chanels : last_value[c] # pwr}

\* One report for each channel that changes.  All the reports are alike: they
\* show the Variable Power of each channel, which nobody sets.
ChannelReports ==
    [i \in 1 .. Cardinality(Changed) |->
        Report("Lighting", "LightChannels", [c \in Chanels |-> 0])]

\* Mutant of NewAlarm: the severity is compared after it was remembered.
NewAlarmNever == FALSE

NewAlarm == LastAlm # GetGroupState

LightReports(q) ==
    LET all == q.Broadcast
        channels == [IsBroadcastDone(q) EXCEPT !.TxMsgs = @ \o ChannelReports]
        alarms == SendIf(channels, all \/ NewAlarm, "Alarms", AlarmReport)
    IN  SendIf(alarms, all \/ LastPermission # perm, "Permission", perm)

RunTask ==
    /\ LastAlm' = GetGroupState
    /\ LastPermission' = perm
    /\ last_value' = [c \in Chanels |-> pwr]
    /\ lit' = [c \in Chanels |-> pwr]
    /\ que' = [que EXCEPT !["Lighting"] = LightReports(@)]
=============================================================================
