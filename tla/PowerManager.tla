---------------------------- MODULE PowerManager ----------------------------
(***************************************************************************)
(* The power manager's task (src/src/PowerManager), once a second: it      *)
(* measures voltages and a temperature, keeps them in Variables, sets an   *)
(* alarm for each, and reports what it takes for news.                     *)
(*                                                                         *)
(* Voltages and temperatures are integers, in hundredths.  Variable::Set() *)
(* also appends every change to a file, which is left out.                 *)
(***************************************************************************)
EXTENDS Alarm, MsgQueue

CONSTANTS
    TempAlarm,      \* the alarm of the temperature; the others are of voltages
    Tolerance       \* a voltage that moved by no more is no news: 0.1

VARIABLES
    que,            \* the MsgQueue of every module
    Volts,          \* PowerManager::Volts, the Value of each
    Temp,           \* PowerManager::Temp, its Value
    LastAlm,        \* PowerManager::LastAlm
    LastTemp        \* PowerManager::LastTemp

powerVars == << Volts, Temp, LastAlm, LastTemp >>

VoltNames == Alarms \ {TempAlarm}

PowerTypeOK ==
    /\ Volts \in [VoltNames -> Int]
    /\ Temp \in Int
    /\ LastAlm \in [VoltNames -> Unset]
    /\ LastTemp \in Unset

\* Variables start at 0; the last severities are not initialised.
PowerInit ==
    /\ Volts = [c \in VoltNames |-> 0]
    /\ Temp = 0
    /\ LastAlm \in [VoltNames -> Unset]
    /\ LastTemp \in Unset

CheckTemp(temp) ==
    IF temp < -1000 \/ temp > 5000 THEN ERROR
    ELSE IF temp < 0 \/ temp > 4000 THEN WARNING ELSE CLEAR

CheckVoltage(v) ==
    IF v < 1000 \/ v > 1700 THEN ERROR
    ELSE IF v < 1100 THEN WARNING ELSE CLEAR

Differ(a, b, diff) == a - b > diff \/ b - a > diff

\* Variable::Set(); no Variable of the program has a difference but 0.
Set(value, v) == IF Differ(value, v, 0) THEN v ELSE value

Moved(v) == {c \in VoltNames : Differ(Volts[c], v[c], Tolerance)}

\* Mutant of Record: every value is taken, news or not.
RecordAll(v) == [c \in VoltNames |-> Set(Volts[c], v[c])]

Record(v) == [c \in VoltNames |-> IF c \in Moved(v) THEN Set(Volts[c], v[c]) ELSE Volts[c]]

Checked(v, temp) ==
    [a \in Alarms |-> IF a = TempAlarm THEN CheckTemp(temp) ELSE CheckVoltage(v[a])]

\* A severity measured is another than at the last task.
NewVolt(v) == \E c \in VoltNames : LastAlm[c] # CheckVoltage(v[c])
NewTemp(temp) == LastTemp # CheckTemp(temp)

\* The reports of a task, in their order; those of the alarms tell the states
\* after SetState().  The temperature alone is no reason to send PowerData.
PowerReports(q, v, temp) ==
    LET all == q.Broadcast
        data == [Volt |-> Volts', Temp |-> Temp']
        power == SendIf(IsBroadcastDone(q), all \/ Moved(v) # {}, "PowerData", data)
        volt == SendIf(power, all \/ NewVolt(v), "VoltAlarm",
                       [c \in VoltNames |-> GetState(c)'])
    IN  SendIf(volt, all \/ NewTemp(temp), "TempAlarm", GetState(TempAlarm)')

RunTask(v, temp) ==
    /\ Volts' = Record(v)
    /\ Temp' = Set(Temp, temp)
    /\ LastAlm' = [c \in VoltNames |-> CheckVoltage(v[c])]
    /\ LastTemp' = CheckTemp(temp)
    /\ SetAll(Checked(v, temp))
    /\ que' = [que EXCEPT !["Power"] = PowerReports(@, v, temp)]
=============================================================================
