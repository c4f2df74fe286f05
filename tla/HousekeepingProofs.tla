------------------------- MODULE HousekeepingProofs -------------------------
(***************************************************************************)
(* Proofs about the power manager and the light manager, for any alarms,   *)
(* channels, measurements and tolerance: the types, that the alarms latch, *)
(* that an error keeps the lights out for good, and that a connected user  *)
(* knows from both managers what it is meant to know.                      *)
(*                                                                         *)
(* The types are inductive: that the light task sees an error among its    *)
(* alarms follows from what AlarmProofs says of the group's loop, once     *)
(* states are known to be severities.  What users know is not: HouseInv    *)
(* adds how what the power manager remembers is behind the alarms.         *)
(***************************************************************************)
EXTENDS Housekeeping, AlarmProofs

-----------------------------------------------------------------------------
(* The managers and this module speak of the same alarms.                  *)

LEMMA LightSeesGroup == Light!GetGroupState = GetGroupState
  BY DEF Light!GetGroupState, GetGroupState, Light!StateAfter, StateAfter,
         Light!Escalate, Escalate, Light!GetState, GetState,
         Light!CLEAR, Light!WARNING, Light!ERROR, CLEAR, WARNING, ERROR

LEMMA PowerAlarms == Power!Alarms = Alarms
  BY DEF Power!Alarms, Alarms, Power!Range, Range

LEMMA CheckedTyped ==
    ASSUME NEW v \in [Power!VoltNames -> Int], NEW temp \in Int
    PROVE  Power!Checked(v, temp) \in [Alarms -> Severity]
<1>1. \A i \in Int : Power!CheckVoltage(i) \in Severity /\ Power!CheckTemp(i) \in Severity
  BY DEF Power!CheckVoltage, Power!CheckTemp, Power!CLEAR, Power!WARNING, Power!ERROR,
         Severity, CLEAR, WARNING, ERROR
<1>2. \A a \in Alarms : a # TempAlarm => v[a] \in Int
  BY PowerAlarms DEF Power!VoltNames
<1>3. QED
  BY <1>1, <1>2, PowerAlarms DEF Power!Checked

LEMMA PowerSetsAll ==
    ASSUME NEW v \in [Power!VoltNames -> Int], NEW temp \in Int, Power!RunTask(v, temp)
    PROVE  SetAll(Power!Checked(v, temp))
  BY PowerAlarms DEF Power!RunTask, Power!SetAll, SetAll, Power!Taken, Taken, Power!StaysMuted, StaysMuted,
         Power!Accepts, Accepts,
         Power!CLEAR, Power!WARNING, Power!ERROR, CLEAR, WARNING, ERROR

-----------------------------------------------------------------------------
(* Queues: whatever a task sends, a queue stays one.                       *)

LEMMA PowerQueue ==
    ASSUME NEW q, IsQueue(q, "Power", Lines),
           NEW v, NEW temp
    PROVE  IsQueue(Power!PowerReports(q, v, temp), "Power", Lines)
  BY DEF IsQueue, QueueFields, Power!PowerReports, Power!SendIf, Power!Send,
         Power!IsBroadcastDone

LEMMA LightQueue ==
    ASSUME NEW q, IsQueue(q, "Lighting", Lines)
    PROVE  IsQueue(Light!LightReports(q), "Lighting", Lines)
  BY DEF IsQueue, QueueFields, Light!LightReports, Light!SendIf, Light!Send,
         Light!IsBroadcastDone

Queues == DOMAIN que = Modules /\ \A m \in Modules : IsQueue(que[m], m, Lines)

LEMMA NetworkQueues ==
    ASSUME Queues, Network
    PROVE  Queues'
<1>1. \A m \in Modules :
         /\ IsQueue(NewQueue(m), m, Lines)
         /\ IsQueue(SetBroadcast(que[m]), m, Lines)
         /\ IsQueue(GetAllMsgs(que[m]), m, Lines)
  <2> TAKE m \in Modules
  <2>1. IsQueue(que[m], m, Lines)
    BY DEF Queues
  <2>2. IsQueue(NewQueue(m), m, Lines)
    BY DEF IsQueue, QueueFields, NewQueue
  <2>3. IsQueue(SetBroadcast(que[m]), m, Lines)
    BY <2>1 DEF IsQueue, QueueFields, SetBroadcast
  <2>4. IsQueue(GetAllMsgs(que[m]), m, Lines)
    BY <2>1 DEF IsQueue, QueueFields, GetAllMsgs
  <2>5. QED
    BY <2>2, <2>3, <2>4
<1>2. CASE Join
  BY <1>1, <1>2 DEF Queues, Join, Flagged
<1>3. CASE Announce
  BY <1>1, <1>3 DEF Queues, Announce, Flagged
<1>4. CASE Leave
  BY <1>4 DEF Queues, Leave
<1>5. CASE Collect
  BY <1>1, <1>5 DEF Queues, Collect, HandOver
<1>6. CASE Permit
  BY <1>6 DEF Queues, Permit
<1>7. QED
  BY <1>2, <1>3, <1>4, <1>5, <1>6 DEF Network


-----------------------------------------------------------------------------
(* Types.                                                                  *)

LEMMA PowerRunTyped ==
    ASSUME Power!PowerTypeOK, NEW v \in [Power!VoltNames -> Int], NEW temp \in Int,
           Power!RunTask(v, temp)
    PROVE  Power!PowerTypeOK'
<1>1. \A i, j \in Int : Power!Set(i, j) \in Int
  BY DEF Power!Set
<1>2. Volts' \in [Power!VoltNames -> Int] /\ Temp' \in Int
  BY <1>1 DEF Power!PowerTypeOK, Power!RunTask, Power!Record
<1>3. \A i \in Int : /\ Power!CheckVoltage(i) \in Power!Unset
                     /\ Power!CheckTemp(i) \in Power!Unset
  BY DEF Power!CheckVoltage, Power!CheckTemp, Power!Unset, Power!Severity,
         Power!CLEAR, Power!WARNING, Power!ERROR
<1>4. PowerLastAlm' \in [Power!VoltNames -> Power!Unset] /\ LastTemp' \in Power!Unset
  BY <1>3 DEF Power!RunTask
<1>5. QED
  BY <1>2, <1>4 DEF Power!PowerTypeOK

LEMMA LightRunTyped ==
    ASSUME AlarmTypeOK, perm \in BOOLEAN, Light!RunTask
    PROVE  Light!LightTypeOK'
<1>1. Light!GetGroupState \in Light!Unset
  <2>1. GetGroupState \in Severity
    BY GroupHighest DEF GetGroupState, HighestOf
  <2>2. QED
    BY <2>1, LightSeesGroup
    DEF Light!Unset, Light!Severity, Severity, Light!CLEAR, Light!WARNING, Light!ERROR,
        CLEAR, WARNING, ERROR
<1>2. Light!pwr \in {0, 1}
  BY DEF Light!pwr
<1>3. QED
  BY <1>1, <1>2 DEF Light!RunTask, Light!LightTypeOK

LEMMA HouseInitTyped == HousekeepingInit => HousekeepingTypeOK
<1> SUFFICES ASSUME HousekeepingInit PROVE HousekeepingTypeOK
  OBVIOUS
<1>1. Queues
  <2>1. \A m \in Modules : IsQueue(NewQueue(m), m, Lines)
    BY DEF IsQueue, QueueFields, NewQueue
  <2>2. QED
    BY <2>1 DEF HousekeepingInit, MailInit, Queues
<1>2. {perm, joined, up} \subseteq BOOLEAN
  BY DEF HousekeepingInit, MailInit
<1>3. AlarmTypeOK
  BY DEF HousekeepingInit, AlarmInit, AlarmTypeOK, Severity
<1>4. Power!PowerTypeOK
  BY DEF HousekeepingInit, Power!PowerInit, Power!PowerTypeOK
<1>5. Light!LightTypeOK
  BY DEF HousekeepingInit, Light!LightInit, Light!LightTypeOK
<1>6. QED
  BY <1>1, <1>2, <1>3, <1>4, <1>5 DEF HousekeepingTypeOK, Queues

LEMMA HouseStepTyped == HousekeepingTypeOK /\ [HousekeepingNext]_houseVars => HousekeepingTypeOK'
<1> SUFFICES ASSUME HousekeepingTypeOK, [HousekeepingNext]_houseVars
             PROVE  HousekeepingTypeOK'
  OBVIOUS
<1> USE DEF HousekeepingTypeOK
<1>0. Queues
  BY DEF Queues
<1>1. CASE Network
  <2>1. Queues'
    BY <1>0, <1>1, NetworkQueues
  <2>2. {perm, joined, up}' \subseteq BOOLEAN
    BY <1>1 DEF Network, Join, Announce, Leave, Collect, HandOver, Permit
  <2>3. UNCHANGED << alarmVars, powerVars, lightVars >>
    BY <1>1 DEF Network
  <2>4. AlarmTypeOK'
    BY <2>3 DEF alarmVars, AlarmTypeOK
  <2>5. Power!PowerTypeOK'
    BY <2>3 DEF powerVars, Power!PowerTypeOK
  <2>6. Light!LightTypeOK'
    BY <2>3 DEF lightVars, Light!LightTypeOK
  <2>7. QED
    BY <2>1, <2>2, <2>4, <2>5, <2>6 DEF Queues
<1>2. CASE PowerTask
  <2>1. PICK v \in [Power!VoltNames -> Voltages], temp \in Temperatures : Power!RunTask(v, temp)
    BY <1>2 DEF PowerTask
  <2>2. v \in [Power!VoltNames -> Int] /\ temp \in Int
    BY HousekeepingAssumption
  <2>3. AlarmTypeOK'
    BY <2>1, <2>2, PowerSetsAll, CheckedTyped, SetAllTyped
  <2>4. Power!PowerTypeOK'
    BY <2>1, <2>2, PowerRunTyped
  <2>5. UNCHANGED << perm, joined, up, lightVars >>
    BY <1>2 DEF PowerTask
  <2>6. Light!LightTypeOK'
    BY <2>5 DEF lightVars, Light!LightTypeOK
  <2>7. DOMAIN que' = Modules /\ \A m \in Modules : IsQueue(que'[m], m, Lines)
    <3>1. que' = [que EXCEPT !["Power"] = Power!PowerReports(que["Power"], v, temp)]
      BY <2>1 DEF Power!RunTask
    <3>2. "Power" \in Modules => IsQueue(Power!PowerReports(que["Power"], v, temp), "Power", Lines)
      BY PowerQueue
    <3>3. QED
      BY <3>1, <3>2
  <2>8. QED
    BY <2>3, <2>4, <2>5, <2>6, <2>7
<1>3. CASE LightTask
  <2>1. Light!RunTask /\ UNCHANGED << perm, joined, up, alarmVars, powerVars >>
    BY <1>3 DEF LightTask
  <2>2. Light!LightTypeOK'
    BY <2>1, LightRunTyped
  <2>3. AlarmTypeOK'
    BY <2>1 DEF alarmVars, AlarmTypeOK
  <2>4. Power!PowerTypeOK'
    BY <2>1 DEF powerVars, Power!PowerTypeOK
  <2>5. DOMAIN que' = Modules /\ \A m \in Modules : IsQueue(que'[m], m, Lines)
    <3>1. que' = [que EXCEPT !["Lighting"] = Light!LightReports(que["Lighting"])]
      BY <2>1 DEF Light!RunTask
    <3>2. "Lighting" \in Modules => IsQueue(Light!LightReports(que["Lighting"]), "Lighting", Lines)
      BY LightQueue
    <3>3. QED
      BY <3>1, <3>2
  <2>6. QED
    BY <2>1, <2>2, <2>3, <2>4, <2>5
<1>4. CASE UNCHANGED houseVars
  BY <1>4 DEF houseVars, mailVars, alarmVars, powerVars, lightVars,
              AlarmTypeOK, Power!PowerTypeOK, Light!LightTypeOK
<1>5. QED
  BY <1>1, <1>2, <1>3, <1>4 DEF HousekeepingNext

\* The variables of both managers have their types, whatever is measured.
THEOREM HouseTypeCorrect == HousekeepingSpec => []HousekeepingTypeOK
  BY HouseInitTyped, HouseStepTyped, PTL DEF HousekeepingSpec

-----------------------------------------------------------------------------
(* Latches and lights.                                                     *)

\* The alarms are set by the power task, all of them, and by nobody else.
LEMMA AlarmsSetByPower ==
    ASSUME HousekeepingTypeOK, [HousekeepingNext]_houseVars
    PROVE  \/ UNCHANGED alarmVars
           \/ \E states \in [Alarms -> Severity] : SetAll(states)
<1>1. CASE PowerTask
  <2>1. PICK v \in [Power!VoltNames -> Voltages], temp \in Temperatures : Power!RunTask(v, temp)
    BY <1>1 DEF PowerTask
  <2>2. v \in [Power!VoltNames -> Int] /\ temp \in Int
    BY HousekeepingAssumption
  <2>3. QED
    BY <2>1, <2>2, PowerSetsAll, CheckedTyped
<1>2. CASE ~PowerTask
  BY <1>2 DEF HousekeepingNext, Network, LightTask, houseVars
<1>3. QED
  BY <1>1, <1>2

LEMMA HouseLatchStep ==
    ASSUME HousekeepingTypeOK, [HousekeepingNext]_houseVars, NEW a \in Latching
    PROVE  UNCHANGED alarmVars \/ (State'[a] >= State[a] /\ GetState(a)' >= GetState(a))
  BY AlarmsSetByPower, SetAllLatches DEF HousekeepingTypeOK

\* Whatever is measured, a latched alarm of the power manager never improves.
THEOREM HouseLatches == HousekeepingSpec => LatchedNeverFalls
<1>1. HousekeepingTypeOK /\ [HousekeepingNext]_houseVars
        => [\A a \in Latching : State'[a] >= State[a] /\ GetState(a)' >= GetState(a)]_alarmVars
  BY HouseLatchStep
<1>2. QED
  BY <1>1, HouseTypeCorrect, PTL DEF HousekeepingSpec, LatchedNeverFalls

\* With one alarm in ERROR the light task switches off.
LEMMA TrippedDisables ==
    ASSUME AlarmTypeOK, Tripped
    PROVE  Light!pwr = 0
<1>1. PICK a \in Alarms : State[a] = ERROR
  BY DEF Tripped
<1>2. GetState(a) = ERROR
  BY <1>1 DEF GetState, ERROR, WARNING
<1>3. GetGroupState \in Severity
  BY GroupHighest DEF GetGroupState, HighestOf
<1>4. GetGroupState = ERROR
  BY <1>2, <1>3, TypedShowsHighest DEF GroupIsHighest, Severity, CLEAR, WARNING, ERROR
<1>5. QED
  BY <1>4, LightSeesGroup DEF Light!pwr, Light!Enabled, Light!ERROR, ERROR

LEMMA TrippedStep ==
    ASSUME HousekeepingTypeOK, [HousekeepingNext]_houseVars, Tripped, Dark
    PROVE  Tripped' /\ Dark'
<1>1. Tripped'
  <2>1. PICK a \in Alarms : State[a] = ERROR
    BY DEF Tripped
  <2>2. a \in Latching
    BY HousekeepingAssumption
  <2>3. HousekeepingTypeOK'
    BY HouseStepTyped
  <2>4. State'[a] \in Severity
    BY <2>3 DEF HousekeepingTypeOK, AlarmTypeOK
  <2>5. UNCHANGED alarmVars \/ State'[a] >= State[a]
    BY <2>2, HouseLatchStep
  <2>6. State'[a] = ERROR
    BY <2>1, <2>4, <2>5 DEF alarmVars, Severity, CLEAR, WARNING, ERROR
  <2>7. QED
    BY <2>6 DEF Tripped
<1>2. Dark'
  <2>1. CASE LightTask
    <3>1. lit' = [c \in Chanels |-> Light!pwr]
      BY <2>1 DEF LightTask, Light!RunTask
    <3>2. Light!pwr = 0
      BY TrippedDisables DEF HousekeepingTypeOK
    <3>3. QED
      BY <3>1, <3>2 DEF Dark
  <2>2. CASE ~LightTask
    <3>1. lit' = lit
      BY <2>2 DEF HousekeepingNext, Network, PowerTask, houseVars, lightVars
    <3>2. QED
      BY <3>1 DEF Dark
  <2>3. QED
    BY <2>1, <2>2
<1>3. QED
  BY <1>1, <1>2

\* Once an alarm is in ERROR and the lights are out, no measurement and no
\* user lights them again.
THEOREM LightsStayOut == HousekeepingSpec => TrippedStaysDark
<1>1. HousekeepingTypeOK /\ [HousekeepingNext]_houseVars
        => [Tripped /\ Dark => Tripped' /\ Dark']_houseVars
  BY TrippedStep
<1>2. QED
  BY <1>1, HouseTypeCorrect, PTL DEF HousekeepingSpec, TrippedStaysDark

\* The severity that decides about the lights is the highest of the alarms.
THEOREM HouseShowsHighest == HousekeepingSpec => []GroupIsHighest
<1>1. HousekeepingTypeOK => GroupIsHighest
  BY TypedShowsHighest DEF HousekeepingTypeOK
<1>2. QED
  BY <1>1, HouseTypeCorrect, PTL

-----------------------------------------------------------------------------
(* What a user knows.                                                      *)

\* After its first task the power manager remembers no severity worse than
\* the alarms have latched, so that a severity that is no news changes no
\* alarm.  Before it what is remembered may be garbage, but whoever joins is
\* going to be told everything.
Settled ==
    /\ \A c \in Power!VoltNames : State[c] >= PowerLastAlm[c]
    /\ State[TempAlarm] >= LastTemp

SettledOrFlagged == Settled \/ (joined => que["Power"].Broadcast)

Listed == \A m \in {"Power", "Lighting"} : IsList(que[m].TxMsgs)

HouseInv ==
    /\ HousekeepingTypeOK
    /\ Listed
    /\ SettledOrFlagged
    /\ PowerTelemetry
    /\ LightTelemetry

LEMMA ManagersSend ==
    ASSUME NEW q, NEW needed, NEW record, NEW data
    PROVE  /\ Power!SendIf(q, needed, record, data) = SendIf(q, needed, record, data)
           /\ Light!SendIf(q, needed, record, data) = SendIf(q, needed, record, data)
           /\ Power!IsBroadcastDone(q) = IsBroadcastDone(q)
           /\ Light!IsBroadcastDone(q) = IsBroadcastDone(q)
  BY DEF Power!SendIf, Light!SendIf, SendIf, Power!Send, Light!Send, Send,
         Power!Report, Light!Report, Report,
         Power!IsBroadcastDone, Light!IsBroadcastDone, IsBroadcastDone

LEMMA ManagersQueues ==
    ASSUME HousekeepingTypeOK, Listed
    PROVE  \A m \in {"Power", "Lighting"} :
              /\ m \in DOMAIN que /\ IsMailbox(que[m])
              /\ que[m].Module = m /\ que[m].Broadcast \in BOOLEAN
<1> SUFFICES ASSUME NEW m \in {"Power", "Lighting"}
             PROVE  /\ m \in DOMAIN que /\ IsMailbox(que[m])
                    /\ que[m].Module = m /\ que[m].Broadcast \in BOOLEAN
  OBVIOUS
<1>1. m \in Modules
  BY HousekeepingAssumption
<1>2. m \in DOMAIN que /\ IsQueue(que[m], m, Lines)
  BY <1>1 DEF HousekeepingTypeOK
<1> QED
  BY <1>2 DEF IsQueue, IsMailbox, Listed

\* The network side announces, or leaves what a user knows as it is.
LEMMA NetworkTold ==
    ASSUME HousekeepingTypeOK, Listed, Network, NEW m \in {"Power", "Lighting"}
    PROVE  /\ IsList(que'[m].TxMsgs)
           /\ joined' => \/ que'[m].Broadcast
                        \/ /\ joined /\ Told(m)' = Told(m)
                           /\ que'[m].Broadcast = que[m].Broadcast
<1>1. m \in Modules /\ IsMailbox(que[m])
  BY ManagersQueues, HousekeepingAssumption
<1>2. CASE Join \/ Announce
  <2>1. que'[m] = SetBroadcast(que[m])
    BY <1>1, <1>2 DEF Join, Announce, Flagged
  <2> QED
    BY <1>1, <2>1, SameReports DEF IsMailbox
<1>3. CASE Leave
  BY <1>3 DEF Leave, Listed
<1>4. CASE Collect
  <2>1. que'[m] = GetAllMsgs(que[m]) /\ joined' = joined
        /\ (joined => view'[m] = Heard(view[m], que[m].TxMsgs))
    BY <1>1, <1>4 DEF Collect, HandOver
  <2>2. que'[m].TxMsgs = << >> /\ que'[m].Broadcast = que[m].Broadcast
    BY <1>1, <2>1 DEF GetAllMsgs, IsMailbox, QueueFields
  <2>3. IsList(<< >>)
    <3>1. << >> \in Seq({})
      OBVIOUS
    <3> QED
      BY <3>1 DEF IsList
  <2>4. joined => Told(m)' = Told(m)
    BY <2>1, <2>2, HeardNothing DEF Told
  <2> QED
    BY <2>1, <2>2, <2>3, <2>4
<1>5. CASE Permit
  BY <1>5 DEF Permit, Told, Listed
<1> QED
  BY <1>2, <1>3, <1>4, <1>5 DEF Network

-----------------------------------------------------------------------------
(* The power manager.                                                      *)

\* A latching alarm set to s is at least as severe afterwards, and stays as it
\* is if it was before.
LEMMA LatchTakes ==
    ASSUME AlarmTypeOK, NEW a \in Alarms, NEW s \in Severity
    PROVE  /\ Taken(a, s) >= s
           /\ State[a] >= s => Taken(a, s) = State[a]
<1>1. a \in Latching
  BY HousekeepingAssumption
<1>2. State[a] \in {0, 1, 2} /\ s \in {0, 1, 2}
  BY DEF AlarmTypeOK, Severity, CLEAR, WARNING, ERROR
<1>3. CASE State[a] = 0
  BY <1>2, <1>3 DEF Taken, Accepts, CLEAR, WARNING, ERROR
<1>4. CASE State[a] = 1
  BY <1>1, <1>2, <1>4 DEF Taken, Accepts, CLEAR, WARNING, ERROR
<1>5. CASE State[a] = 2
  BY <1>1, <1>2, <1>5 DEF Taken, Accepts, CLEAR, WARNING, ERROR
<1> QED
  BY <1>2, <1>3, <1>4, <1>5

\* What the task reports, with the news that it takes for a reason.
LEMMA PowerReported ==
    ASSUME NEW q, IsMailbox(q), q.Module = "Power", NEW v, NEW temp,
           NEW p, p = Power!PowerReports(q, v, temp)
    PROVE  Reported(p, q,
               q.Broadcast \/ Power!Moved(v) # {},
               Report("Power", "PowerData", [Volt |-> Volts', Temp |-> Temp']),
               q.Broadcast \/ Power!NewVolt(v),
               Report("Power", "VoltAlarm", [c \in Power!VoltNames |-> GetState(c)']),
               q.Broadcast \/ Power!NewTemp(temp),
               Report("Power", "TempAlarm", GetState(TempAlarm)'))
<1>1. PICK n1, n2, n3 : /\ n1 = (q.Broadcast \/ Power!Moved(v) # {})
                        /\ n2 = (q.Broadcast \/ Power!NewVolt(v))
                        /\ n3 = (q.Broadcast \/ Power!NewTemp(temp))
  OBVIOUS
<1>2. PICK d1, d2, d3 : /\ d1 = [Volt |-> Volts', Temp |-> Temp']
                        /\ d2 = [c \in Power!VoltNames |-> GetState(c)']
                        /\ d3 = GetState(TempAlarm)'
  OBVIOUS
<1>3. /\ d2 = [c \in Power!VoltNames |-> Power!GetState(c)']
      /\ d3 = Power!GetState(TempAlarm)'
  BY <1>2 DEF Power!GetState, GetState, Power!CLEAR, Power!WARNING, CLEAR, WARNING
<1>4. p = SendIf(SendIf(SendIf(IsBroadcastDone(q), n1, "PowerData", d1),
                        n2, "VoltAlarm", d2), n3, "TempAlarm", d3)
  <2>1. p = Power!SendIf(Power!SendIf(Power!SendIf(Power!IsBroadcastDone(q), n1, "PowerData", d1),
                        n2, "VoltAlarm", d2), n3, "TempAlarm", d3)
    BY <1>1, <1>2, <1>3 DEF Power!PowerReports
  <2> QED
    BY <2>1, ManagersSend
<1>5. PICK k1, k2, k3 : k1 = "PowerData" /\ k2 = "VoltAlarm" /\ k3 = "TempAlarm"
  OBVIOUS
<1>6. p = SendIf(SendIf(SendIf(IsBroadcastDone(q), n1, k1, d1), n2, k2, d2), n3, k3, d3)
  BY <1>4, <1>5
<1>7. k1 # k2 /\ k1 # k3 /\ k2 # k3
  BY <1>5
<1>8. Reported(p, q, n1, Report(q.Module, k1, d1), n2, Report(q.Module, k2, d2),
                     n3, Report(q.Module, k3, d3))
  BY <1>6, <1>7, ThreeReports
<1> QED
  BY <1>1, <1>2, <1>5, <1>8

\* A task that does not look at a voltage leaves what is recorded of it.
LEMMA NothingMoved ==
    ASSUME Power!PowerTypeOK, NEW v, Power!Moved(v) = {}
    PROVE  Power!Record(v) = Volts
  BY DEF Power!PowerTypeOK, Power!Record

LEMMA PowerStep ==
    ASSUME HouseInv, PowerTask
    PROVE  Settled' /\ PowerTelemetry' /\ LightTelemetry' /\ Listed'
<1>1. PICK v \in [Power!VoltNames -> Voltages], temp \in Temperatures : Power!RunTask(v, temp)
  BY DEF PowerTask
<1>2. v \in [Power!VoltNames -> Int] /\ temp \in Int
  BY HousekeepingAssumption
<1>3. AlarmTypeOK /\ Power!PowerTypeOK
  BY DEF HouseInv, HousekeepingTypeOK
<1>4. PICK s : s = Power!Checked(v, temp)
  OBVIOUS
<1>5. s \in [Alarms -> Severity] /\ \A a \in Alarms : State'[a] = Taken(a, s[a])
  BY <1>1, <1>2, <1>4, CheckedTyped, PowerSetsAll DEF SetAll
<1>6. TempAlarm \in Alarms /\ \A c \in Power!VoltNames : c \in Alarms /\ c # TempAlarm
  BY HousekeepingAssumption, PowerAlarms DEF Power!VoltNames
<1>7. /\ \A c \in Power!VoltNames : s[c] = Power!CheckVoltage(v[c])
      /\ s[TempAlarm] = Power!CheckTemp(temp)
  BY <1>4, <1>6, PowerAlarms DEF Power!Checked
<1>8. /\ \A c \in Power!VoltNames : PowerLastAlm'[c] = s[c]
      /\ LastTemp' = s[TempAlarm]
  BY <1>1, <1>7 DEF Power!RunTask
<1>9. Settled'
  <2>1. \A a \in Alarms : State'[a] >= s[a]
    BY <1>3, <1>5, LatchTakes
  <2> QED
    BY <1>6, <1>8, <2>1 DEF Settled
<1>10. PICK q, p : q = que["Power"] /\ p = Power!PowerReports(q, v, temp)
  OBVIOUS
<1>11. /\ IsMailbox(q) /\ q.Module = "Power" /\ que'["Power"] = p
       /\ que'["Lighting"] = que["Lighting"]
       /\ UNCHANGED << joined, view, lightVars >>
  BY <1>1, <1>10, ManagersQueues DEF HouseInv, PowerTask, Power!RunTask
<1>12. PICK moved, volt, hot :
        /\ moved = (q.Broadcast \/ Power!Moved(v) # {})
        /\ volt = (q.Broadcast \/ Power!NewVolt(v))
        /\ hot = (q.Broadcast \/ Power!NewTemp(temp))
  OBVIOUS
<1>13. PICK r1, r2, r3 :
        /\ r1 = Report("Power", "PowerData", [Volt |-> Volts', Temp |-> Temp'])
        /\ r2 = Report("Power", "VoltAlarm", [c \in Power!VoltNames |-> GetState(c)'])
        /\ r3 = Report("Power", "TempAlarm", GetState(TempAlarm)')
  OBVIOUS
<1>14. Reported(p, q, moved, r1, volt, r2, hot, r3)
  BY <1>10, <1>11, <1>12, <1>13, PowerReported
<1>15. /\ r1.RecordType = "PowerData" /\ r1.Data.Volt = Volts'
       /\ r2.RecordType = "VoltAlarm" /\ r3.RecordType = "TempAlarm"
  BY <1>13 DEF Report
<1>16. Listed'
  BY <1>11, <1>14 DEF Listed, HouseInv, Reported, IsMailbox
<1>17. LightTelemetry'
  BY <1>11 DEF HouseInv, LightTelemetry, Told, lightVars
<1>18. ASSUME joined
       PROVE  /\ r2 \in Told("Power")' /\ r3 \in Told("Power")'
              /\ \E r \in Told("Power")' : r.RecordType = "PowerData" /\ r.Data.Volt = Volts'
  <2>1. PICK before, after : before = Told("Power") /\ after = Told("Power")'
    OBVIOUS
  <2>2. /\ moved => r1 \in after
        /\ volt => r2 \in after
        /\ hot => r3 \in after
    BY <1>11, <1>14, <2>1 DEF Told, Reported, Informs
  <2>3. \A r \in before :
          /\ ~moved /\ r.RecordType = "PowerData" => r \in after
          /\ ~volt /\ r.RecordType = "VoltAlarm" => r \in after
          /\ ~hot /\ r.RecordType = "TempAlarm" => r \in after
    BY <1>10, <1>11, <1>14, <1>15, <2>1 DEF Told, Reported, Keeps
  <2>4. ~q.Broadcast =>
          /\ Settled
          /\ Report("Power", "VoltAlarm", [c \in Power!VoltNames |-> GetState(c)]) \in before
          /\ Report("Power", "TempAlarm", GetState(TempAlarm)) \in before
          /\ \E r \in before : r.RecordType = "PowerData" /\ r.Data.Volt = Volts
    BY <1>10, <1>18, <2>1 DEF HouseInv, SettledOrFlagged, PowerTelemetry
  <2>5. r2 \in after
    <3>1. CASE ~volt
      <4>1. ~q.Broadcast /\ ~Power!NewVolt(v)
        BY <1>12, <3>1
      <4>2. \A c \in Power!VoltNames : State[c] >= s[c]
        BY <1>7, <2>4, <4>1 DEF Settled, Power!NewVolt
      <4>3. \A c \in Power!VoltNames : State'[c] = State[c]
        BY <1>3, <1>5, <1>6, <4>2, LatchTakes
      <4>4. [c \in Power!VoltNames |-> GetState(c)'] = [c \in Power!VoltNames |-> GetState(c)]
        BY <4>3 DEF GetState
      <4> QED
        BY <1>13, <1>15, <2>3, <2>4, <3>1, <4>1, <4>4
    <3> QED
      BY <2>2, <3>1
  <2>6. r3 \in after
    <3>1. CASE ~hot
      <4>1. ~q.Broadcast /\ ~Power!NewTemp(temp)
        BY <1>12, <3>1
      <4>2. State[TempAlarm] >= s[TempAlarm]
        BY <1>7, <2>4, <4>1 DEF Settled, Power!NewTemp
      <4>3. State'[TempAlarm] = State[TempAlarm]
        BY <1>3, <1>5, <1>6, <4>2, LatchTakes
      <4>4. GetState(TempAlarm)' = GetState(TempAlarm)
        BY <4>3 DEF GetState
      <4> QED
        BY <1>13, <1>15, <2>3, <2>4, <3>1, <4>1, <4>4
    <3> QED
      BY <2>2, <3>1
  <2>7. \E r \in after : r.RecordType = "PowerData" /\ r.Data.Volt = Volts'
    <3>1. CASE moved
      BY <1>15, <2>2, <3>1
    <3>2. CASE ~moved
      <4>1. ~q.Broadcast /\ Power!Moved(v) = {}
        BY <1>12, <3>2
      <4>2. Volts' = Volts
        BY <1>1, <1>3, <4>1, NothingMoved DEF Power!RunTask
      <4> QED
        BY <2>3, <2>4, <3>2, <4>1, <4>2
    <3> QED
      BY <3>1, <3>2
  <2> QED
    BY <2>1, <2>5, <2>6, <2>7
<1>19. PowerTelemetry'
  BY <1>11, <1>13, <1>18 DEF PowerTelemetry
<1> QED
  BY <1>9, <1>16, <1>17, <1>19

-----------------------------------------------------------------------------
(* The light manager.                                                      *)

\* The worst state in a report of the alarms is the severity of the group.
LEMMA WorstReported ==
    ASSUME AlarmTypeOK
    PROVE  Worst(AlarmReport) = GetGroupState
<1>1. GetGroupState \in Severity
  BY GroupHighest DEF GetGroupState, HighestOf
<1>2. \A a \in Alarms : GetState(a) \in Severity
  BY GetStateTyped
<1>3. GroupIsHighest
  BY TypedShowsHighest
<1>4. Range(AlarmReport) = {GetState(a) : a \in Alarms}
  BY DEF Range, AlarmReport
<1>5. PICK R : R = {GetState(a) : a \in Alarms}
  OBVIOUS
<1>6. GetGroupState \in R
  <2>1. CASE GetGroupState # CLEAR
    BY <1>3, <1>5, <2>1 DEF GroupIsHighest
  <2>2. CASE GetGroupState = CLEAR
    <3>1. TempAlarm \in Alarms
      BY HousekeepingAssumption
    <3>2. GetState(TempAlarm) <= CLEAR
      BY <1>3, <2>2, <3>1 DEF GroupIsHighest
    <3>3. GetState(TempAlarm) = CLEAR
      BY <1>2, <3>1, <3>2 DEF Severity, CLEAR, WARNING, ERROR
    <3> QED
      BY <1>5, <2>2, <3>1, <3>3
  <2> QED
    BY <2>1, <2>2
<1>7. \A t \in R : t <= GetGroupState
  BY <1>3, <1>5 DEF GroupIsHighest
<1>8. R \subseteq Nat
  BY <1>2, <1>5 DEF Severity, CLEAR, WARNING, ERROR
<1>9. \A w \in R : (\A t \in R : t <= w) => w = GetGroupState
  BY <1>6, <1>7, <1>8
<1> QED
  BY <1>4, <1>5, <1>6, <1>7, <1>9 DEF Worst

\* The reports about the channels are of a kind of their own.
LEMMA ChannelsReported ==
    /\ IsList(Light!ChannelReports)
    /\ \A i \in 1 .. Len(Light!ChannelReports) :
         Light!ChannelReports[i].RecordType = "LightChannels"
<1>1. PICK r : r = Light!Report("Lighting", "LightChannels", [c \in Chanels |-> 0])
  OBVIOUS
<1>2. r.RecordType = "LightChannels"
  BY <1>1 DEF Light!Report
<1>3. PICK n : n = Cardinality(Light!Changed)
  OBVIOUS
<1>4. n \in Nat
  <2>1. IsFiniteSet(Light!Changed)
    BY HousekeepingAssumption, FS_Subset DEF Light!Changed
  <2> QED
    BY <1>3, <2>1, FS_CardinalityType
<1>5. Light!ChannelReports = [i \in 1 .. n |-> r]
  <2>1. Light!ChannelReports = [i \in 1 .. Cardinality(Light!Changed) |->
            Light!Report("Lighting", "LightChannels", [c \in Chanels |-> 0])]
    BY DEF Light!ChannelReports, Light!Cardinality, Cardinality
  <2> QED
    BY <1>1, <1>3, <2>1
<1>6. [i \in 1 .. n |-> r] \in Seq({r})
  BY <1>4
<1>7. Len([i \in 1 .. n |-> r]) = n
  BY <1>4
<1> QED
  BY <1>2, <1>4, <1>5, <1>6, <1>7 DEF IsList

LEMMA LightReported ==
    ASSUME NEW q, IsMailbox(q), q.Module = "Lighting",
           NEW p, p = Light!LightReports(q)
    PROVE  /\ IsMailbox(p) /\ p.Broadcast = FALSE
           /\ q.Broadcast \/ Light!NewAlarm => Informs(p, Report("Lighting", "Alarms", AlarmReport))
           /\ q.Broadcast \/ LastPermission # perm
                => Informs(p, Report("Lighting", "Permission", perm))
           /\ Keeps(p, q, {"LightChannels"}
                 \cup (IF q.Broadcast \/ Light!NewAlarm THEN {"Alarms"} ELSE {})
                 \cup (IF q.Broadcast \/ LastPermission # perm THEN {"Permission"} ELSE {}))
<1>1. PICK n1, n2 : /\ n1 = (q.Broadcast \/ Light!NewAlarm)
                    /\ n2 = (q.Broadcast \/ LastPermission # perm)
  OBVIOUS
<1>2. PICK r1, r2 : /\ r1 = Report("Lighting", "Alarms", AlarmReport)
                    /\ r2 = Report("Lighting", "Permission", perm)
  OBVIOUS
<1>3. PICK list : list = Light!ChannelReports
  OBVIOUS
<1>4. IsList(list) /\ \A i \in 1 .. Len(list) : list[i].RecordType = "LightChannels"
  BY <1>3, ChannelsReported
<1>5. PICK q0 : q0 = IsBroadcastDone(q)
  OBVIOUS
<1>6. /\ IsMailbox(q0) /\ q0.TxMsgs = q.TxMsgs
      /\ q0.Module = "Lighting" /\ q0.Broadcast = FALSE
  BY <1>5, SameReports
<1>7. PICK q1 : q1 = [q0 EXCEPT !.TxMsgs = @ \o list]
  OBVIOUS
<1>8. /\ IsMailbox(q1) /\ q1.TxMsgs = q.TxMsgs \o list
      /\ q1.Module = "Lighting" /\ q1.Broadcast = FALSE
  <2>1. /\ DOMAIN q1 = QueueFields /\ q1.TxMsgs = q.TxMsgs \o list
        /\ q1.Module = "Lighting" /\ q1.Broadcast = FALSE
    BY <1>6, <1>7 DEF IsMailbox, QueueFields
  <2> QED
    BY <1>4, <2>1, ListConcat DEF IsMailbox
<1>9. PICK q2 : q2 = SendIf(q1, n1, "Alarms", AlarmReport)
  OBVIOUS
<1>10. p = SendIf(q2, n2, "Permission", perm)
  <2>1. Light!AlarmReport = AlarmReport
    BY DEF Light!AlarmReport, AlarmReport, Light!Alarms, Alarms, Light!Range, Range,
           Light!GetState, GetState, Light!CLEAR, Light!WARNING, CLEAR, WARNING
  <2>2. p = Light!SendIf(Light!SendIf(q1, n1, "Alarms", AlarmReport), n2, "Permission", perm)
    BY <1>1, <1>3, <1>5, <1>7, <2>1, ManagersSend DEF Light!LightReports
  <2> QED
    BY <1>9, <2>2, ManagersSend
<1>11. Adds(q2, q1, n1, r1)
  BY <1>2, <1>8, <1>9, SendHeard
<1>12. Adds(p, q2, n2, r2)
  <2>1. IsMailbox(q2) /\ q2.Module = "Lighting"
    BY <1>8, <1>11 DEF Adds
  <2> QED
    BY <1>2, <1>10, <2>1, SendHeard
<1>13. ~SameKind(r1, r2)
  BY <1>2 DEF SameKind, Report
<1>14. ASSUME NEW known
       PROVE  (n1 => r1 \in Heard(known, p.TxMsgs)) /\ (n2 => r2 \in Heard(known, p.TxMsgs))
  <2>1. (n1 => r1 \in Heard(known, q2.TxMsgs)) /\ (n2 => r2 \in Heard(known, p.TxMsgs))
    BY <1>11, <1>12 DEF Adds
  <2> QED
    BY <1>12, <1>13, <2>1 DEF Adds
<1>15. ASSUME NEW known, NEW r \in Heard(known, q.TxMsgs), r.RecordType # "LightChannels",
              (n1 => r.RecordType # "Alarms") /\ (n2 => r.RecordType # "Permission")
       PROVE  r \in Heard(known, p.TxMsgs)
  <2>1. (n1 => ~SameKind(r, r1)) /\ (n2 => ~SameKind(r, r2))
    BY <1>2, <1>15 DEF SameKind, Report
  <2>2. \A i \in 1 .. Len(list) : ~SameKind(r, list[i])
    BY <1>4, <1>15 DEF SameKind
  <2>3. r \in Heard(Heard(known, q.TxMsgs), list)
    BY <2>2, HeardIff
  <2>4. IsList(q.TxMsgs)
    BY DEF IsMailbox
  <2>5. r \in Heard(known, q.TxMsgs \o list)
    BY <1>4, <2>3, <2>4, HeardConcat
  <2>6. r \in Heard(known, q2.TxMsgs)
    BY <1>8, <1>11, <2>1, <2>5 DEF Adds
  <2> QED
    BY <1>12, <2>1, <2>6 DEF Adds
<1>16. (n1 => Informs(p, r1)) /\ (n2 => Informs(p, r2))
  BY <1>14 DEF Informs
<1>17. Keeps(p, q, {"LightChannels"} \cup (IF n1 THEN {"Alarms"} ELSE {})
                    \cup (IF n2 THEN {"Permission"} ELSE {}))
  BY <1>15 DEF Keeps
<1> QED
  BY <1>1, <1>2, <1>8, <1>11, <1>12, <1>16, <1>17 DEF Adds

LEMMA LightStep ==
    ASSUME HouseInv, LightTask
    PROVE  SettledOrFlagged' /\ PowerTelemetry' /\ LightTelemetry' /\ Listed'
<1>1. PICK q, p : q = que["Lighting"] /\ p = Light!LightReports(q)
  OBVIOUS
<1>2. /\ IsMailbox(q) /\ q.Module = "Lighting" /\ que'["Lighting"] = p
      /\ que'["Power"] = que["Power"]
      /\ UNCHANGED << joined, view, alarmVars, powerVars >>
  BY <1>1, ManagersQueues DEF HouseInv, LightTask, Light!RunTask
<1>3. LightLastAlm' = GetGroupState /\ LastPermission' = perm
  BY LightSeesGroup DEF LightTask, Light!RunTask
<1>4. PICK alarm, permission :
        /\ alarm = (q.Broadcast \/ Light!NewAlarm)
        /\ permission = (q.Broadcast \/ LastPermission # perm)
  OBVIOUS
<1>5. PICK r1, r2 : /\ r1 = Report("Lighting", "Alarms", AlarmReport)
                    /\ r2 = Report("Lighting", "Permission", perm)
  OBVIOUS
<1>6. /\ IsMailbox(p)
      /\ alarm => Informs(p, r1)
      /\ permission => Informs(p, r2)
      /\ Keeps(p, q, {"LightChannels"} \cup (IF alarm THEN {"Alarms"} ELSE {})
                        \cup (IF permission THEN {"Permission"} ELSE {}))
  BY <1>1, <1>2, <1>4, <1>5, LightReported
<1>7. /\ r1.RecordType = "Alarms" /\ Worst(r1.Data) = GetGroupState
      /\ r2.RecordType = "Permission"
  BY <1>5, WorstReported DEF Report, HouseInv, HousekeepingTypeOK
<1>8. Listed'
  BY <1>2, <1>6 DEF Listed, HouseInv, IsMailbox
<1>9. SettledOrFlagged' /\ PowerTelemetry'
  BY <1>2 DEF HouseInv, SettledOrFlagged, Settled, PowerTelemetry, Told, GetState,
              alarmVars, powerVars
<1>10. ASSUME joined
       PROVE  /\ Report("Lighting", "Permission", LastPermission') \in Told("Lighting")'
              /\ \E r \in Told("Lighting")' :
                    r.RecordType = "Alarms" /\ Worst(r.Data) = LightLastAlm'
  <2>1. PICK before, after : before = Told("Lighting") /\ after = Told("Lighting")'
    OBVIOUS
  <2>2. (alarm => r1 \in after) /\ (permission => r2 \in after)
    BY <1>2, <1>6, <2>1 DEF Told, Informs
  <2>3. \A r \in before :
          /\ ~alarm /\ r.RecordType = "Alarms" => r \in after
          /\ ~permission /\ r.RecordType = "Permission" => r \in after
    BY <1>1, <1>2, <1>6, <2>1 DEF Told, Keeps
  <2>4. ~q.Broadcast =>
          /\ Report("Lighting", "Permission", LastPermission) \in before
          /\ \E r \in before : r.RecordType = "Alarms" /\ Worst(r.Data) = LightLastAlm
    BY <1>1, <1>10, <2>1 DEF HouseInv, LightTelemetry
  <2>5. r2 \in after
    <3>1. CASE ~permission
      <4>1. ~q.Broadcast /\ LastPermission = perm
        BY <1>4, <3>1
      <4> QED
        BY <1>5, <1>7, <2>3, <2>4, <3>1, <4>1
    <3> QED
      BY <2>2, <3>1
  <2>6. \E r \in after : r.RecordType = "Alarms" /\ Worst(r.Data) = GetGroupState
    <3>1. CASE alarm
      BY <1>7, <2>2, <3>1
    <3>2. CASE ~alarm
      <4>1. ~q.Broadcast /\ LightLastAlm = GetGroupState
        BY <1>4, <3>2, LightSeesGroup DEF Light!NewAlarm
      <4> QED
        BY <2>3, <2>4, <3>2, <4>1
    <3> QED
      BY <3>1, <3>2
  <2> QED
    BY <1>3, <1>5, <2>1, <2>5, <2>6
<1>11. LightTelemetry'
  BY <1>2, <1>10 DEF LightTelemetry
<1> QED
  BY <1>8, <1>9, <1>11

-----------------------------------------------------------------------------
(* All steps.                                                              *)

LEMMA NetworkStep ==
    ASSUME HouseInv, Network
    PROVE  SettledOrFlagged' /\ PowerTelemetry' /\ LightTelemetry' /\ Listed'
<1>1. UNCHANGED << alarmVars, powerVars, lightVars >>
  BY DEF Network
<1>2. \A m \in {"Power", "Lighting"} :
        /\ IsList(que'[m].TxMsgs)
        /\ joined' => \/ que'[m].Broadcast
                     \/ /\ joined /\ Told(m)' = Told(m)
                        /\ que'[m].Broadcast = que[m].Broadcast
  BY NetworkTold DEF HouseInv
<1>3. Listed'
  BY <1>2 DEF Listed
<1>4. SettledOrFlagged'
  BY <1>1, <1>2 DEF HouseInv, SettledOrFlagged, Settled, alarmVars, powerVars
<1>5. PowerTelemetry'
  BY <1>1, <1>2 DEF HouseInv, PowerTelemetry, GetState, alarmVars, powerVars
<1>6. LightTelemetry'
  BY <1>1, <1>2 DEF HouseInv, LightTelemetry, lightVars
<1> QED
  BY <1>3, <1>4, <1>5, <1>6

LEMMA HouseInitInv == HousekeepingInit => HouseInv
<1> SUFFICES ASSUME HousekeepingInit PROVE HouseInv
  OBVIOUS
<1>1. HousekeepingTypeOK
  BY HouseInitTyped
<1>2. joined = FALSE
  BY DEF HousekeepingInit, MailInit
<1>3. Listed
  <2>1. << >> \in Seq({})
    OBVIOUS
  <2>2. \A m \in {"Power", "Lighting"} : que[m].TxMsgs = << >>
    BY HousekeepingAssumption DEF HousekeepingInit, MailInit, NewQueue
  <2> QED
    BY <2>1, <2>2 DEF Listed, IsList
<1> QED
  BY <1>1, <1>2, <1>3 DEF HouseInv, SettledOrFlagged, PowerTelemetry, LightTelemetry

LEMMA HouseStepInv == HouseInv /\ [HousekeepingNext]_houseVars => HouseInv'
<1> SUFFICES ASSUME HouseInv, [HousekeepingNext]_houseVars PROVE HouseInv'
  OBVIOUS
<1>1. HousekeepingTypeOK'
  BY HouseStepTyped DEF HouseInv
<1>2. CASE Network
  BY <1>1, <1>2, NetworkStep DEF HouseInv
<1>3. CASE PowerTask
  BY <1>1, <1>3, PowerStep DEF HouseInv, SettledOrFlagged
<1>4. CASE LightTask
  BY <1>1, <1>4, LightStep DEF HouseInv
<1>5. CASE UNCHANGED houseVars
  <2>1. UNCHANGED << que, joined, view, State, PowerLastAlm, LastTemp, Volts,
                     LightLastAlm, LastPermission >>
    BY <1>5 DEF houseVars, mailVars, alarmVars, powerVars, lightVars
  <2>2. Listed' /\ SettledOrFlagged'
    BY <2>1 DEF HouseInv, Listed, SettledOrFlagged, Settled
  <2>3. PowerTelemetry'
    BY <2>1 DEF HouseInv, PowerTelemetry, Told, GetState
  <2>4. LightTelemetry'
    BY <2>1 DEF HouseInv, LightTelemetry, Told
  <2> QED
    BY <1>1, <2>2, <2>3, <2>4 DEF HouseInv
<1> QED
  BY <1>2, <1>3, <1>4, <1>5 DEF HousekeepingNext

THEOREM HouseInvariant == HousekeepingSpec => []HouseInv
  BY HouseInitInv, HouseStepInv, PTL DEF HousekeepingSpec

\* A connected user knows every alarm of the power manager as it is and the
\* voltages as recorded, or is about to be told, although the severities that
\* news is measured by start as garbage and run apart from the latched ones
\* (PowerManager.cpp:125-153).
THEOREM PowerTold == HousekeepingSpec => []PowerTelemetry
<1>1. HouseInv => PowerTelemetry
  BY DEF HouseInv
<1> QED
  BY <1>1, HouseInvariant, PTL

\* A connected user knows the permission and the worst severity that decided
\* about the lights, or is about to be told (LightManager.cpp:128-165).
THEOREM LightTold == HousekeepingSpec => []LightTelemetry
<1>1. HouseInv => LightTelemetry
  BY DEF HouseInv
<1> QED
  BY <1>1, HouseInvariant, PTL
=============================================================================
