------------------------- MODULE NavigationProofs -------------------------
(***************************************************************************)
(* Proofs about Navigation: the types, that motors are stopped once the    *)
(* permission is seen withdrawn, and the ramp, for every set of motors,    *)
(* every mixing matrix, ramp and limit, and every set of commands.         *)
(*                                                                         *)
(* NavInv is inductive.  Neither property is by itself: the power of a     *)
(* motor rises by at most Ramp between two tasks only because what the PWM *)
(* module was told is still the Value the ramp starts from (ToldIsValue),  *)
(* and "stopped" needs the powers to be naturals, which is the type.       *)
(***************************************************************************)
EXTENDS Navigation, AlarmProofs

ToldIsValue == duty = Value

NavInv == NavTypeOK /\ DisabledMeansStopped /\ ToldIsValue

-----------------------------------------------------------------------------
(* One motor.                                                              *)

LEMMA MixTyped ==
    ASSUME NEW u \in [X : Int, Y : Int, Z : Int, ROLL : Int, PITCH : Int, YAW : Int],
           NEW p \in [Axes -> Int]
    PROVE  Mix(u, p) \in Int
<1>1. /\ u.X \in Int /\ u.Y \in Int /\ u.Z \in Int
      /\ u.ROLL \in Int /\ u.PITCH \in Int /\ u.YAW \in Int
  OBVIOUS
<1>2. /\ p.X \in Int /\ p.Y \in Int /\ p.Z \in Int
      /\ p.ROLL \in Int /\ p.PITCH \in Int /\ p.YAW \in Int
  BY DEF Axes
<1>3. \A i, j \in Int : i * j \in Int
  OBVIOUS
<1>4. /\ u.X * p.X \in Int /\ u.Y * p.Y \in Int /\ u.Z * p.Z \in Int
      /\ u.ROLL * p.ROLL \in Int /\ u.PITCH * p.PITCH \in Int /\ u.YAW * p.YAW \in Int
  BY <1>1, <1>2, <1>3
<1>5. \A i, j \in Int : i + j \in Int
  OBVIOUS
<1>6. QED
  BY <1>4, <1>5 DEF Mix

LEMMA ClampTyped ==
    ASSUME NEW t \in Int
    PROVE  Clamp(t) \in MinPower .. MaxPower
BY MotorAssumption DEF Clamp, MinPower

\* The power a motor is given is in range, and at most Ramp above the last.
LEMMA ApproachBounded ==
    ASSUME NEW v \in MinPower .. MaxPower, NEW t \in MinPower .. MaxPower
    PROVE  /\ Approach(v, t) \in MinPower .. MaxPower
           /\ Approach(v, t) - v <= Ramp
           /\ t = 0 => Approach(v, t) = 0
BY MotorAssumption DEF Approach, MinPower

\* Without power on any axis every motor has to stop, whatever its mixing.
LEMMA NoPowerStops ==
    ASSUME NEW u \in [X : Int, Y : Int, Z : Int, ROLL : Int, PITCH : Int, YAW : Int]
    PROVE  Target(u, NoPower) = 0
<1>1. /\ u.X \in Int /\ u.Y \in Int /\ u.Z \in Int
      /\ u.ROLL \in Int /\ u.PITCH \in Int /\ u.YAW \in Int
  OBVIOUS
<1>2. /\ NoPower.X = 0 /\ NoPower.Y = 0 /\ NoPower.Z = 0
      /\ NoPower.ROLL = 0 /\ NoPower.PITCH = 0 /\ NoPower.YAW = 0
  BY DEF NoPower, Axes
<1>3. \A i \in Int : i * 0 = 0
  OBVIOUS
<1>4. Mix(u, NoPower) = 0
  BY <1>1, <1>2, <1>3 DEF Mix
<1>5. QED
  BY <1>4, MotorAssumption DEF Target, Clamp, MinPower

\* All the motors in one task.
LEMMA RunMotorsBounded ==
    ASSUME SubControlTypeOK, perm \in BOOLEAN, NEW p \in [Axes -> Int]
    PROVE  /\ RunMotors(p) \in [Motors -> MinPower .. MaxPower]
           /\ \A m \in Motors : RunMotors(p)[m] - Value[m] <= Ramp
           /\ ~perm => \A m \in Motors : RunMotors(p)[m] = 0
<1> DEFINE update == IF perm THEN p ELSE NoPower
           target(m) == Target(mult[m], update)
<1>1. update \in [Axes -> Int]
  BY DEF NoPower
<1>2. ASSUME NEW m \in Motors
      PROVE  /\ target(m) \in MinPower .. MaxPower
             /\ ~perm => target(m) = 0
  <2>1. mult[m] \in [X : Int, Y : Int, Z : Int, ROLL : Int, PITCH : Int, YAW : Int]
    BY SubControlAssumption
  <2>2. target(m) \in MinPower .. MaxPower
    BY <1>1, <2>1, MixTyped, ClampTyped DEF Target
  <2>3. ~perm => target(m) = 0
    BY <2>1, NoPowerStops
  <2>4. QED
    BY <2>2, <2>3
<1>3. RunMotors(p) = [m \in Motors |-> Approach(Value[m], target(m))]
  BY DEF RunMotors
<1> HIDE DEF target
<1>4. ASSUME NEW m \in Motors
      PROVE  /\ Approach(Value[m], target(m)) \in MinPower .. MaxPower
             /\ Approach(Value[m], target(m)) - Value[m] <= Ramp
             /\ ~perm => Approach(Value[m], target(m)) = 0
  BY <1>2, ApproachBounded DEF SubControlTypeOK
<1>5. QED
  BY <1>3, <1>4
-----------------------------------------------------------------------------
(* The queues and the vector.                                              *)

LEMMA QueueOps ==
    ASSUME NEW m, NEW q, IsQueue(q, m, Commands)
    PROVE  /\ IsQueue(SetBroadcast(q), m, Commands)
           /\ IsQueue(IsBroadcastDone(q), m, Commands)
           /\ IsQueue(ReceiveAll(q), m, Commands)
           /\ IsQueue(GetAllMsgs(q), m, Commands)
           /\ \A line \in Commands : IsQueue(Store(q, line), m, Commands)
           /\ \A r, d : IsQueue(Send(q, r, d), m, Commands)
BY DEF IsQueue, QueueFields, SetBroadcast, IsBroadcastDone, ReceiveAll, GetAllMsgs,
   Store, Send

LEMMA SendIfQueue ==
    ASSUME NEW m, NEW q, IsQueue(q, m, Commands), NEW needed \in BOOLEAN, NEW r, NEW d
    PROVE  IsQueue(SendIf(q, needed, r, d), m, Commands)
BY QueueOps DEF SendIf

\* The vector takes the value of some line, the last one that sets the field.
LEMMA ParseAllTyped ==
    ASSUME CVec \in [Fields -> Int], NEW lines \in Seq(Commands)
    PROVE  ParseAll(lines) \in [Fields -> Int]
<1> SUFFICES ASSUME NEW f \in Fields
             PROVE  ParseAll(lines)[f] \in Int
  BY DEF ParseAll
<1> DEFINE setters == {i \in 1 .. Len(lines) : Sets(lines[i], f)}
<1>1. Len(lines) \in Nat /\ \A i \in 1 .. Len(lines) : lines[i] \in Commands
  OBVIOUS
<1>2. ParseAll(lines)[f] =
        IF setters = {} THEN CVec[f]
        ELSE lines[CHOOSE i \in setters : \A j \in setters : j <= i].Value
  BY DEF ParseAll
<1>3. setters \subseteq 0 .. Len(lines) /\ setters \subseteq 1 .. Len(lines)
  BY <1>1
<1> HIDE DEF setters
<1>4. ASSUME setters # {}
      PROVE  (CHOOSE i \in setters : \A j \in setters : j <= i) \in setters
  <2>1. \E i \in setters : \A j \in setters : j <= i
    BY <1>1, <1>3, <1>4, HasMax
  <2>2. QED
    BY <2>1
<1>5. QED
  BY <1>1, <1>2, <1>3, <1>4, NavAssumption

LEMMA UpdateVectorTyped ==
    ASSUME NEW v \in [Fields -> Int]
    PROVE  UpdateVector(v) \in [Axes -> Int]
<1>1. UpdateVector(v) = [a \in Axes |-> UpdateVector(v)[a]]
  BY DEF UpdateVector, Axes
<1>2. \A a \in Axes : UpdateVector(v)[a] \in Int
  BY DEF UpdateVector, Axes, Fields
<1>3. QED
  BY <1>1, <1>2

-----------------------------------------------------------------------------
(* The task.                                                               *)

LEMMA TaskStep ==
    ASSUME NavInv, RunTask
    PROVE  /\ NavInv'
           /\ \A m \in Motors : /\ duty'[m] - duty[m] <= Ramp
                                /\ duty'[m] \in MinPower .. MaxPower
<1> DEFINE p == UpdateVector(CVec')
<1>1. IsQueue(que["Navigation"], "Navigation", Commands)
      /\ IsQueue(que["Motor"], "Motor", Commands)
  BY NavAssumption DEF NavInv, NavTypeOK
<1>2. CVec' \in [Fields -> Int]
  <2>1. que["Navigation"].RxMsgs \in Seq(Commands)
    BY <1>1 DEF IsQueue
  <2>2. QED
    BY <2>1, ParseAllTyped DEF RunTask, NavInv, NavTypeOK
<1>3. p \in [Axes -> Int]
  BY <1>2, UpdateVectorTyped
<1>4. /\ Value' = RunMotors(p) /\ LastValue' = Value' /\ duty' = Value'
      /\ LastAlm' = GetGroupState /\ LastPermission' = perm
      /\ UNCHANGED << perm, State, Muted >>
  BY DEF RunTask, Update, alarmVars
<1> HIDE DEF p
<1>5. /\ Value' \in [Motors -> MinPower .. MaxPower]
      /\ \A m \in Motors : Value'[m] - Value[m] <= Ramp
      /\ ~perm => \A m \in Motors : Value'[m] = 0
  BY <1>3, <1>4, RunMotorsBounded DEF NavInv, NavTypeOK
<1>6. GetGroupState \in Severity
  BY GroupHighest DEF NavInv, NavTypeOK, GetGroupState, HighestOf
<1>7. SubControlTypeOK' /\ AlarmTypeOK'
  BY <1>4, <1>5, <1>6 DEF SubControlTypeOK, Unset, AlarmTypeOK, NavInv, NavTypeOK
<1>8. DOMAIN que' = Modules /\ \A m \in Modules : IsQueue(que[m], m, Commands)
  BY DEF RunTask, NavInv, NavTypeOK
<1>9. /\ que'["Motor"] = UpdateReports(que["Motor"], UpdateVector(CVec'))
      /\ que'["Navigation"] = NavReports(que["Navigation"], CVec')
      /\ \A m \in Modules \ {"Motor", "Navigation"} : que'[m] = que[m]
  BY NavAssumption DEF RunTask, NavInv, NavTypeOK
<1>10. IsQueue(que'["Motor"], "Motor", Commands)
  <2>1. que["Motor"].Broadcast \in BOOLEAN
    BY <1>1 DEF IsQueue
  <2> DEFINE all == que["Motor"].Broadcast
             motors == SendIf(IsBroadcastDone(que["Motor"]),
                              SendMotor(all, RunMotors(UpdateVector(CVec'))),
                              "MotorData", RunMotors(UpdateVector(CVec')))
             alarms == SendIf(motors, all \/ LastAlm # GetGroupState, "Alarm", AlarmReport)
  <2>2. IsQueue(motors, "Motor", Commands)
    BY <1>1, <2>1, QueueOps, SendIfQueue DEF SendMotor
  <2>3. IsQueue(alarms, "Motor", Commands)
    <3> HIDE DEF motors
    <3>1. QED
      BY <2>1, <2>2, SendIfQueue
  <2>4. que'["Motor"] = SendIf(alarms, all \/ LastPermission # perm, "Permissions", perm)
    BY <1>9 DEF UpdateReports
  <2> HIDE DEF alarms
  <2>5. QED
    BY <2>1, <2>3, <2>4, SendIfQueue
<1>11. IsQueue(que'["Navigation"], "Navigation", Commands)
  <2>1. IsQueue(IsBroadcastDone(ReceiveAll(que["Navigation"])), "Navigation", Commands)
    BY <1>1, QueueOps
  <2>2. que["Navigation"].Broadcast \in BOOLEAN
    BY <1>1 DEF IsQueue
  <2>3. QED
    BY <1>9, <2>1, <2>2, SendIfQueue DEF NavReports
<1>12. NavTypeOK'
  BY <1>2, <1>4, <1>7, <1>8, <1>9, <1>10, <1>11 DEF NavInv, NavTypeOK
<1>13. DisabledMeansStopped' /\ ToldIsValue'
  BY <1>4, <1>5 DEF DisabledMeansStopped, ToldIsValue
<1>14. \A m \in Motors : /\ duty'[m] - duty[m] <= Ramp
                         /\ duty'[m] \in MinPower .. MaxPower
  BY <1>4, <1>5 DEF NavInv, ToldIsValue
<1>15. QED
  BY <1>12, <1>13, <1>14 DEF NavInv

-----------------------------------------------------------------------------
(* The rest of the program.                                                *)

\* The steps that change no more than the queues and the permission.
LEMMA QueueStep ==
    ASSUME NavInv, UNCHANGED others, perm' \in BOOLEAN,
           DOMAIN que' = Modules, \A m \in Modules : IsQueue(que'[m], m, Commands)
    PROVE  NavInv' /\ duty' = duty
BY DEF NavInv, NavTypeOK, SubControlTypeOK, AlarmTypeOK, DisabledMeansStopped,
   ToldIsValue, others, alarmVars, motorVars

LEMMA MeasureStep ==
    ASSUME NavInv, Measure
    PROVE  NavInv' /\ duty' = duty
<1>1. AlarmTypeOK'
  <2>1. PICK states \in [Alarms -> Severity] : SetAll(states)
    BY DEF Measure
  <2>2. QED
    BY <2>1, SetAllTyped DEF NavInv, NavTypeOK
<1>2. QED
  BY <1>1 DEF Measure, NavInv, NavTypeOK, SubControlTypeOK, DisabledMeansStopped,
     ToldIsValue, motorVars

LEMMA NavStep ==
    ASSUME NavInv, [NavNext]_navVars
    PROVE  /\ NavInv'
           /\ [\A m \in Motors : /\ duty'[m] - duty[m] <= Ramp
                                 /\ duty'[m] \in MinPower .. MaxPower]_navVars
<1> DEFINE Limited == \A m \in Motors : /\ duty'[m] - duty[m] <= Ramp
                                        /\ duty'[m] \in MinPower .. MaxPower
<1>1. ASSUME duty' = duty PROVE Limited
  BY <1>1, MotorAssumption DEF NavInv, NavTypeOK, SubControlTypeOK, MinPower
<1>2. /\ DOMAIN que = Modules /\ perm \in BOOLEAN
      /\ \A m \in Modules : IsQueue(que[m], m, Commands)
  BY DEF NavInv, NavTypeOK
<1>3. CASE Task
  BY <1>3, TaskStep DEF Task
<1>4. ASSUME NEW line \in Commands, Command(line) PROVE NavInv' /\ Limited
  <2>1. que' = [m \in Modules |-> Store(que[m], line)] /\ UNCHANGED << perm, others >>
    BY <1>4 DEF Command
  <2>2. QED
    BY <1>1, <1>2, <2>1, QueueOps, QueueStep
<1>5. CASE Announce
  <2>1. que' = [m \in Modules |-> SetBroadcast(que[m])] /\ UNCHANGED << perm, others >>
    BY <1>5 DEF Announce
  <2>2. QED
    BY <1>1, <1>2, <2>1, QueueOps, QueueStep
<1>6. CASE Collect
  <2>1. que' = [m \in Modules |-> GetAllMsgs(que[m])] /\ UNCHANGED << perm, others >>
    BY <1>6 DEF Collect
  <2>2. QED
    BY <1>1, <1>2, <2>1, QueueOps, QueueStep
<1>7. ASSUME NEW allowed \in BOOLEAN, Permit(allowed) PROVE NavInv' /\ Limited
  <2>1. perm' = allowed /\ que' = que /\ UNCHANGED others
    BY <1>7 DEF Permit
  <2>2. QED
    BY <1>1, <1>2, <1>7, <2>1, QueueStep
<1>8. CASE Measure
  BY <1>1, <1>8, MeasureStep
<1>9. CASE UNCHANGED navVars
  <2>1. que' = que /\ perm' = perm /\ UNCHANGED others
    BY <1>9 DEF navVars, others
  <2>2. QED
    BY <1>1, <1>2, <2>1, QueueStep
<1>10. QED
  BY <1>3, <1>4, <1>5, <1>6, <1>7, <1>8, <1>9 DEF NavNext

LEMMA NavInitInv == NavInit => NavInv
<1> SUFFICES ASSUME NavInit PROVE NavInv
  OBVIOUS
<1>1. 0 \in MinPower .. MaxPower
  BY MotorAssumption DEF MinPower
<1>2. SubControlTypeOK /\ DisabledMeansStopped /\ ToldIsValue
  BY <1>1 DEF NavInit, SubControlInit, SubControlTypeOK, DisabledMeansStopped, ToldIsValue
<1>3. AlarmTypeOK
  BY DEF NavInit, AlarmInit, AlarmTypeOK, Severity, CLEAR
<1>4. ASSUME NEW m \in Modules PROVE IsQueue(que[m], m, Commands)
  <2>1. que[m] = NewQueue(m)
    BY DEF NavInit
  <2>2. IsQueue(NewQueue(m), m, Commands)
    BY DEF NewQueue, IsQueue, QueueFields
  <2>3. QED
    BY <2>1, <2>2
<1>5. perm \in BOOLEAN /\ DOMAIN que = Modules
  BY DEF NavInit
<1>6. CVec \in [Fields -> Int]
  BY DEF NavInit
<1>7. NavTypeOK
  BY <1>2, <1>3, <1>4, <1>5, <1>6 DEF NavTypeOK
<1>8. QED
  BY <1>2, <1>7 DEF NavInv

-----------------------------------------------------------------------------
(* The theorems.                                                           *)

THEOREM NavInvariant == NavSpec => []NavInv
<1>1. NavInv /\ [NavNext]_navVars => NavInv'
  BY NavStep
<1>2. QED
  BY <1>1, NavInitInv, PTL DEF NavSpec

\* The queues, the vector and the powers have their types in every behaviour.
THEOREM NavTypeCorrect == NavSpec => []NavTypeOK
<1>1. NavInv => NavTypeOK
  BY DEF NavInv
<1>2. QED
  BY <1>1, NavInvariant, PTL

\* Once a task has seen the permission withdrawn, every motor has been told
\* to stop and stays stopped until a task sees the permission again.
THEOREM NavStops == NavSpec => []DisabledMeansStopped
<1>1. NavInv => DisabledMeansStopped
  BY DEF NavInv
<1>2. QED
  BY <1>1, NavInvariant, PTL

\* No motor's power ever rises by more than Ramp in one task or leaves its
\* range, whatever is commanded, permitted and withdrawn in between.
THEOREM NavRamp == NavSpec => RampLimited
<1>1. NavInv /\ [NavNext]_navVars
        => [\A m \in Motors : /\ duty'[m] - duty[m] <= Ramp
                              /\ duty'[m] \in MinPower .. MaxPower]_navVars
  BY NavStep
<1>2. QED
  BY <1>1, NavInvariant, PTL DEF NavSpec, RampLimited
=============================================================================
