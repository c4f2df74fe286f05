---------------------------- MODULE SubControl ----------------------------
(***************************************************************************)
(* The motors (src/src/SubControl): Update() turns the vector of the       *)
(* navigation into the power of every motor, if the permission "Clients"   *)
(* allows, and reports what changed.                                       *)
(***************************************************************************)
EXTENDS Motor, Alarm, MsgQueue

CONSTANTS
    Motors,         \* the motors of motors.json
    mult            \* "mul" of each: a function from Axes

ASSUME SubControlAssumption ==
    mult \in [Motors -> [X : Int, Y : Int, Z : Int, ROLL : Int, PITCH : Int, YAW : Int]]

VARIABLES
    que,            \* the MsgQueue of every module
    perm,           \* the permission "Clients", set by SubProtocol
    Value,          \* Motor::Value of each motor
    LastValue,      \* Motor::LastValue of each motor
    LastAlm,        \* group severity the last time it was looked at
    LastPermission, \* permission the last time it was looked at
    duty            \* external: what the PWM module was last told

motorVars == << Value, LastValue, LastAlm, LastPermission, duty >>

\* LastValue of a motor that was never run.
NoValue == -1

SubControlTypeOK ==
    /\ Value \in [Motors -> MinPower .. MaxPower]
    /\ LastValue \in [Motors -> {NoValue} \cup (MinPower .. MaxPower)]
    /\ LastAlm \in Unset
    /\ LastPermission \in BOOLEAN
    /\ duty \in [Motors -> MinPower .. MaxPower]

\* The constructor leaves LastAlm and LastPermission uninitialised.
SubControlInit ==
    /\ Value = [m \in Motors |-> 0]
    /\ LastValue = [m \in Motors |-> NoValue]
    /\ LastAlm \in Unset
    /\ LastPermission \in BOOLEAN
    /\ duty = [m \in Motors |-> 0]

NoPower == [a \in Axes |-> 0]

\* The power of each motor after a run on this vector.
RunMotors(update) ==
    [m \in Motors |->
        Approach(Value[m], Target(mult[m], IF perm THEN update ELSE NoPower))]

\* Mutant of SendMotor: a newcomer is not told the power of the motors.
SendMotorChanged(all, power) == \E m \in Motors : LastValue[m] # power[m]

SendMotor(all, power) == all \/ \E m \in Motors : LastValue[m] # power[m]

\* The reports Update() queues, after the queue's broadcast flag was cleared.
UpdateReports(q, update) ==
    LET power == RunMotors(update)
        all == q.Broadcast
        motors == SendIf(IsBroadcastDone(q), SendMotor(all, power), "MotorData", power)
        alarms == SendIf(motors, all \/ LastAlm # GetGroupState, "Alarm", AlarmReport)
    IN  SendIf(alarms, all \/ LastPermission # perm, "Permissions", perm)

Update(update) ==
    /\ Value' = RunMotors(update)
    /\ LastValue' = Value'
    /\ LastAlm' = GetGroupState
    /\ LastPermission' = perm
    /\ duty' = Value'
=============================================================================
