---------------------------- MODULE Navigation ----------------------------
(***************************************************************************)
(* The navigation task (src/src/Navigation), which runs ten times a second *)
(* and is the only caller of SubControl::Update().  It takes the commands  *)
(* from its queue, changes the control vector and steers the motors.       *)
(*                                                                         *)
(* The task runs to its end on the main thread, so RunTask is one step.    *)
(* In this module the rest of the program is any use of the interfaces:    *)
(* lines are stored, a client is announced, queued reports are taken, the  *)
(* permission is set, an alarm is set.                                     *)
(***************************************************************************)
EXTENDS SubControl

CONSTANTS
    Commands,       \* lines a user may send to this module
    MaxRx,          \* bound: lines waiting for the task
    MaxTx           \* bound: reports waiting when the task starts

VARIABLE CVec       \* the control vector

navVars == << que, perm, alarmVars, motorVars, CVec >>

Channels == {"Forward", "Strafe", "Dive", "Turn"}

\* The field of CVec a channel sets.
Field == [Forward |-> "x", Strafe |-> "y", Dive |-> "z", Turn |-> "yaw"]
Fields == {"x", "y", "z", "yaw", "roll", "pitch"}

\* A line has Module, Packet, Mode, Ch and Value.  Packet may be "none" (no
\* such key); a SetVector line has a mode and a channel.
ASSUME NavAssumption ==
    /\ {"Motor", "Navigation"} \subseteq Modules
    /\ \A l \in Commands : l.Value \in Int

NavTypeOK ==
    /\ SubControlTypeOK
    /\ AlarmTypeOK
    /\ DOMAIN que = Modules
    /\ \A m \in Modules : IsQueue(que[m], m, Commands)
    /\ perm \in BOOLEAN
    /\ CVec \in [Fields -> Int]

NavInit ==
    /\ que = [m \in Modules |-> NewQueue(m)]
    /\ perm = FALSE
    /\ AlarmInit
    /\ SubControlInit
    /\ CVec = [f \in Fields |-> 0]

-----------------------------------------------------------------------------
(* Navigation::Run_Task().                                                 *)

\* Parse() acts on these lines: the mode must be Raw; the channel need not be
\* known for the reply to be sent.
Understood(l) == l.Packet = "SetVector" /\ l.Mode = "Raw"

Sets(l, f) == Understood(l) /\ l.Ch \in Channels /\ Field[l.Ch] = f

\* Mutant of ParseAll: the first line that sets a field wins.
ParseAllFirst(lines) ==
    [f \in Fields |->
        LET setters == {i \in 1 .. Len(lines) : Sets(lines[i], f)}
        IN  IF setters = {}
            THEN CVec[f]
            ELSE lines[CHOOSE i \in setters : \A j \in setters : j >= i].Value]

\* Each field has the value of the last line that sets it.
ParseAll(lines) ==
    [f \in Fields |->
        LET setters == {i \in 1 .. Len(lines) : Sets(lines[i], f)}
        IN  IF setters = {}
            THEN CVec[f]
            ELSE lines[CHOOSE i \in setters : \A j \in setters : j <= i].Value]

UpdateVector(vec) ==
    [X |-> vec["x"], Y |-> vec["y"], Z |-> vec["z"],
     ROLL |-> vec["roll"], PITCH |-> vec["pitch"], YAW |-> vec["yaw"]]

VectorReport(vec) == [ch \in Channels |-> vec[Field[ch]]]

\* The navigation's queue after the task: all lines taken, and a report if a
\* line was understood or a client has joined.
NavReports(q, vec) ==
    LET asked == q.Broadcast \/ \E i \in 1 .. Len(q.RxMsgs) : Understood(q.RxMsgs[i])
    IN  SendIf(IsBroadcastDone(ReceiveAll(q)), asked, "ReportVectors", VectorReport(vec))

RunTask ==
    /\ CVec' = ParseAll(que["Navigation"].RxMsgs)
    /\ Update(UpdateVector(CVec'))
    /\ que' = [que EXCEPT !["Motor"] = UpdateReports(@, UpdateVector(CVec')),
                          !["Navigation"] = NavReports(@, CVec')]
    /\ UNCHANGED << perm, alarmVars >>

-----------------------------------------------------------------------------
(* The rest of the program.                                                *)

others == << alarmVars, motorVars, CVec >>

\* SubProtocol hands over a line.
Command(line) ==
    /\ Len(que["Navigation"].RxMsgs) < MaxRx
    /\ que' = [m \in Modules |-> Store(que[m], line)]
    /\ UNCHANGED << perm, others >>

\* SubProtocol announces a client.
Announce ==
    /\ que' = [m \in Modules |-> SetBroadcast(que[m])]
    /\ UNCHANGED << perm, others >>

\* SubProtocol takes the reports.
Collect ==
    /\ que' = [m \in Modules |-> GetAllMsgs(que[m])]
    /\ UNCHANGED << perm, others >>

Permit(allowed) ==
    /\ perm' = allowed
    /\ UNCHANGED << que, others >>

\* The power manager's task sets its alarms.
Measure ==
    /\ \E states \in [Alarms -> Severity] : SetAll(states)
    /\ UNCHANGED << que, perm, motorVars, CVec >>

Task ==
    /\ \A m \in Modules : Len(que[m].TxMsgs) <= MaxTx
    /\ RunTask

NavNext ==
    \/ Task
    \/ \E line \in Commands : Command(line)
    \/ Announce
    \/ Collect
    \/ \E allowed \in BOOLEAN : Permit(allowed)
    \/ Measure

\* The task manager runs the task periodically, and the reports are taken
\* by every call of SubProtocol::Run().
NavFairness == WF_navVars(Task) /\ WF_navVars(Collect)

NavSpec == NavInit /\ [][NavNext]_navVars /\ NavFairness

-----------------------------------------------------------------------------
(* Properties.                                                             *)

\* A task that found the permission withdrawn has told the PWM module to stop
\* every motor, at once and whatever the vector and the ramp say.
DisabledMeansStopped ==
    ~LastPermission => \A m \in Motors : duty[m] = 0

\* The power of a motor never jumps up by more than the ramp, also over a
\* withdrawal and a return of the permission (Motor.cpp:89-98), and never
\* leaves the range 0 .. MaxPower.
RampLimited ==
    [][\A m \in Motors : /\ duty'[m] - duty[m] <= Ramp
                         /\ duty'[m] \in MinPower .. MaxPower]_navVars

\* While the commands and the permission stand still the motors reach the
\* power the vector asks for, and stay there.
Steered ==
    \A m \in Motors : duty[m] = Target(mult[m], UpdateVector(CVec))

Settles ==
    <>[](perm /\ ~ReceiveReady(que["Navigation"])) => <>[]Steered
=============================================================================
