---------------------------- MODULE ROSVControl ----------------------------
(***************************************************************************)
(* The main loop of ROSV_Control (src/src/main.cpp) with the network side  *)
(* and the motors: SubProtocol::Run() and the navigation task take turns   *)
(* on the main thread and share the queues and the permission "Clients",   *)
(* while users come, command and go.                                       *)
(***************************************************************************)
EXTENDS SubProtocol

CONSTANTS Ramp, MaxPower, AlarmList, Muteable, Latching, Motors, mult, MaxRx

\* "Motor" and "Navigation" are added to SubProtocol as the others are; the
\* rest is what Motor, SubControl and Navigation assume of their constants.
ASSUME SystemAssumption ==
    /\ {"Motor", "Navigation"} \subseteq Modules
    /\ Ramp \in Nat \ {0}
    /\ MaxPower \in Nat
    /\ mult \in [Motors -> [X : Int, Y : Int, Z : Int, ROLL : Int, PITCH : Int, YAW : Int]]
    /\ \A l \in Lines : l.Value \in Int

VARIABLES State, Muted, Value, LastValue, LastAlm, LastPermission, duty, CVec

\* The navigation, sharing que and perm with SubProtocol by their names.
Nav == INSTANCE Navigation WITH Commands <- Lines

controlVars == << State, Muted, Value, LastValue, LastAlm, LastPermission, duty, CVec >>
allVars     == << vars, controlVars >>

\* The queue of every module is the same object for both sides.
SystemInit == Init /\ Nav!NavInit

\* SubProt->Run(), and the users, who act at any time.
Network ==
    /\ Run \/ World
    /\ UNCHANGED controlVars

\* RunTasks() runs the navigation.  (Bound: at most MaxTx reports of a module
\* wait when it does.)
NavigationTask ==
    /\ alive /\ pc = "main"
    /\ \A m \in {"Motor", "Navigation"} : Len(que[m].TxMsgs) <= MaxTx
    /\ Nav!RunTask
    /\ UNCHANGED << tcpVars, Clients, pc, heard, view >>

\* The power manager's task sets its alarms.
PowerTask ==
    /\ alive /\ pc = "main"
    /\ Nav!Measure
    /\ UNCHANGED << tcpVars, Clients, pc, heard, view >>

SystemNext == Network \/ NavigationTask \/ PowerTask

\* The main loop goes round for ever: it calls Run() again and again, and the
\* task manager finds the navigation due again and again, ten times a second.
SystemFairness ==
    /\ WF_allVars(Run /\ UNCHANGED controlVars)
    /\ SF_allVars(NavigationTask)

SystemSpec == SystemInit /\ [][SystemNext]_allVars /\ SystemFairness

-----------------------------------------------------------------------------
(* Refinement: the network side uses the navigation as its module says.    *)

NavView ==
    INSTANCE Navigation WITH
        Commands <- Lines,
        Modules  <- {"Motor", "Navigation"},
        que      <- [m \in {"Motor", "Navigation"} |-> que[m]]

\* Every behaviour of the main loop is one of the navigation in the company
\* that module allows, its fairness included.
ImplementsNavigation == NavView!NavSpec

-----------------------------------------------------------------------------
(* Properties of the whole.                                                *)

\* "Enable motors when a client connects, disable when it disconnects."
\* (Permissions.h:10): once no user is left, the motors are told to stop.
NobodyLeft == \A c \in Conns : peer[c] # "open" /\ c \notin Range(backlog)

MotorsStopWithoutUsers ==
    <>[]NobodyLeft => <>[](\A m \in Motors : duty[m] = 0)

\* The same without time: no task gives a motor power when the list of
\* clients that Run() left is empty (SubProtocol.cpp:114, SubControl.cpp:136),
\* whatever the control vector still holds.
PowerOnlyForUsers ==
    [][NavigationTask /\ Clients = << >> => \A m \in Motors : duty'[m] = 0]_allVars

\* A user who stays, when nobody else commands, is obeyed: in the end every
\* motor has the power its last command asks for.
LastForward(c) == Last(sent[c]).Value

Obeyed(c) ==
    sent[c] # << >> =>
        /\ CVec["x"] = LastForward(c)
        /\ \A m \in Motors :
             duty[m] = Nav!Target(mult[m], Nav!UpdateVector(CVec))

SoleUserObeyed ==
    \A c \in Conns :
        <>[](isConnected(c) /\ peer[c] = "open" /\ \A d \in Conns \ {c} : sent[d] = << >>)
            => <>[]Obeyed(c)

\* What a connected user has been told, together with what is on its way, is
\* what the motors and the vector are, except while an announcement is due:
\* no change is lost between the tasks, the queues and the sockets, although
\* reports are sent on change only and users join in between
\* (SubProtocol.cpp:99-118, SubControl.cpp:114-167, Navigation.cpp:49).
Told(c, m) == Heard(view[c], que[m].TxMsgs)

TelemetryCurrent ==
    \A c \in Watched \cap Range(Clients) : alive /\ isConnected(c) /\ peer[c] = "open" =>
        /\ que["Motor"].Broadcast
             \/ { Report("Motor", "MotorData", LastValue),
                  Report("Motor", "Permissions", LastPermission) } \subseteq Told(c, "Motor")
        /\ que["Navigation"].Broadcast
             \/ Report("Navigation", "ReportVectors", Nav!VectorReport(CVec))
                    \in Told(c, "Navigation")
=============================================================================
