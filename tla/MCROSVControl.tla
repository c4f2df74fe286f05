--------------------------- MODULE MCROSVControl ---------------------------
(***************************************************************************)
(* One motor on the forward axis, full power two ramps, and users who may  *)
(* command full power.                                                     *)
(***************************************************************************)
EXTENDS ROSVControl

MCOne == {"c1"}
MCTwo == {"c1", "c2"}
MCSecond == {"c2"}

\* Only the first user commands; or each of them does twice.
MCFirstOnce == [c \in Conns |-> IF c = "c1" THEN 1 ELSE 0]
MCTwice == [c \in Conns |-> 2]

MCModList == << "Server", "Motor", "Navigation" >>
MCModules == {"Server", "Motor", "Navigation"}
MCUpdateModules == {"Navigation"}

MCMotors == {"Depth"}
MCMult ==
    [m \in MCMotors |-> [X |-> 1, Y |-> 0, Z |-> 0, ROLL |-> 0, PITCH |-> 0, YAW |-> 0]]

Forward(v) ==
    [Module |-> "Navigation", Packet |-> "SetVector", Mode |-> "Raw",
     Ch |-> "Forward", Value |-> v]
MCLines == {Forward(2)}
MCTwoSpeeds == {Forward(1), Forward(2)}

MCNoAlarms == << >>
MCOneAlarm == << "Volt" >>
MCLatching == {"Volt"}
=============================================================================
