--------------------------- MODULE MCNavigation ---------------------------
(***************************************************************************)
(* Two motors that share the forward axis and oppose each other in turns,  *)
(* as FrontLeft and FrontRight of motors.json do; full power is three      *)
(* ramps.                                                                  *)
(***************************************************************************)
EXTENDS Navigation

MCMotors == {"FrontLeft", "FrontRight"}

Axis(x, yaw) == [X |-> x, Y |-> 0, Z |-> 0, ROLL |-> 0, PITCH |-> 0, YAW |-> yaw]
MCMult == [FrontLeft |-> Axis(1, 1), FrontRight |-> Axis(1, -1)]

MCModules == {"Motor", "Navigation"}
MCUpdateModules == {"Navigation"}

Line(packet, mode, ch, value) ==
    [Module |-> "Navigation", Packet |-> packet, Mode |-> mode, Ch |-> ch,
     Value |-> value]

MCCommands ==
    {Line("SetVector", "Raw", "Forward", v) : v \in {0, 2}}
        \cup {Line("SetVector", "Raw", "Turn", v) : v \in {2}}
        \cup {Line("SetVector", "Raw", "Sideways", 1)}

MCAlarmList == << "Volt" >>
MCLatching == {"Volt"}
=============================================================================
