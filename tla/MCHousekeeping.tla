--------------------------- MODULE MCHousekeeping ---------------------------
(***************************************************************************)
(* A voltage and the temperature, one light, one user who comes and goes   *)
(* while others may keep the permission.                                   *)
(***************************************************************************)
EXTENDS Housekeeping

MCModules == {"Power", "Lighting"}
MCUpdateModules == {"Lighting"}

MCAlarmList == << "Pwm_Volt", "Pwm_Temp" >>
MCLatching == {"Pwm_Volt", "Pwm_Temp"}
MCChanels == {"Camera"}

\* Good, low although not moved by more than the tolerance, too low.
MCVoltages == {1105, 1095, 900}

\* Good, hot.
MCTemperatures == {2000, 4500}
=============================================================================
