------------------------------- MODULE Motor -------------------------------
(***************************************************************************)
(* The mixing and ramping of one motor (src/src/Motor): operators without  *)
(* state of their own.                                                     *)
(*                                                                         *)
(* The code computes in floats with the vector divided by 100.  Here all   *)
(* powers are integers in the unit of the vector, which is a hundredth of  *)
(* the unit of the code: its Ramp of 1.0 is 100 here, its Max of 100.0 is  *)
(* 10000.  Rounding is not modelled.                                       *)
(***************************************************************************)
EXTENDS Integers

CONSTANTS
    Ramp,           \* largest increase of a motor's power in one run
    MaxPower        \* Max, the largest power; the smallest is 0

ASSUME MotorAssumption ==
    /\ Ramp \in Nat \ {0}
    /\ MaxPower \in Nat

MinPower == 0

\* The components of the vector, in the order of SubControl::Control.
Axes == {"X", "Y", "Z", "ROLL", "PITCH", "YAW"}

Mix(mult, power) ==
    mult.X * power.X + mult.Y * power.Y + mult.Z * power.Z
      + mult.ROLL * power.ROLL + mult.PITCH * power.PITCH + mult.YAW * power.YAW

\* Mutant of Clamp: no lower limit.
ClampAbove(target) == IF target > MaxPower THEN MaxPower ELSE target

Clamp(target) ==
    IF target > MaxPower THEN MaxPower ELSE IF target < MinPower THEN MinPower ELSE target

Target(mult, power) == Clamp(Mix(mult, power))

\* Mutants of Approach: the ramp also slows the way down; there is no ramp;
\* the last step, smaller than the ramp, is never taken.
ApproachBothWays(value, target) ==
    IF value < target /\ target - value > Ramp THEN value + Ramp
    ELSE IF value - target > Ramp THEN value - Ramp ELSE target
ApproachAtOnce(value, target) == target
ApproachFullSteps(value, target) ==
    IF value < target
    THEN IF target - value > Ramp THEN value + Ramp ELSE value
    ELSE target

\* Up by at most Ramp, down at once.
Approach(value, target) ==
    IF value < target /\ target - value > Ramp THEN value + Ramp ELSE target
=============================================================================
