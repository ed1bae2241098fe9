------------------------------- MODULE Speeds -------------------------------
(***************************************************************************)
(* The magnitudes of the velocities b1::MoveController commands, which     *)
(* MoveController keeps as directions only: the clamped yaw speeds, the    *)
(* limit and the scaling of the planar velocity, and the last part of a    *)
(* TurnAround.                                                             *)
(*                                                                         *)
(* Integers: mm and mm/s, mrad and mrad/s.                                 *)
(***************************************************************************)
EXTENDS Integers

Larger(a, b)  == IF a < b THEN b ELSE a
Smaller(a, b) == IF a < b THEN a ELSE b
Magnitude(a)  == IF a < 0 THEN -a ELSE a

Clamp(a, low, high) == Larger(low, Smaller(a, high))

\* Towards the target's heading, and back to the heading to hold.
RotateSpeed(heading_error) == Clamp((6 * heading_error) \div 5, -1000, 1000)
HoldSpeed(heading_error)   == Clamp(heading_error, -500, 500)

kDistanceTolerance == 200

\* The limit of the planar speed at a distance from the target; the loop gets
\* here only outside the tolerance.
LocalLimit(dist, vel) ==
  IF dist >= 200 THEN vel
  ELSE IF dist < 100 THEN Larger(50, Larger(100, dist))
  ELSE Larger(100, dist)

\* A component of the velocity, which is the offset to the target in metres
\* taken per second, scaled down if the offset is longer than the limit.
Scaled(v, offset, limit) ==
  IF offset > limit THEN (Magnitude(v) * limit) \div offset ELSE Magnitude(v)

\* A component of the velocity that is commanded for an offset; turning it
\* into the axes of the robot has not changed its length.
Planar(v, offset, vel) == Scaled(v, offset, LocalLimit(offset, vel))

\* TurnAround: the requested speed, and a profile for the last 0.2 rad.
TurnSpeed(remaining, vel) ==
  IF remaining < 200 THEN Larger(200, 2 * remaining) ELSE Magnitude(vel)
=============================================================================
