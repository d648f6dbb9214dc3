------------------------- MODULE CartesianValidation -------------------------
(***************************************************************************)
(* The driver's checks on Cartesian jogs and targets.  Millimetres and     *)
(* degrees are counted in tenths.                                          *)
(***************************************************************************)
EXTENDS Integers

Linear == 1 .. 3   \* X, Y, Z
Angular == 4 .. 6  \* W, P, R
Axes == Linear \cup Angular

Magnitude(n) == IF n < 0 THEN -n ELSE n

\* validate_cartesian_offset.
ValidOffset(offset, limits) ==
  /\ \E a \in Axes : offset[a] # 0
  /\ \A a \in Linear : Magnitude(offset[a]) <= limits.translation
  /\ \A a \in Angular : Magnitude(offset[a]) <= limits.rotation

\* validate_cartesian_target.
ValidTarget(values, limits) ==
  limits.enforced =>
    \A a \in Axes : /\ limits.lower[a] < limits.upper[a]
                    /\ limits.lower[a] <= values[a]
                    /\ values[a] <= limits.upper[a]

\* validate_cartesian_velocity; zero asks for the driver's default, which its
\* own parameter check keeps under the maximum.
ValidVelocity(requested, limits) == requested \in 0 .. limits.velocity
=============================================================================
