-------------------------------- MODULE MCTargets --------------------------------
(***************************************************************************)
(* Instance of CartesianTargets for TLC: a linear and an angular axis      *)
(* matter, and the drivers differ in their bounds and their velocity.      *)
(***************************************************************************)
EXTENDS CartesianTargets

Pose(x, r) == [a \in Axes |-> IF a = 1 THEN x ELSE IF a = 6 THEN r ELSE 0]

MCPlans == [values : {Pose(x, r) : x \in 0..2, r \in {0, 2}}, specified : {{}, {1}, {1, 6}},
            velocity : {0, 2, 3}]
MCPoses == {Pose(1, 0), Pose(2, 1)}

Limits(velocity, reported, enforced, position, orientation) ==
  [velocity |-> velocity, reported |-> reported, enforced |-> enforced, lower |-> Pose(0, 0),
   upper |-> [a \in Axes |-> IF a \in Linear THEN position ELSE orientation]]

MCDriverLimits ==
  {Limits(2, 2, TRUE, 1, 2), Limits(2, 2, TRUE, 2, 1), Limits(3, 3, FALSE, 0, 0), Limits(1, 0, FALSE, 0, 0)}
=============================================================================
