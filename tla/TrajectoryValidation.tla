------------------------- MODULE TrajectoryValidation -------------------------
(***************************************************************************)
(* The pure checks on a joint trajectory: what a FollowJointTrajectory     *)
(* goal must satisfy, which of its points are commanded, and at what       *)
(* speed.                                                                  *)
(*                                                                         *)
(* A joint is its place in the driver's joint_names.  Angles and times are *)
(* integers, in units fine enough for the tolerances.                      *)
(***************************************************************************)
EXTENDS Integers, Sequences

CONSTANTS
  JointCount,      \* len(joint_names)
  Lower, Upper,    \* position limit of every joint
  VelocityLimit,   \* velocity limit of every joint, in units per unit of time
  MaxPoints,       \* max_trajectory_points
  MaxJointStep,    \* max_joint_step_rad
  DefaultPercent,  \* joint_velocity_percent
  MaxPercent,      \* max_joint_velocity_percent
  ExecutionMode    \* the execution mode the driver was started with

Joints == 1 .. JointCount

ASSUME ValidationAssumption ==
  /\ JointCount \in Nat \ {0}
  /\ Lower \in [Joints -> Int]
  /\ Upper \in [Joints -> Int]
  /\ \A j \in Joints : Lower[j] < Upper[j]
  /\ VelocityLimit \in [Joints -> Nat \ {0}]
  /\ MaxPoints \in Nat \ {0}
  /\ MaxJointStep \in Nat \ {0}
  /\ DefaultPercent \in 1 .. 100
  /\ MaxPercent \in DefaultPercent .. 100
  /\ ExecutionMode \in {"stop_at_waypoints", "goal_only"}

JointValues == [Joints -> Int]

\* A goal as it arrives: its values follow its own order of the joints.
\* "supported" stands for the fields that must be empty (tolerances, multi-DOF,
\* effort, a start time), accelerations in the right number, and finite values.
RawPoint == [positions : Seq(Int), velocities : Seq(Int), time : Int]
RawTrajectory == [names : Seq(Int), points : Seq(RawPoint), supported : BOOLEAN]

Abs(n) == IF n < 0 THEN -n ELSE n
Near(p, q, tolerance) == \A j \in Joints : Abs(p[j] - q[j]) <= tolerance
Within(low, p, high) == \A j \in Joints : low[j] <= p[j] /\ p[j] <= high[j]

-----------------------------------------------------------------------------
\* Each robot joint once, and nothing else.
NamesMatch(t) ==
  /\ Len(t.names) = JointCount
  /\ \A k, l \in DOMAIN t.names : t.names[k] = t.names[l] => k = l
  /\ {t.names[k] : k \in DOMAIN t.names} = Joints

Place(t, j) == CHOOSE k \in DOMAIN t.names : t.names[k] = j

\* Mutant: the values are taken in the order in which they came.
AsTheyCame(t, values) == [j \in Joints |-> values[j]]

\* The values of a point in the driver's order of the joints.
Reordered(t, values) == [j \in Joints |-> values[Place(t, j)]]

Target(t, i) == Reordered(t, t.points[i].positions)

PointValid(t, i) ==
  LET point == t.points[i] IN
    /\ Len(point.positions) = JointCount
    /\ Within(Lower, Target(t, i), Upper)
    /\ point.velocities # <<>> =>
         /\ Len(point.velocities) = JointCount
         /\ \A j \in Joints :
              Abs(Reordered(t, point.velocities)[j]) <= VelocityLimit[j]
    /\ point.time >= 0

\* What a point owes to the one before it.
StepValid(t, i) ==
  /\ t.points[i].time > t.points[i - 1].time
  /\ Near(Target(t, i), Target(t, i - 1), MaxJointStep)

\* validate_trajectory, with the checks of _validated_request.
ValidTrajectory(t) ==
  /\ t.supported
  /\ NamesMatch(t)
  /\ Len(t.points) \in 1 .. MaxPoints
  /\ \A i \in 1 .. Len(t.points) : PointValid(t, i)
  /\ \A i \in 2 .. Len(t.points) : StepValid(t, i)

\* select_execution_points: the points from this one to the last are commanded.
FirstCommanded(t) == IF ExecutionMode = "goal_only" THEN Len(t.points) ELSE 1

-----------------------------------------------------------------------------
CeilDiv(n, d) == (n + d - 1) \div d

\* Percentages of its limit that the joints need for a segment: by its length
\* and duration, and by the velocities the plan asks for.
Needed(t, i, from, since) ==
  LET duration == t.points[i].time - since
      planned == t.points[i].velocities IN
    (IF duration > 0
     THEN {CeilDiv(100 * Abs(Target(t, i)[j] - from[j]), duration * VelocityLimit[j]) :
             j \in Joints}
     ELSE {})
    \cup
    (IF planned # <<>>
     THEN {CeilDiv(100 * Abs(Reordered(t, planned)[j]), VelocityLimit[j]) : j \in Joints}
     ELSE {})

Largest(S) == CHOOSE n \in S : \A m \in S : m <= n

Capped(percent) == IF percent <= MaxPercent THEN percent ELSE MaxPercent

\* Mutant: the planned velocities are not looked at.
PercentByTime(t, i, from, since) ==
  LET fastest == Largest({0} \cup Needed([t EXCEPT !.points[i].velocities = <<>>], i, from, since))
  IN  Capped(IF fastest > 0 THEN fastest ELSE DefaultPercent)

\* segment_velocity_percent.
SegmentPercent(t, i, from, since) ==
  LET fastest == Largest({0} \cup Needed(t, i, from, since))
  IN  Capped(IF fastest > 0 THEN fastest ELSE DefaultPercent)
=============================================================================
