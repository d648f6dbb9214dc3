------------------------- MODULE TrajectoryController -------------------------
(***************************************************************************)
(* FanucpyFollowJointTrajectoryServer: how one joint trajectory is checked *)
(* and carried out, waypoint by waypoint, between the driver's other       *)
(* commands and its polls.                                                 *)
(*                                                                         *)
(* A waypoint is one step: the executor and the transport lock are held    *)
(* from its command to the reading of the joints.  Module Driver models    *)
(* what happens inside.                                                    *)
(***************************************************************************)
EXTENDS TrajectoryValidation

CONSTANTS
  MotionEnabled,     \* enable_motion_commands
  AllowGoalOnly,     \* allow_goal_only_execution
  StartTolerance,    \* trajectory_start_tolerance_rad
  PathTolerance,     \* trajectory_path_tolerance_rad
  GoalTolerance,     \* trajectory_goal_tolerance_rad
  GoalOnlyMaxDelta,  \* goal_only_max_joint_delta_rad
  Positions,         \* where the arm may be
  Trajectories,      \* what clients may ask for
  NoSample           \* no joint positions have been received

ASSUME ControllerAssumption ==
  /\ {MotionEnabled, AllowGoalOnly} \subseteq BOOLEAN
  /\ {StartTolerance, PathTolerance, GoalTolerance, GoalOnlyMaxDelta} \subseteq Nat \ {0}
  /\ Positions \subseteq JointValues
  /\ Positions # {}
  /\ Trajectories \subseteq RawTrajectory
  /\ Trajectories # {}
  /\ NoSample \notin JointValues

VARIABLES
  arm,        \* where the arm is
  cache,      \* _latest_joint_positions_rad
  connected,  \* the transport has a session
  reserved,   \* who holds _motion_goal_reserved
  pc,         \* where the action server is with its goal
  goal,       \* the trajectory accepted last
  next,       \* the point the loop is at
  previous,   \* previous_positions
  result,     \* error_code of the goal accepted last
  move,       \* history: the command sent last for it
  moved       \* history: the points commanded for it

vars == <<arm, cache, connected, reserved, pc, goal, next, previous, result, move, moved>>

\* A command: the point, where the joints were read before it, where they are
\* sent, and how fast.
Move == [point : Nat, from : JointValues, to : JointValues, percent : 1 .. MaxPercent]
NoMove == [point |-> 0, from |-> Lower, to |-> Lower, percent |-> 1]

Codes == {"SUCCESSFUL", "INVALID_GOAL", "PATH_TOLERANCE_VIOLATED", "GOAL_TOLERANCE_VIOLATED"}

TypeOK ==
  /\ arm \in Positions
  /\ cache \in Positions \cup {NoSample}
  /\ connected \in BOOLEAN
  /\ reserved \in {"nobody", "trajectory", "other"}
  /\ pc \in {"idle", "accepted", "executing"}
  /\ goal \in Trajectories
  /\ next \in Nat
  /\ previous \in Positions \cup {NoSample}
  /\ result \in Codes \cup {"none"}
  /\ move \in Move
  /\ moved \subseteq Nat

Init ==
  /\ arm \in Positions
  /\ cache = NoSample
  /\ connected = FALSE
  /\ reserved = "nobody"
  /\ pc = "idle"
  /\ goal \in Trajectories
  /\ next = 0
  /\ previous = NoSample
  /\ result = "none"
  /\ move = NoMove
  /\ moved = {}

-----------------------------------------------------------------------------
(***************************************************************************)
(* The driver around the controller.                                       *)
(***************************************************************************)
serverVars == <<reserved, pc, goal, next, previous, result, move, moved>>

\* The worker gains a session, or one is lost.
SessionChanges ==
  /\ connected' = ~connected
  /\ UNCHANGED <<arm, cache, serverVars>>

\* The worker polls and publishes the joints.
Poll ==
  /\ connected
  /\ cache' = arm
  /\ UNCHANGED <<arm, connected, serverVars>>

\* A jog, an absolute move or a program is accepted.
OtherAccepted ==
  /\ connected
  /\ reserved = "nobody"
  /\ reserved' = "other"
  /\ UNCHANGED <<arm, cache, connected, pc, goal, next, previous, result, move, moved>>

\* It executes, which leaves the joint cache as it was.
OtherExecutes ==
  /\ reserved = "other"
  /\ reserved' = "nobody"
  /\ arm' \in Positions
  /\ UNCHANGED <<cache, connected, pc, goal, next, previous, result, move, moved>>

-----------------------------------------------------------------------------
(***************************************************************************)
(* The action server.                                                      *)
(***************************************************************************)
CanExecute ==
  /\ MotionEnabled
  /\ ExecutionMode = "goal_only" => AllowGoalOnly
  /\ connected

\* Mutant: the direct distance is not measured.
StartAgrees(t) ==
  /\ ValidTrajectory(t)
  /\ cache # NoSample
  /\ Near(Target(t, 1), cache, StartTolerance)

\* What both the goal callback and the execute callback check: the request,
\* its first point against the cached joints, and a direct move's length.
Startable(t) ==
  /\ ValidTrajectory(t)
  /\ cache # NoSample
  /\ Near(Target(t, 1), cache, StartTolerance)
  /\ ExecutionMode = "goal_only" =>
       /\ AllowGoalOnly
       /\ Near(Target(t, Len(t.points)), cache, GoalOnlyMaxDelta)

\* _goal_callback accepts; when it rejects, nothing changes.
GoalAccepted(t) ==
  /\ CanExecute
  /\ Startable(t)
  /\ reserved = "nobody"
  /\ reserved' = "trajectory"
  /\ pc' = "accepted"
  /\ goal' = t
  /\ result' = "none"
  /\ move' = NoMove
  /\ moved' = {}
  /\ UNCHANGED <<arm, cache, connected, next, previous>>

\* The callback returns a result, and its finally clause releases.
Ends(code) ==
  /\ result' = code
  /\ reserved' = "nobody"
  /\ pc' = "idle"
  /\ next' = 0
  /\ previous' = NoSample

\* Mutant: the execute callback relies on the checks of the goal callback.
BeginUnchecked ==
  /\ pc = "accepted"
  /\ pc' = "executing"
  /\ next' = FirstCommanded(goal)
  /\ previous' = cache
  /\ UNCHANGED <<arm, cache, connected, reserved, goal, result, move, moved>>

\* _execute_callback starts: everything is checked again.
Begin ==
  /\ pc = "accepted"
  /\ IF Startable(goal)
     THEN /\ pc' = "executing"
          /\ next' = FirstCommanded(goal)
          /\ previous' = cache
          /\ UNCHANGED <<reserved, result>>
     ELSE Ends("INVALID_GOAL")
  /\ UNCHANGED <<arm, cache, connected, goal, move, moved>>

IsLast == next = Len(goal.points)

Tolerance == IF IsLast THEN GoalTolerance ELSE PathTolerance

AtPoint ==
  /\ pc = "executing"
  /\ next <= Len(goal.points)

\* Mutant: any point the arm is already at is skipped.
SkippableAnywhere ==
  /\ Near(Target(goal, next), previous, StartTolerance)
  /\ Near(Target(goal, next), previous, Tolerance)

\* The first point, or the only target of a direct move, when the arm is there.
Skippable ==
  /\ ExecutionMode = "goal_only" \/ next = 1
  /\ Near(Target(goal, next), previous, StartTolerance)
  /\ Near(Target(goal, next), previous, Tolerance)

\* previous_time, when the loop is at point i.
Since(t, i) == IF i = FirstCommanded(t) THEN 0 ELSE t.points[i - 1].time

\* can_execute has become false.
Blocked ==
  /\ AtPoint
  /\ ~CanExecute
  /\ Ends("INVALID_GOAL")
  /\ UNCHANGED <<arm, cache, connected, goal, move, moved>>

Skip ==
  /\ AtPoint
  /\ CanExecute
  /\ Skippable
  /\ next' = next + 1
  /\ UNCHANGED <<arm, cache, connected, reserved, pc, goal, previous, result, move, moved>>

Commands ==
  /\ AtPoint
  /\ CanExecute
  /\ ~Skippable
  /\ move' = [point   |-> next,
              from    |-> previous,
              to      |-> Target(goal, next),
              percent |-> SegmentPercent(goal, next, previous, Since(goal, next))]
  /\ moved' = moved \cup {next}
  /\ arm' \in Positions
  /\ UNCHANGED goal

\* The waypoint is reached: the joints read after it are within tolerance.
Reaches ==
  /\ Commands
  /\ cache' = arm'
  /\ Near(Target(goal, next), arm', Tolerance)
  /\ next' = next + 1
  /\ previous' = arm'
  /\ UNCHANGED <<connected, reserved, pc, result>>

\* Mutant: a missed waypoint does not end the goal.
MissesAndGoesOn ==
  /\ Commands
  /\ cache' = arm'
  /\ ~Near(Target(goal, next), arm', Tolerance)
  /\ next' = next + 1
  /\ previous' = arm'
  /\ UNCHANGED <<connected, reserved, pc, result>>

\* The waypoint is missed.
Misses ==
  /\ Commands
  /\ cache' = arm'
  /\ ~Near(Target(goal, next), arm', Tolerance)
  /\ Ends(IF IsLast THEN "GOAL_TOLERANCE_VIOLATED" ELSE "PATH_TOLERANCE_VIOLATED")
  /\ UNCHANGED connected

\* The move is refused, or fails with or without its session, wherever the arm
\* is then; the joints are not published.
Fails ==
  /\ Commands
  /\ Ends("INVALID_GOAL")
  /\ connected' \in {connected, FALSE}
  /\ UNCHANGED cache

Succeeds ==
  /\ pc = "executing"
  /\ next > Len(goal.points)
  /\ Ends("SUCCESSFUL")
  /\ UNCHANGED <<arm, cache, connected, goal, move, moved>>

Next ==
  \/ SessionChanges \/ Poll \/ OtherAccepted \/ OtherExecutes
  \/ \E t \in Trajectories : GoalAccepted(t)
  \/ Begin \/ Blocked \/ Skip \/ Reaches \/ Misses \/ Fails \/ Succeeds

Spec == Init /\ [][Next]_vars

-----------------------------------------------------------------------------
(***************************************************************************)
(* Properties.                                                             *)
(***************************************************************************)
Sent == move.point # 0

\* Following a path, the arm is never sent further from where it was read than
\* the start tolerance, or one step of the plan and the path tolerance: skipped
\* points and missed targets do not add up (controller.py _execute_callback).
StepsBounded ==
  Sent /\ ExecutionMode = "stop_at_waypoints" =>
    IF move.point = 1
    THEN Near(move.to, move.from, StartTolerance)
    ELSE Near(move.to, move.from, MaxJointStep + PathTolerance)

\* A direct move is the only one of its goal, ends at the plan's last point and
\* is no longer than its cap, from the joints as they were read at its start,
\* not at its acceptance.
DirectMoveBounded ==
  Sent /\ ExecutionMode = "goal_only" =>
    /\ moved = {Len(goal.points)}
    /\ Near(move.to, move.from, GoalOnlyMaxDelta)

\* Once a point is missed nothing more is sent for the goal: every further
\* command starts where the arm is, and that is within tolerance of the point
\* commanded before.
NothingAfterAMiss ==
  [][Sent /\ move' # move /\ move' # NoMove =>
       /\ Near(move.to, arm, PathTolerance)
       /\ move'.from = arm]_vars

\* On success the arm was sent to every point in turn, but for a first point it
\* was already at.
SuccessMeansFollowed ==
  result = "SUCCESSFUL" /\ ExecutionMode = "stop_at_waypoints" =>
    2 .. Len(goal.points) \subseteq moved

\* On success the arm is within the goal tolerance of the last point, and if
\* nothing was sent it was read there.
SuccessMeansArrived ==
  [][result' = "SUCCESSFUL" /\ result # "SUCCESSFUL" =>
       /\ Near(Target(goal, Len(goal.points)), previous, GoalTolerance)
       /\ Sent => previous = arm]_vars

\* Each value of the plan moves the joint it is named for, within that joint's
\* limits, whatever order the plan lists the joints in.
NamedJointsMoved ==
  Sent =>
    \A k \in 1 .. JointCount :
      LET j == goal.names[k] IN
        /\ move.to[j] = goal.points[move.point].positions[k]
        /\ Lower[j] <= move.to[j] /\ move.to[j] <= Upper[j]

\* At n percent of its limit every joint is in time for point i, and as fast as
\* the plan says it should be there.
KeepsPlan(t, i, from, n) ==
  LET point == t.points[i]
      duration == point.time - Since(t, i) IN
    \A j \in Joints :
      /\ duration > 0 =>
           100 * Abs(Target(t, i)[j] - from[j]) <= n * VelocityLimit[j] * duration
      /\ point.velocities # <<>> =>
           \A k \in 1 .. JointCount : t.names[k] = j =>
             100 * Abs(point.velocities[k]) <= n * VelocityLimit[j]

\* The speed commanded is the least whole percentage that keeps the plan, held
\* under the maximum; a segment that asks for no motion and plans no velocity
\* has the default speed.
SpeedIsLeastSufficient ==
  Sent =>
    IF KeepsPlan(goal, move.point, move.from, 0)
    THEN move.percent = DefaultPercent
    ELSE /\ KeepsPlan(goal, move.point, move.from, move.percent) \/ move.percent = MaxPercent
         /\ ~KeepsPlan(goal, move.point, move.from, move.percent - 1)
=============================================================================
