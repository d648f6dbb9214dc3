----------------------------- MODULE JointTargets -----------------------------
(***************************************************************************)
(* A joint target from the prompt to the arm: the planner client makes a   *)
(* trajectory of two points of it, timed so that the driver should move    *)
(* at the percentage asked for, and the trajectory controller of module    *)
(* TrajectoryController checks the trajectory, works the percentage out of *)
(* its times and moves.                                                    *)
(*                                                                         *)
(* The unit of time is the tick to which a message rounds a duration.      *)
(***************************************************************************)
EXTENDS TrajectoryController

CONSTANTS
  Ticks,          \* ticks of a second, and the reciprocal of the duration's margin
  MinTicks,       \* the shortest duration
  ClientDelta,    \* max_joint_command_delta_rad
  JointPlans,     \* what prompts ask for: positions and a percentage, zero for the default
  Percents,       \* percentages there are, for Trajectories
  None            \* no joint state, no goal on its way

\* A tick is a nanosecond and the shortest duration a millisecond: far more of them
\* than percentages.  The planner's limits are to match the driver's (OLLAMA.md).
ASSUME JointTargetsAssumption ==
  /\ {Ticks, MinTicks, ClientDelta} \subseteq Nat \ {0}
  /\ 2 * MinTicks < Ticks
  /\ MaxPercent <= 2 * MinTicks /\ 2 * MaxPercent <= Ticks
  /\ ClientDelta <= MaxJointStep
  /\ JointPlans \subseteq [positions : JointValues, percent : Nat]
  /\ Percents \subseteq 1 .. MaxPercent

VARIABLES
  sample,  \* the joint state the client has received last
  sent,    \* the goal sent and not yet answered, and where the client saw the arm
  asked    \* history: the percentage this client asked for with the goal accepted last

clientVars == <<sample, sent, asked>>
jointVars == <<vars, clientVars>>

-----------------------------------------------------------------------------
(***************************************************************************)
(* What the client makes of a plan.                                        *)
(***************************************************************************)
\* The joint that takes longest: distance by limit is compared crosswise.
Slowest(from, to) ==
  CHOOSE j \in Joints :
    \A k \in Joints :
      Abs(to[k] - from[k]) * VelocityLimit[j] <= Abs(to[j] - from[j]) * VelocityLimit[k]

\* The whole numbers nearest to n / d.
Nearest(n, d) == {r \in {n \div d, n \div d + 1} : Abs(2 * (r * d - n)) <= d}

\* Mutant: the duration has no margin.
NoMargin(from, to, percent) ==
  LET j == Slowest(from, to)
      n == 100 * Abs(to[j] - from[j])
      d == VelocityLimit[j] * percent
  IN  IF n < MinTicks * d THEN {MinTicks} ELSE Nearest(n, d)

\* joint_motion_duration_sec, and what _set_duration keeps of it.
Durations(from, to, percent) ==
  LET j == Slowest(from, to)
      n == 100 * Abs(to[j] - from[j]) * (Ticks + 1)
      d == VelocityLimit[j] * percent * Ticks
  IN  IF n < MinTicks * d THEN {MinTicks} ELSE Nearest(n, d)

Point(positions, time) == [positions |-> positions, velocities |-> <<>>, time |-> time]

TwoPoints(from, to, duration) ==
  [names |-> [j \in Joints |-> j], points |-> <<Point(from, 0), Point(to, duration)>>, supported |-> TRUE]

Resolved(plan) == IF plan.percent = 0 THEN DefaultPercent ELSE plan.percent

ClientTrajectories ==
  UNION {{TwoPoints(from, plan.positions, duration) : duration \in Durations(from, plan.positions, percent)} :
           from \in Positions, plan \in JointPlans, percent \in Percents}

ASSUME ClientAssumption ==
  /\ ClientTrajectories \subseteq Trajectories
  /\ \A plan \in JointPlans : Resolved(plan) <= MaxPercent => Resolved(plan) \in Percents

\* Mutant: a direct move of the driver is not held to its own limit.
OneDelta == ClientDelta

Delta ==
  IF ExecutionMode = "goal_only" /\ GoalOnlyMaxDelta < ClientDelta THEN GoalOnlyMaxDelta ELSE ClientDelta

\* validate_joint_target_plan: the maximum percentage is the one the driver reports.
ValidJointTarget(plan, current) ==
  /\ Within(Lower, plan.positions, Upper)
  /\ plan.percent = 0 \/ plan.percent \in 1 .. MaxPercent
  /\ plan.positions # current
  /\ Near(plan.positions, current, Delta)

-----------------------------------------------------------------------------
JointInit == Init /\ sample = None /\ sent = None /\ asked = 0

JointStateCallback ==
  /\ cache # NoSample
  /\ sample' = cache
  /\ UNCHANGED <<vars, sent, asked>>

\* execute_joint_target, of a plan that check_joint_execution_ready lets through.
Send ==
  /\ sent = None
  /\ sample # None
  /\ \E plan \in JointPlans :
       /\ ValidJointTarget(plan, sample)
       /\ \E duration \in Durations(sample, plan.positions, Resolved(plan)) :
            sent' = [goal |-> TwoPoints(sample, plan.positions, duration), percent |-> Resolved(plan)]
  /\ UNCHANGED <<vars, sample, asked>>

Accepted ==
  /\ sent # None
  /\ GoalAccepted(sent.goal)
  /\ asked' = sent.percent
  /\ sent' = None
  /\ UNCHANGED sample

Rejected ==
  /\ sent # None
  /\ ~(CanExecute /\ Startable(sent.goal) /\ reserved = "nobody")
  /\ sent' = None
  /\ UNCHANGED <<vars, sample, asked>>

\* A goal of another client's, unlike any of this one's.
OtherGoal ==
  /\ \E g \in Trajectories \ ClientTrajectories : GoalAccepted(g)
  /\ asked' = 0
  /\ UNCHANGED <<sample, sent>>

\* The driver and the controller, whatever the client does.
DriverSteps ==
  /\ \/ SessionChanges \/ Poll \/ OtherAccepted \/ OtherExecutes
     \/ Begin \/ Blocked \/ Skip \/ Reaches \/ Misses \/ Fails \/ Succeeds
  /\ UNCHANGED clientVars

JointNext == JointStateCallback \/ Send \/ Accepted \/ Rejected \/ OtherGoal \/ DriverSteps

JointSpec == JointInit /\ [][JointNext]_jointVars

-----------------------------------------------------------------------------
(***************************************************************************)
(* Properties.                                                             *)
(***************************************************************************)
JointTypeOK ==
  /\ TypeOK
  /\ sample \in Positions \cup {None}
  /\ sent # None => sent.goal \in Trajectories /\ sent.percent \in 1 .. MaxPercent
  /\ asked \in 0 .. MaxPercent

\* A driver that is free and whose joints the client has seen as they are refuses no
\* goal of the client's, in either execution mode: the two programs check alike, but
\* for the joints being within their limits already and a driver that takes one point.
RefusedOnlyWhenBusyOrMoved ==
  [][sent # None /\ sent' = None /\ reserved' = reserved =>
       \/ ~CanExecute
       \/ reserved # "nobody"
       \/ sent.goal.points[1].positions # cache
       \/ ~Within(Lower, cache, Upper)
       \/ MaxPoints = 1]_jointVars

\* The move to this client's target, made from where the client saw the arm.
AsSeen == asked # 0 /\ Sent /\ move.point = 2 /\ move.from = goal.points[1].positions

\* Rounding the duration never costs more than one percent, and a move of half a second
\* or more is made at the percentage asked for.
PercentNearSelected ==
  AsSeen =>
    /\ move.percent <= asked + 1
    /\ 2 * goal.points[2].time >= Ticks => move.percent = asked

\* The margin of the duration keeps the driver from selecting one percent too high
\* (task_plans.py joint_motion_duration_sec).
NoPercentTooHigh == AsSeen => move.percent <= asked
=============================================================================
