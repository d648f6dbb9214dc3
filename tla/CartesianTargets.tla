--------------------------- MODULE CartesianTargets ---------------------------
(***************************************************************************)
(* An absolute Cartesian target from the prompt to the arm: it is checked  *)
(* when it is read, completed from the measured pose, checked against the  *)
(* limits of the last status received, and checked by the driver against   *)
(* its own.  The limits of a driver are those it was started with.         *)
(***************************************************************************)
EXTENDS CartesianValidation, FiniteSets

CONSTANTS
  Plans,          \* what prompts ask: values, specified axes and a velocity
  Poses,          \* what the arm measures
  DriverLimits,   \* limits a driver may be started with; reported: the maximum velocity in
                  \* its status, zero in that of a driver that does not tell
  LocalVelocity,  \* max_cartesian_velocity_mm_s of the client
  None            \* no status, no target

Targets == [values : [Axes -> Int], velocity : Nat]
Origins == [plan : Plans, pose : Poses, known : DriverLimits]

ASSUME TargetsAssumption ==
  /\ \A p \in Plans : p.values \in [Axes -> Int] /\ p.specified \subseteq Axes /\ p.velocity \in Nat
  /\ Poses \subseteq [Axes -> Int]
  /\ DriverLimits \subseteq [velocity : Nat \ {0}, reported : Nat, enforced : BOOLEAN, lower : [Axes -> Int], upper : [Axes -> Int]]
  /\ LocalVelocity \in Nat \ {0}
  /\ None \notin DriverLimits \cup Targets \cup Origins

VARIABLES
  limits,   \* the limits of the driver that runs
  status,   \* the limits the client knows
  pose,     \* where the arm is
  read,     \* history: the plan, pose and limits the target was made from
  target,   \* the target sent and not yet answered
  reached   \* the target the driver has sent to the arm last

targetVars == <<limits, status, pose, read, target, reached>>

TargetInit ==
  /\ limits \in DriverLimits
  /\ status = None
  /\ pose \in Poses
  /\ read = None
  /\ target = None
  /\ reached = None

-----------------------------------------------------------------------------
\* resolve_cartesian_target.
Resolved(plan, current) ==
  [a \in Axes |-> IF a \in plan.specified THEN plan.values[a] ELSE current[a]]

\* validate_cartesian_target_plan.
ValidPlan(plan, maximum) ==
  /\ plan.specified # {}
  /\ plan.velocity = 0 \/ plan.velocity \in 1..maximum

\* validate_cartesian_target_bounds.
InBounds(values, lower, upper) ==
  \A a \in Axes : lower[a] < upper[a] /\ lower[a] <= values[a] /\ values[a] <= upper[a]

\* Mutant: the client's own maximum is used although the driver's is known.
OwnVelocity(known) == LocalVelocity

KnownVelocity(known) == IF known.reported > 0 THEN known.reported ELSE LocalVelocity

\* check_absolute_cartesian_execution_ready.
ClientAdmits(plan, values, known) ==
  /\ ValidPlan(plan, KnownVelocity(known))
  /\ known.enforced => InBounds(values, known.lower, known.upper)

\* _absolute_cartesian_goal_callback; the same checks are made once more before the
\* command is sent.  Its check of the frame always passes here: client and driver are
\* configured with one frame_id, which the client puts into every goal.
DriverAdmits(values, velocity, own) ==
  /\ ValidTarget(values, own)
  /\ ValidVelocity(velocity, own)

-----------------------------------------------------------------------------
ArmMoves == pose' \in Poses /\ UNCHANGED <<limits, status, read, target, reached>>

\* The driver is started again; the client is not told before the next status.
DriverRestarts ==
  /\ limits' \in DriverLimits
  /\ target' = None
  /\ UNCHANGED <<status, pose, read, reached>>

StatusReceived == status' = limits /\ UNCHANGED <<limits, pose, read, target, reached>>

Execute ==
  /\ target = None
  /\ status # None
  /\ \E plan \in Plans :
       /\ ClientAdmits(plan, Resolved(plan, pose), status)
       /\ read' = [plan |-> plan, pose |-> pose, known |-> status]
       /\ target' = [values |-> Resolved(plan, pose), velocity |-> plan.velocity]
  /\ UNCHANGED <<limits, status, pose, reached>>

Admit ==
  /\ target # None
  /\ DriverAdmits(target.values, target.velocity, limits)
  /\ reached' = target
  /\ target' = None
  /\ UNCHANGED <<limits, status, pose, read>>

Reject ==
  /\ target # None
  /\ ~DriverAdmits(target.values, target.velocity, limits)
  /\ target' = None
  /\ UNCHANGED <<limits, status, pose, read, reached>>

TargetNext == ArmMoves \/ DriverRestarts \/ StatusReceived \/ Execute \/ Admit \/ Reject

TargetSpec == TargetInit /\ [][TargetNext]_targetVars

-----------------------------------------------------------------------------
(***************************************************************************)
(* Properties.                                                             *)
(***************************************************************************)
TargetTypeOK ==
  /\ limits \in DriverLimits
  /\ status \in DriverLimits \cup {None}
  /\ pose \in Poses
  /\ read \in Origins \cup {None}
  /\ target \in Targets \cup {None}
  /\ reached \in Targets \cup {None}

\* The two programs check alike: a driver refuses nothing the client has let through
\* with the limits that driver reports.
ChecksAgree ==
  [][Reject => read.known # limits \/ limits.reported # limits.velocity]_targetVars

\* An axis nobody named stays where the arm was measured when the target was made,
\* and the arm is never sent outside the bounds of the driver that sends it.
NamedAxesMoveInBounds ==
  [][reached' # reached =>
       /\ \A a \in Axes \ read.plan.specified : reached'.values[a] = read.pose[a]
       /\ \A a \in read.plan.specified : reached'.values[a] = read.plan.values[a]
       /\ limits.enforced =>
            \A a \in Axes : reached'.values[a] >= limits.lower[a] /\ reached'.values[a] <= limits.upper[a]
       /\ reached'.velocity <= limits.velocity]_targetVars
=============================================================================
