---------------------------- MODULE CartesianProofs ----------------------------
(***************************************************************************)
(* Theorems about the two programs whose motions the driver's Cartesian    *)
(* validation lets through: KeyboardTeleop, for every set of driver        *)
(* configurations, every parameter of the keyboard and every choice of     *)
(* motion keys; and CartesianTargets, for every set of plans, of poses and *)
(* of limits a driver may be started with.                                 *)
(***************************************************************************)
EXTENDS KeyboardTeleop, CartesianTargets, SequenceTheorems, TLAPS

-----------------------------------------------------------------------------
(***************************************************************************)
(* Keyboard: the inductive invariant.                                      *)
(***************************************************************************)
Fields == {"translation", "rotation", "velocity"}

\* What the limits heard have to do with what the keys may send.
HeardInv ==
  /\ driverConnected => heard # NoStatus
  /\ heard # NoStatus => maxima = heard
  /\ \A f \in Fields : steps[f] <= maxima[f]

QuitInv == session = "quit" => goals = <<>>

IInv == TypeOK /\ ArmedMeansConnected /\ OneGoalInFlight /\ HeardInv /\ QuitInv

-----------------------------------------------------------------------------
(***************************************************************************)
(* The operators.                                                          *)
(***************************************************************************)
\* Loaded limits leave every setting above zero and within them.
LEMMA ReducedBounded ==
  ASSUME NEW bounds \in Settings, TypeOK
  PROVE  /\ Reduced(bounds) \in Settings
         /\ \A f \in Fields : Reduced(bounds)[f] <= bounds[f]
  BY DEF Settings, TypeOK, Reduced, Least, Fields

LEMMA RoundedBounded ==
  ASSUME NEW n \in Nat, NEW percent \in {5, 10, 25, 50, 75, 100}
  PROVE  Rounded(n * percent, 100) \in 0 .. n
<1>1. CASE percent = 5
  BY <1>1 DEF Rounded
<1>2. CASE percent = 10
  BY <1>2 DEF Rounded
<1>3. CASE percent = 25
  BY <1>3 DEF Rounded
<1>4. CASE percent = 50
  BY <1>4 DEF Rounded
<1>5. CASE percent = 75
  BY <1>5 DEF Rounded
<1>6. CASE percent = 100
  BY <1>6 DEF Rounded
<1> QED BY <1>1, <1>2, <1>3, <1>4, <1>5, <1>6

LEMMA BoundedStepBounded ==
  ASSUME NEW current \in Int, NEW change \in Int,
         NEW minimum \in Nat \ {0}, NEW maximum \in Nat \ {0}
  PROVE  BoundedStep(current, change, minimum, maximum) \in 1 .. maximum
  BY DEF BoundedStep, Least, Greatest

\* No key takes a setting out of the range between zero and its maximum.
LEMMA ChoicesBounded ==
  ASSUME TypeOK, NEW f \in Fields, NEW chosen \in Choices(f)
  PROVE  chosen \in 1 .. maxima[f]
<1>1. maxima \in Settings /\ steps \in Settings
  BY DEF TypeOK
<1>2. CASE f = "translation"
  <2>0. /\ maxima.translation \in Nat \ {0} /\ steps.translation \in Int
        /\ 10 \in Nat \ {0} /\ \A change \in {-10, 10} : change \in Int
    BY <1>1 DEF Settings
  <2>1. \A change \in {-10, 10} :
          BoundedStep(steps.translation, change, 10, maxima.translation) \in 1 .. maxima.translation
    BY <2>0, BoundedStepBounded
  <2>2. \A preset \in {10, 50, 100, 250, 500} :
          Least(preset, maxima.translation) \in 1 .. maxima.translation
    BY <1>1 DEF Settings, Least
  <2> QED BY <1>2, <2>1, <2>2 DEF Choices
<1>3. CASE f = "rotation"
  <2>0. /\ maxima.rotation \in Nat \ {0} /\ steps.rotation \in Int
        /\ 5 \in Nat \ {0} /\ \A change \in {-5, 5} : change \in Int
    BY <1>1 DEF Settings
  <2>1. \A change \in {-5, 5} :
          BoundedStep(steps.rotation, change, 5, maxima.rotation) \in 1 .. maxima.rotation
    BY <2>0, BoundedStepBounded
  <2> QED BY <1>3, <2>1 DEF Choices
<1>4. CASE f = "velocity"
  <2>0. maxima.velocity \in Nat \ {0} /\ steps.velocity \in Nat \ {0}
    BY <1>1 DEF Settings
  <2>a. \A percent \in {5, 10, 25, 50, 75, 100} :
          Rounded(maxima.velocity * percent, 100) \in 0 .. maxima.velocity
    BY <2>0, RoundedBounded
  <2>b. \A n \in 0 .. maxima.velocity : Greatest(1, n) \in 1 .. maxima.velocity
    BY <2>0 DEF Greatest
  <2>1. \A percent \in {10, 25, 50, 75, 100} : VelocityPreset(percent) \in 1 .. maxima.velocity
    BY <2>a, <2>b DEF VelocityPreset
  <2>2. VelocityIncrement \in 1 .. maxima.velocity
    BY <2>a, <2>b DEF VelocityIncrement
  <2>c. /\ steps.velocity \in Int /\ 1 \in Nat \ {0}
        /\ \A change \in {-VelocityIncrement, VelocityIncrement} : change \in Int
    BY <2>0, <2>2
  <2>3. \A change \in {-VelocityIncrement, VelocityIncrement} :
          BoundedStep(steps.velocity, change, 1, maxima.velocity) \in 1 .. maxima.velocity
    BY <2>0, <2>c, BoundedStepBounded
  <2> QED BY <1>4, <2>1, <2>3 DEF Choices
<1> QED BY <1>2, <1>3, <1>4 DEF Fields

\* With one jog at most, to forget it is to have none.
LEMMA WithoutIsEmpty ==
  ASSUME TypeOK, Len(goals) <= 1, NEW i \in DOMAIN goals
  PROVE  Without(i) = <<>>
<1>0. goals \in Seq(Goals)
  BY DEF TypeOK
<1>1. i = 1 /\ Len(goals) = 1
  <2>1. i \in 1 .. Len(goals) /\ Len(goals) \in Nat
    BY <1>0
  <2>2. \A n \in Nat : \A k \in 1 .. n : n <= 1 => k = 1 /\ n = 1
    OBVIOUS
  <2> QED BY <2>1, <2>2, Len(goals) <= 1
<1>2. SubSeq(goals, 1, i - 1) = <<>> /\ SubSeq(goals, i + 1, Len(goals)) = <<>>
  BY <1>0, <1>1
<1>3. <<>> \o <<>> = <<>>
  OBVIOUS
<1> QED BY <1>2, <1>3 DEF Without

\* A jog changes its state and stays a jog.
LEMMA PhaseTyped ==
  ASSUME TypeOK, NEW i \in DOMAIN goals, NEW p \in Phases
  PROVE  /\ [goals EXCEPT ![i].phase = p] \in Seq(Goals)
         /\ Len([goals EXCEPT ![i].phase = p]) = Len(goals)
<1>1. goals \in Seq(Goals) /\ i \in 1 .. Len(goals) /\ goals[i] \in Goals
  BY DEF TypeOK
<1>2. [goals[i] EXCEPT !.phase = p] \in Goals
  BY <1>1 DEF Goals
<1> QED BY <1>1, <1>2, ExceptSeq

LEMMA AnsweredTyped ==
  ASSUME TypeOK, NEW i \in DOMAIN goals
  PROVE  /\ [goals EXCEPT ![i].answered = TRUE] \in Seq(Goals)
         /\ Len([goals EXCEPT ![i].answered = TRUE]) = Len(goals)
<1>1. goals \in Seq(Goals) /\ i \in 1 .. Len(goals) /\ goals[i] \in Goals
  BY DEF TypeOK
<1>2. [goals[i] EXCEPT !.answered = TRUE] \in Goals
  BY <1>1 DEF Goals
<1> QED BY <1>1, <1>2, ExceptSeq

\* An offset made by a key is a jog within the steps.
LEMMA OffsetWithinSteps ==
  ASSUME TypeOK, NEW axis \in Axes, NEW sign \in {-1, 1},
         NEW bounds \in Settings, \A f \in Fields : steps[f] <= bounds[f]
  PROVE  /\ Offset(axis, sign) \in [Axes -> Int]
         /\ ValidOffset(Offset(axis, sign), bounds)
<1>1. /\ steps.translation \in Nat \ {0} /\ steps.rotation \in Nat \ {0}
      /\ bounds.translation \in Nat /\ bounds.rotation \in Nat
      /\ steps.translation <= bounds.translation /\ steps.rotation <= bounds.rotation
  BY DEF TypeOK, Settings, Fields
<1> DEFINE size(a) == IF a \in Linear THEN steps.translation ELSE steps.rotation
<1>2. \A a \in Axes : /\ size(a) \in Nat \ {0}
                      /\ sign * size(a) \in Int
                      /\ sign * size(a) # 0
                      /\ Magnitude(sign * size(a)) = size(a)
  BY <1>1 DEF Magnitude
<1>3. \A a \in Axes : Offset(axis, sign)[a] = IF a # axis THEN 0 ELSE sign * size(a)
  BY DEF Offset
<1>4. Offset(axis, sign) \in [Axes -> Int]
  BY <1>2 DEF Offset
<1>5. \A a \in Axes : \/ Magnitude(Offset(axis, sign)[a]) = 0
                      \/ Magnitude(Offset(axis, sign)[a]) = size(a)
  BY <1>2, <1>3 DEF Magnitude
<1>6. \A a \in Linear : a \in Axes /\ size(a) = steps.translation
  BY DEF Axes
<1>7. \A a \in Angular : a \in Axes /\ size(a) = steps.rotation
  BY DEF Axes, Linear, Angular
<1>8. Offset(axis, sign)[axis] # 0
  BY <1>2, <1>3
<1> HIDE DEF size
<1>9. \A a \in Linear : Magnitude(Offset(axis, sign)[a]) <= bounds.translation
  <2> TAKE a \in Linear
  <2>1. CASE Magnitude(Offset(axis, sign)[a]) = 0
    BY <1>1, <2>1
  <2>2. CASE Magnitude(Offset(axis, sign)[a]) = steps.translation
    BY <1>1, <2>2
  <2> QED BY <1>5, <1>6, <2>1, <2>2
<1>10. \A a \in Angular : Magnitude(Offset(axis, sign)[a]) <= bounds.rotation
  <2> TAKE a \in Angular
  <2>1. CASE Magnitude(Offset(axis, sign)[a]) = 0
    BY <1>1, <2>1
  <2>2. CASE Magnitude(Offset(axis, sign)[a]) = steps.rotation
    BY <1>1, <2>2
  <2> QED BY <1>5, <1>7, <2>1, <2>2
<1> QED BY <1>4, <1>8, <1>9, <1>10 DEF ValidOffset

-----------------------------------------------------------------------------
(***************************************************************************)
(* The invariant.                                                          *)
(***************************************************************************)
LEMMA InitIInv == Init => IInv
<1> SUFFICES ASSUME Init PROVE IInv
  OBVIOUS
<1>0. <<>> \in Seq(Goals)
  OBVIOUS
<1>1. TypeOK
  BY <1>0, TeleopAssumption DEF Init, TypeOK
<1>2. \A f \in Fields : steps[f] <= maxima[f]
  BY TeleopAssumption DEF Init, Settings, Fields
<1>3. Len(goals) = 0
  BY DEF Init
<1> QED
  BY <1>1, <1>2, <1>3
  DEF Init, IInv, ArmedMeansConnected, OneGoalInFlight, HeardInv, QuitInv

\* What a step that changes only the phase of a jog has to keep.
LEMMA GoalsChangeInv ==
  ASSUME IInv, goals' \in Seq(Goals), Len(goals') = Len(goals),
         UNCHANGED teleopVars, UNCHANGED <<config, mail, ready>>,
         driver' \in {"up", "down"}
  PROVE  IInv'
<1>1. goals \in Seq(Goals) /\ (goals = <<>> <=> Len(goals) = 0) /\ (goals' = <<>> <=> Len(goals') = 0)
  BY EmptySeq DEF IInv, TypeOK
<1> QED
  BY <1>1
  DEF IInv, TypeOK, ArmedMeansConnected, OneGoalInFlight, HeardInv, QuitInv,
      teleopVars, flags

\* What a step that ends the keyboard's jog has to keep.
LEMMA GoalEndsInv ==
  ASSUME IInv, goals' = <<>>, goalInFlight' = FALSE,
         UNCHANGED <<driverVars, armed, driverConnected, motionEnabled, maxima, steps, session, heard>>
  PROVE  IInv'
<1>1. Len(goals') = 0 /\ goals' \in Seq(Goals)
  OBVIOUS
<1>2. TypeOK'
  BY <1>1 DEF IInv, TypeOK, driverVars
<1>3. OneGoalInFlight' /\ QuitInv'
  BY <1>1 DEF OneGoalInFlight, QuitInv
<1>4. ArmedMeansConnected' /\ HeardInv'
  BY DEF IInv, ArmedMeansConnected, HeardInv
<1> QED BY <1>2, <1>3, <1>4 DEF IInv

LEMMA NextIInv == IInv /\ [Next]_vars => IInv'
<1> SUFFICES ASSUME IInv, [Next]_vars PROVE IInv'
  OBVIOUS
<1> USE DEF IInv
<1>1. CASE DriverStarts
  BY <1>1
  DEF DriverStarts, TypeOK, ArmedMeansConnected, OneGoalInFlight, HeardInv, QuitInv, teleopVars, flags
<1>2. CASE DriverDies
  <2>1. PICK kept \in BOOLEAN :
          goals' = [i \in DOMAIN goals |->
                      IF goals[i].phase = "rejected" \/ (goals[i].phase = "done" /\ goals[i].answered /\ kept)
                      THEN goals[i] ELSE Lost(goals[i])]
    BY <1>2 DEF DriverDies
  <2>2. goals \in Seq(Goals) /\ Len(goals) \in Nat /\ DOMAIN goals = 1 .. Len(goals)
    BY DEF TypeOK
  <2>3. \A goal \in Goals : Lost(goal) \in Goals
    BY DEF Lost, Goals, Phases
  <2>4. \A i \in DOMAIN goals : goals[i] \in Goals /\ goals'[i] \in Goals
    BY <2>1, <2>2, <2>3
  <2>5. goals' \in [1 .. Len(goals) -> Goals]
    BY <2>1, <2>2, <2>4
  <2>6. goals' \in Seq(Goals) /\ Len(goals') = Len(goals)
    BY <2>2, <2>5
  <2> QED BY <1>2, <2>6, GoalsChangeInv DEF DriverDies
<1>3. CASE Discovers
  BY <1>3
  DEF Discovers, TypeOK, ArmedMeansConnected, OneGoalInFlight, HeardInv, QuitInv, teleopVars, flags
<1>4. CASE DriverPublishes
  BY <1>4
  DEF DriverPublishes, TypeOK, ArmedMeansConnected, OneGoalInFlight, HeardInv, QuitInv, teleopVars, flags, Statuses
<1>5. CASE Decides
  <2>1. PICK i \in DOMAIN goals : DriverDecides(i)
    BY <1>5 DEF Decides
  <2>2. PICK answer \in {"rejected", "accepted"} : goals' = [goals EXCEPT ![i].phase = answer]
    BY <2>1 DEF DriverDecides
  <2>3. answer \in Phases
    BY DEF Phases
  <2>4. goals' \in Seq(Goals) /\ Len(goals') = Len(goals)
    BY <2>2, <2>3, PhaseTyped
  <2> QED BY <2>1, <2>4, GoalsChangeInv DEF DriverDecides, driverVars, TypeOK
<1>6. CASE Finishes
  <2>1. PICK i \in DOMAIN goals : DriverFinishes(i)
    BY <1>6 DEF Finishes
  <2>2. "done" \in Phases
    BY DEF Phases
  <2>3. goals' \in Seq(Goals) /\ Len(goals') = Len(goals)
    BY <2>1, <2>2, PhaseTyped DEF DriverFinishes
  <2> QED BY <2>1, <2>3, GoalsChangeInv DEF DriverFinishes, driverVars, TypeOK
<1>7. CASE StatusCallback
  <2>1. mail \in Statuses /\ mail.config.limits \in Settings /\ mail.config.enabled \in BOOLEAN
    BY <1>7, TeleopAssumption DEF StatusCallback, TypeOK, Statuses
  <2>2. /\ steps' \in Settings
        /\ \A f \in Fields : steps'[f] <= maxima'[f]
    BY <1>7, <2>1, ReducedBounded DEF StatusCallback
  <2>3. TypeOK'
    BY <1>7, <2>1, <2>2 DEF StatusCallback, TypeOK, Statuses, StillArmed
  <2>4. ArmedMeansConnected'
    BY <1>7, <2>1 DEF StatusCallback, StillArmed, ArmedMeansConnected, TypeOK, Statuses
  <2>5. HeardInv'
    BY <1>7, <2>1, <2>2, TeleopAssumption DEF StatusCallback, HeardInv
  <2> QED BY <1>7, <2>3, <2>4, <2>5 DEF StatusCallback, OneGoalInFlight, QuitInv
<1>8. CASE Responds
  <2>1. PICK i \in DOMAIN goals : GoalResponse(i)
    BY <1>8 DEF Responds
  <2>2. CASE goals[i].phase = "rejected"
    BY <2>1, <2>2, WithoutIsEmpty, GoalEndsInv DEF GoalResponse, OneGoalInFlight
  <2>3. CASE goals[i].phase # "rejected"
    BY <2>1, <2>3, AnsweredTyped, GoalsChangeInv
    DEF GoalResponse, driverVars, teleopVars, flags, TypeOK
  <2> QED BY <2>2, <2>3
<1>9. CASE Results
  BY <1>9, WithoutIsEmpty, GoalEndsInv DEF Results, ResultCallback, OneGoalInFlight
<1>10. CASE \E i \in DOMAIN goals : LossReported(i)
  BY <1>10, WithoutIsEmpty, GoalEndsInv DEF LossReported, OneGoalInFlight
<1>11. CASE ToggleArm
  BY <1>11
  DEF ToggleArm, TypeOK, ArmedMeansConnected, OneGoalInFlight, HeardInv, QuitInv, driverVars
<1>12. CASE \E key \in MotionKeys : SendOffset(key[1], key[2])
  <2>1. PICK axis \in Axes, sign \in {-1, 1} : SendOffset(axis, sign)
    BY <1>12, TeleopAssumption
  <2>2. Offset(axis, sign) \in [Axes -> Int]
    BY OffsetWithinSteps DEF TypeOK, HeardInv
  <2>3. goals = <<>>
    BY <2>1 DEF SendOffset, MaySend, OneGoalInFlight
  <2> DEFINE goal == [offset   |-> Offset(axis, sign),
                      velocity |-> steps.velocity,
                      phase    |-> IF driver = "up" THEN "requested" ELSE "lost",
                      answered |-> FALSE]
  <2>4. goal \in Goals /\ goals' = Append(goals, goal)
    BY <2>1, <2>2 DEF SendOffset, Goals, Phases, TypeOK, Settings
  <2>5. goals' \in Seq(Goals) /\ Len(goals') = 1
    BY <2>3, <2>4
  <2> QED
    BY <2>1, <2>5
    DEF SendOffset, MaySend, TypeOK, ArmedMeansConnected, OneGoalInFlight, HeardInv, QuitInv, driverVars
<1>13. CASE SendUnavailable
  BY <1>13
  DEF SendUnavailable, TypeOK, ArmedMeansConnected, OneGoalInFlight, HeardInv, QuitInv, driverVars
<1>14. CASE Adjust
  <2>0. PICK f \in Fields : \E chosen \in Choices(f) : steps' = [steps EXCEPT ![f] = chosen]
    BY <1>14 DEF Adjust, Fields
  <2>1. PICK chosen \in Choices(f) : steps' = [steps EXCEPT ![f] = chosen]
    BY <2>0
  <2>2. chosen \in 1 .. maxima[f]
    BY ChoicesBounded
  <2>3. steps' \in Settings /\ \A g \in Fields : steps'[g] <= maxima[g]
    BY <2>1, <2>2 DEF TypeOK, Settings, Fields, HeardInv
  <2> QED
    BY <1>14, <2>3
    DEF Adjust, TypeOK, ArmedMeansConnected, OneGoalInFlight, HeardInv, QuitInv, driverVars, flags
<1>15. CASE Quit
  BY <1>15
  DEF Quit, TypeOK, ArmedMeansConnected, OneGoalInFlight, HeardInv, QuitInv, driverVars, flags
<1>16. CASE Interrupt
  BY <1>16
  DEF Interrupt, TypeOK, ArmedMeansConnected, OneGoalInFlight, HeardInv, QuitInv, driverVars, flags
<1>17. CASE UNCHANGED vars
  BY <1>17
  DEF vars, TypeOK, ArmedMeansConnected, OneGoalInFlight, HeardInv, QuitInv, driverVars, flags
<1> QED
  BY <1>1, <1>2, <1>3, <1>4, <1>5, <1>6, <1>7, <1>8, <1>9, <1>10, <1>11,
     <1>12, <1>13, <1>14, <1>15, <1>16, <1>17 DEF Next

LEMMA Invariant == Spec => []IInv
<1> QED BY InitIInv, NextIInv, PTL DEF Spec

-----------------------------------------------------------------------------
(***************************************************************************)
(* The theorems.                                                           *)
(***************************************************************************)
\* Every reachable state is well typed: in particular no sequence of keys and
\* limits brings a step or the velocity to zero (_adjust_steps,
\* _status_callback).
THEOREM TypeCorrect == Spec => []TypeOK
<1>1. IInv => TypeOK
  BY DEF IInv
<1> QED BY <1>1, Invariant, PTL

\* The keyboard is disarmed by the first status that is not CONNECTED.
THEOREM ArmedOnlyConnected == Spec => []ArmedMeansConnected
<1>1. IInv => ArmedMeansConnected
  BY DEF IInv
<1> QED BY <1>1, Invariant, PTL

\* The flag holds back a second jog however answers, results and losses of a
\* driver interleave (_goal_response_callback, _result_callback).
THEOREM OneGoal == Spec => []OneGoalInFlight
<1>1. IInv => OneGoalInFlight
  BY DEF IInv
<1> QED BY <1>1, Invariant, PTL

\* Q does not leave a jog with the driver.
THEOREM QuitIsClean == Spec => []QuitLeavesNothing
<1>1. IInv => QuitLeavesNothing
  BY DEF IInv, QuitInv, QuitLeavesNothing
<1> QED BY <1>1, Invariant, PTL

\* Every jog sent is one that the driver heard last accepts for its size and
\* speed (_send_offset, validate_cartesian_offset, validate_cartesian_velocity).
THEOREM SendsWithinHeard == Spec => SentWithinHeard
<1> DEFINE Sound ==
      Len(goals') > Len(goals) =>
        LET goal == goals'[Len(goals')] IN
          /\ heard # NoStatus
          /\ ValidOffset(goal.offset, heard)
          /\ ValidVelocity(goal.velocity, heard)
<1>1. IInv /\ [Next]_vars => Sound
  <2> SUFFICES ASSUME IInv, [Next]_vars, Len(goals') > Len(goals)
               PROVE  LET goal == goals'[Len(goals')] IN
                        /\ heard # NoStatus
                        /\ ValidOffset(goal.offset, heard)
                        /\ ValidVelocity(goal.velocity, heard)
    OBVIOUS
  <2> USE DEF IInv
  <2>0. goals \in Seq(Goals) /\ Len(goals) \in Nat
    BY DEF TypeOK
  <2>1. goals' # goals
    BY <2>0
  <2>2. PICK key \in MotionKeys : SendOffset(key[1], key[2])
    <3>1. \A i \in DOMAIN goals, p \in Phases : goals' # [goals EXCEPT ![i].phase = p]
      BY <2>0, PhaseTyped
    <3>2. \A i \in DOMAIN goals : goals' # [goals EXCEPT ![i].answered = TRUE]
      BY <2>0, AnsweredTyped
    <3>3. \A i \in DOMAIN goals : goals' # Without(i)
      <4>1. Len(<<>>) = 0
        OBVIOUS
      <4> QED BY <2>0, <4>1, WithoutIsEmpty DEF OneGoalInFlight
    <3>4. ~DriverDies
      <4> SUFFICES ASSUME DriverDies PROVE FALSE
        OBVIOUS
      <4>1. DOMAIN goals' = DOMAIN goals
        BY DEF DriverDies
      <4>2. goals' \in Seq(Goals)
        BY NextIInv DEF TypeOK
      <4> QED BY <4>1, <4>2, <2>0, LenProperties
    <3>5. ~Decides /\ ~Finishes
      BY <3>1 DEF Decides, DriverDecides, Finishes, DriverFinishes, Phases
    <3>6. ~Responds /\ ~Results /\ ~(\E i \in DOMAIN goals : LossReported(i))
      BY <3>2, <3>3 DEF Responds, GoalResponse, Results, ResultCallback, LossReported
    <3> QED
      BY <2>1, <3>4, <3>5, <3>6
      DEF Next, vars, DriverStarts, Discovers, DriverPublishes, StatusCallback, ToggleArm,
          SendUnavailable, Adjust, Quit, Interrupt
  <2>3. PICK axis \in Axes, sign \in {-1, 1} : SendOffset(axis, sign)
    BY <2>2, TeleopAssumption
  <2>4. /\ heard # NoStatus /\ heard \in Settings
        /\ \A f \in Fields : steps[f] <= heard[f]
    BY <2>3 DEF SendOffset, HeardInv, TypeOK
  <2> DEFINE goal == [offset   |-> Offset(axis, sign),
                      velocity |-> steps.velocity,
                      phase    |-> IF driver = "up" THEN "requested" ELSE "lost",
                      answered |-> FALSE]
  <2>5. goals = <<>> /\ goals' = Append(goals, goal)
    BY <2>3 DEF SendOffset, MaySend, OneGoalInFlight
  <2>6. goals'[Len(goals')] = goal
    BY <2>5
  <2>7. ValidOffset(Offset(axis, sign), heard)
    BY <2>4, OffsetWithinSteps
  <2>8. ValidVelocity(steps.velocity, heard)
    BY <2>4 DEF ValidVelocity, TypeOK, Settings, Fields
  <2> QED BY <2>4, <2>6, <2>7, <2>8
<1>2. SentWithinHeard <=> [][Sound]_vars
  BY DEF SentWithinHeard
<1> HIDE DEF Sound
<1> QED BY <1>1, <1>2, Invariant, PTL DEF Spec
-----------------------------------------------------------------------------
(***************************************************************************)
(* Absolute targets.                                                       *)
(***************************************************************************)
\* The target under way is the one the client made and checked.
TargetInv ==
  target # None =>
    /\ read # None
    /\ target = [values |-> Resolved(read.plan, read.pose), velocity |-> read.plan.velocity]
    /\ ClientAdmits(read.plan, target.values, read.known)

TargetIInv == TargetTypeOK /\ TargetInv

-----------------------------------------------------------------------------
\* A completed plan is a target.
LEMMA ResolvedIsTarget ==
  ASSUME NEW plan \in Plans, NEW current \in Poses
  PROVE  Resolved(plan, current) \in [Axes -> Int] /\ plan.velocity \in Nat
  BY TargetsAssumption DEF Resolved

\* What the client admits under a driver's own limits, the driver admits.
LEMMA AdmittedByBoth ==
  ASSUME NEW plan \in Plans, NEW values \in [Axes -> Int], NEW own \in DriverLimits,
         own.reported = own.velocity, ClientAdmits(plan, values, own)
  PROVE  DriverAdmits(values, plan.velocity, own)
<1>1. own.velocity \in Nat \ {0} /\ plan.velocity \in Nat
  BY TargetsAssumption
<1>2. KnownVelocity(own) = own.velocity
  BY <1>1 DEF KnownVelocity
<1>3. ValidVelocity(plan.velocity, own)
  BY <1>1, <1>2 DEF ClientAdmits, ValidPlan, ValidVelocity
<1>4. ValidTarget(values, own)
  BY DEF ClientAdmits, InBounds, ValidTarget
<1> QED BY <1>3, <1>4 DEF DriverAdmits

LEMMA TargetInitHolds == TargetInit => TargetIInv
  BY DEF TargetInit, TargetIInv, TargetTypeOK, TargetInv

LEMMA ExecuteStep == TargetIInv /\ Execute => TargetIInv'
<1> SUFFICES ASSUME TargetIInv, Execute PROVE TargetIInv'
  OBVIOUS
<1> USE DEF TargetIInv
<1>1. PICK plan \in Plans :
        /\ ClientAdmits(plan, Resolved(plan, pose), status)
        /\ read' = [plan |-> plan, pose |-> pose, known |-> status]
        /\ target' = [values |-> Resolved(plan, pose), velocity |-> plan.velocity]
  BY DEF Execute
<1>2. status \in DriverLimits /\ pose \in Poses
  BY DEF Execute, TargetTypeOK
<1>3. target' \in Targets
  BY <1>1, <1>2, ResolvedIsTarget DEF Targets
<1>4. read' \in Origins /\ read' # None
  BY <1>1, <1>2, TargetsAssumption DEF Origins
<1>5. TargetTypeOK'
  BY <1>3, <1>4 DEF Execute, TargetTypeOK
<1>6. TargetInv'
  <2>1. read'.plan = plan /\ read'.pose = pose /\ read'.known = status
    BY <1>1
  <2>2. target'.values = Resolved(plan, pose)
    BY <1>1
  <2> QED BY <1>1, <1>4, <2>1, <2>2 DEF TargetInv, ClientAdmits, Resolved
<1> QED BY <1>5, <1>6

LEMMA TargetStepHolds == TargetIInv /\ [TargetNext]_targetVars => TargetIInv'
<1> SUFFICES ASSUME TargetIInv, [TargetNext]_targetVars PROVE TargetIInv'
  OBVIOUS
<1> USE DEF TargetIInv
<1>1. CASE ArmMoves
  BY <1>1 DEF ArmMoves, TargetTypeOK, TargetInv
<1>2. CASE DriverRestarts
  BY <1>2 DEF DriverRestarts, TargetTypeOK, TargetInv
<1>3. CASE StatusReceived
  BY <1>3 DEF StatusReceived, TargetTypeOK, TargetInv
<1>4. CASE Execute
  BY <1>4, ExecuteStep
<1>5. CASE Admit
  BY <1>5 DEF Admit, TargetTypeOK, TargetInv
<1>6. CASE Reject
  BY <1>6 DEF Reject, TargetTypeOK, TargetInv
<1>7. CASE UNCHANGED targetVars
  BY <1>7 DEF targetVars, TargetTypeOK, TargetInv
<1> QED BY <1>1, <1>2, <1>3, <1>4, <1>5, <1>6, <1>7 DEF TargetNext

LEMMA TargetInvariant == TargetSpec => []TargetIInv
  BY TargetInitHolds, TargetStepHolds, PTL DEF TargetSpec

-----------------------------------------------------------------------------
\* Every reachable state is well typed: a target sent is six integers and a
\* velocity, whatever the plan left out.
THEOREM TargetTypeCorrect == TargetSpec => []TargetTypeOK
  BY TargetInvariant, PTL DEF TargetIInv

\* A driver refuses a target the client has admitted only if its limits are not
\* the ones the client was told, for any limits.
THEOREM ClientAndDriverAgree == TargetSpec => ChecksAgree
<1>1. TargetIInv /\ [TargetNext]_targetVars => [Reject => read.known # limits \/ limits.reported # limits.velocity]_targetVars
  <2> SUFFICES ASSUME TargetIInv, Reject, read.known = limits, limits.reported = limits.velocity
               PROVE  FALSE
    OBVIOUS
  <2>1. target # None /\ target \in Targets /\ limits \in DriverLimits /\ read.plan \in Plans
    BY DEF TargetIInv, TargetTypeOK, TargetInv, Reject, Origins
  <2>2. ClientAdmits(read.plan, target.values, limits) /\ target.velocity = read.plan.velocity
    BY <2>1 DEF TargetIInv, TargetInv
  <2>3. DriverAdmits(target.values, target.velocity, limits)
    BY <2>1, <2>2, AdmittedByBoth DEF Targets
  <2> QED BY <2>3 DEF Reject
<1> QED BY <1>1, TargetInvariant, PTL DEF TargetSpec, ChecksAgree

\* The arm is sent to the named values and the measured rest, within the bounds of
\* the driver that sends it, for any plans and limits.
THEOREM NamedAxesMove == TargetSpec => NamedAxesMoveInBounds
<1> DEFINE Moved ==
      /\ \A a \in Axes \ read.plan.specified : reached'.values[a] = read.pose[a]
      /\ \A a \in read.plan.specified : reached'.values[a] = read.plan.values[a]
      /\ limits.enforced =>
           \A a \in Axes : reached'.values[a] >= limits.lower[a] /\ reached'.values[a] <= limits.upper[a]
      /\ reached'.velocity <= limits.velocity
<1>1. TargetIInv /\ [TargetNext]_targetVars => [reached' # reached => Moved]_targetVars
  <2> SUFFICES ASSUME TargetIInv, TargetNext, reached' # reached PROVE Moved
    OBVIOUS
  <2>1. Admit
    BY DEF TargetNext, ArmMoves, DriverRestarts, StatusReceived, Execute, Reject
  <2>2. target # None /\ target \in Targets /\ limits \in DriverLimits
        /\ read.plan \in Plans /\ read.pose \in Poses
    BY <2>1 DEF TargetIInv, TargetTypeOK, TargetInv, Admit, Origins
  <2>3. reached'.values = Resolved(read.plan, read.pose) /\ reached'.velocity = target.velocity
    BY <2>1, <2>2 DEF TargetIInv, TargetInv, Admit
  <2>4. read.plan.specified \subseteq Axes
    BY <2>2, TargetsAssumption
  <2>5. /\ \A a \in Axes \ read.plan.specified : reached'.values[a] = read.pose[a]
        /\ \A a \in read.plan.specified : reached'.values[a] = read.plan.values[a]
    BY <2>3, <2>4 DEF Resolved
  <2>6. target.values \in [Axes -> Int] /\ target.velocity \in Nat
        /\ limits.lower \in [Axes -> Int] /\ limits.upper \in [Axes -> Int] /\ limits.velocity \in Nat
    BY <2>2, TargetsAssumption DEF Targets
  <2>7. limits.enforced =>
          \A a \in Axes : target.values[a] >= limits.lower[a] /\ target.values[a] <= limits.upper[a]
    BY <2>1, <2>6 DEF Admit, DriverAdmits, ValidTarget
  <2>8. target.velocity <= limits.velocity
    BY <2>1, <2>6 DEF Admit, DriverAdmits, ValidVelocity
  <2> QED BY <2>1, <2>5, <2>7, <2>8 DEF Admit
<1> QED BY <1>1, TargetInvariant, PTL DEF TargetSpec, NamedAxesMoveInBounds
=============================================================================
