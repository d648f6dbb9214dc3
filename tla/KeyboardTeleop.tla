--------------------------- MODULE KeyboardTeleop ---------------------------
(***************************************************************************)
(* FanucpyKeyboardTeleop: one operator at a keyboard, a driver that may    *)
(* die and be started again with other limits, and the jogs between them.  *)
(*                                                                         *)
(* The loop of run() handles one callback or one key at a time, so each is *)
(* a step.  What a key is called is left out; what it does is not.         *)
(***************************************************************************)
EXTENDS CartesianValidation, Sequences

CONSTANTS
  Configurations,  \* what a driver may be started with
  FirstMaxima,     \* the keyboard's own max_* parameters
  FirstSteps,      \* its step and velocity parameters
  MotionKeys,      \* the axis and sign of each motion key
  NoStatus         \* no status has been received

Settings == [translation : Nat \ {0}, rotation : Nat \ {0}, velocity : Nat \ {0}]

ASSUME TeleopAssumption ==
  /\ Configurations \subseteq [limits : Settings, enabled : BOOLEAN]
  /\ Configurations # {}
  /\ FirstMaxima \in Settings
  /\ FirstSteps \in Settings
  /\ \A f \in DOMAIN FirstSteps : FirstSteps[f] <= FirstMaxima[f]
  /\ MotionKeys \subseteq Axes \X {-1, 1}
  /\ NoStatus \notin Settings \cup [connected : BOOLEAN, config : Configurations]

VARIABLES
  driver,           \* whether the driver's process runs
  config,           \* what it was started with
  mail,             \* the status the subscription holds; its depth is one
  ready,            \* server_is_ready, which lags behind the driver
  goals,            \* the jogs whose last callback has not run
  armed,            \* _armed
  driverConnected,  \* _driver_connected
  motionEnabled,    \* _motion_commands_enabled
  goalInFlight,     \* _goal_in_flight
  maxima,           \* max_*
  steps,            \* translation_step_mm, rotation_step_deg, velocity
  session,          \* whether run() goes on, and how it ended
  heard             \* history: what the last status said of the limits

driverVars == <<driver, config, mail, ready>>
flags == <<armed, driverConnected, motionEnabled, goalInFlight>>
vars == <<driverVars, goals, flags, maxima, steps, session, heard>>

Statuses == [connected : BOOLEAN, config : Configurations]

\* A jog is requested until the driver decides; a lost one is with nobody.
Phases == {"requested", "rejected", "accepted", "done", "lost"}
Goals == [offset : [Axes -> Int], velocity : Nat, phase : Phases, answered : BOOLEAN]

TypeOK ==
  /\ driver \in {"up", "down"}
  /\ config \in Configurations
  /\ mail \in Statuses \cup {NoStatus}
  /\ {ready, armed, driverConnected, motionEnabled, goalInFlight} \subseteq BOOLEAN
  /\ goals \in Seq(Goals)
  /\ maxima \in Settings
  /\ steps \in Settings
  /\ session \in {"running", "quit", "interrupted"}
  /\ heard \in Settings \cup {NoStatus}

Init ==
  /\ driver = "down"
  /\ config \in Configurations
  /\ mail = NoStatus
  /\ ready = FALSE
  /\ goals = <<>>
  /\ armed = FALSE
  /\ driverConnected = FALSE
  /\ motionEnabled = FALSE
  /\ goalInFlight = FALSE
  /\ maxima = FirstMaxima
  /\ steps = FirstSteps
  /\ session = "running"
  /\ heard = NoStatus

-----------------------------------------------------------------------------
(***************************************************************************)
(* The driver.                                                             *)
(***************************************************************************)
teleopVars == <<flags, maxima, steps, session, heard>>

DriverStarts ==
  /\ driver = "down"
  /\ driver' = "up"
  /\ config' \in Configurations
  /\ UNCHANGED <<mail, ready, goals, teleopVars>>

\* A jog the driver has not finished is lost with it, and so is one whose
\* result has not been asked for; a result under way may still arrive.
Lost(goal) == [goal EXCEPT !.phase = "lost"]

DriverDies ==
  /\ driver = "up"
  /\ driver' = "down"
  /\ goals' \in {[i \in DOMAIN goals |->
                    IF goals[i].phase = "rejected" \/ (goals[i].phase = "done" /\ goals[i].answered /\ kept)
                    THEN goals[i] ELSE Lost(goals[i])] : kept \in BOOLEAN}
  /\ UNCHANGED <<config, mail, ready, teleopVars>>

\* The action server is found, or found to have gone.
Discovers ==
  /\ ready # (driver = "up")
  /\ ready' = (driver = "up")
  /\ UNCHANGED <<driver, config, mail, goals, teleopVars>>

\* _publish_status: a status that has not been read is overwritten.
DriverPublishes ==
  /\ driver = "up"
  /\ \E connected \in BOOLEAN : mail' = [connected |-> connected, config |-> config]
  /\ UNCHANGED <<driver, config, ready, goals, teleopVars>>

Acceptable(goal) ==
  /\ config.enabled
  /\ ValidOffset(goal.offset, config.limits)
  /\ ValidVelocity(goal.velocity, config.limits)

\* _cartesian_jog_goal_callback.  A jog may also be refused because the robot is
\* not connected or another command holds it.
DriverDecides(i) ==
  /\ driver = "up"
  /\ goals[i].phase = "requested"
  /\ \E answer \in {"rejected", "accepted"} :
       /\ answer = "accepted" => Acceptable(goals[i])
       /\ goals' = [goals EXCEPT ![i].phase = answer]
  /\ UNCHANGED <<driverVars, teleopVars>>

\* _execute_cartesian_jog returns, whatever came of it.
DriverFinishes(i) ==
  /\ driver = "up"
  /\ goals[i].phase = "accepted"
  /\ goals' = [goals EXCEPT ![i].phase = "done"]
  /\ UNCHANGED <<driverVars, teleopVars>>

-----------------------------------------------------------------------------
(***************************************************************************)
(* Callbacks.                                                              *)
(***************************************************************************)
Least(m, n) == IF m <= n THEN m ELSE n
Greatest(m, n) == IF m <= n THEN n ELSE m

\* Mutant: the steps chosen before are kept.
NotReduced(limits) == steps

Reduced(limits) == [f \in DOMAIN steps |-> Least(steps[f], limits[f])]

\* Mutant: a status that is not CONNECTED leaves the keyboard armed.
NeverDisarmed(connected) == armed

StillArmed(connected) == armed /\ (driverConnected => connected)

\* _status_callback.  A driver always reports a velocity above zero.
StatusCallback ==
  /\ session = "running"
  /\ mail # NoStatus
  /\ mail' = NoStatus
  /\ motionEnabled' = mail.config.enabled
  /\ maxima' = mail.config.limits
  /\ steps' = Reduced(mail.config.limits)
  /\ armed' = StillArmed(mail.connected)
  /\ driverConnected' = mail.connected
  /\ heard' = mail.config.limits
  /\ UNCHANGED <<driver, config, ready, goals, goalInFlight, session>>

Without(i) == SubSeq(goals, 1, i - 1) \o SubSeq(goals, i + 1, Len(goals))

\* Mutant: an accepted jog no longer counts as in flight.
AcceptanceIsEnough(i) ==
  /\ session = "running"
  /\ ~goals[i].answered
  /\ goals[i].phase \in {"rejected", "accepted", "done"}
  /\ goalInFlight' = FALSE
  /\ goals' = IF goals[i].phase = "rejected"
              THEN Without(i)
              ELSE [goals EXCEPT ![i].answered = TRUE]
  /\ UNCHANGED <<driverVars, armed, driverConnected, motionEnabled, maxima, steps, session, heard>>

\* _goal_response_callback: after a rejection nothing more is expected, after an
\* acceptance the result is.
GoalResponse(i) ==
  /\ session = "running"
  /\ ~goals[i].answered
  /\ goals[i].phase \in {"rejected", "accepted", "done"}
  /\ IF goals[i].phase = "rejected"
     THEN /\ goalInFlight' = FALSE
          /\ goals' = Without(i)
     ELSE /\ goals' = [goals EXCEPT ![i].answered = TRUE]
          /\ UNCHANGED goalInFlight
  /\ UNCHANGED <<driverVars, armed, driverConnected, motionEnabled, maxima, steps, session, heard>>

\* Mutant: the callback returns on a failure before it has cleared the flag.
FailureKeepsFlag(i) ==
  /\ session = "running"
  /\ goals[i].answered
  /\ goals[i].phase = "done"
  /\ goalInFlight' \in BOOLEAN
  /\ goals' = Without(i)
  /\ UNCHANGED <<driverVars, armed, driverConnected, motionEnabled, maxima, steps, session, heard>>

\* _result_callback.
ResultCallback(i) ==
  /\ session = "running"
  /\ goals[i].answered
  /\ goals[i].phase = "done"
  /\ goalInFlight' = FALSE
  /\ goals' = Without(i)
  /\ UNCHANGED <<driverVars, armed, driverConnected, motionEnabled, maxima, steps, session, heard>>

\* The client library may report a lost jog as an exception, in either callback.
LossReported(i) ==
  /\ session = "running"
  /\ goals[i].phase = "lost"
  /\ goalInFlight' = FALSE
  /\ goals' = Without(i)
  /\ UNCHANGED <<driverVars, armed, driverConnected, motionEnabled, maxima, steps, session, heard>>

-----------------------------------------------------------------------------
(***************************************************************************)
(* Keys.                                                                   *)
(***************************************************************************)
\* _toggle_arm; without its conditions the key does nothing.
ToggleArm ==
  /\ session = "running"
  /\ armed \/ (driverConnected /\ motionEnabled /\ ready)
  /\ armed' = ~armed
  /\ UNCHANGED <<driverVars, goals, driverConnected, motionEnabled, goalInFlight, maxima, steps, session, heard>>

Offset(axis, sign) ==
  [a \in Axes |-> IF a # axis THEN 0
                  ELSE sign * (IF a \in Linear THEN steps.translation ELSE steps.rotation)]

MaySend == session = "running" /\ armed /\ ~goalInFlight

\* _send_offset.  Without a driver the request goes nowhere.
SendOffset(axis, sign) ==
  /\ MaySend
  /\ driverConnected /\ ready
  /\ goals' = Append(goals,
                [offset   |-> Offset(axis, sign),
                 velocity |-> steps.velocity,
                 phase    |-> IF driver = "up" THEN "requested" ELSE "lost",
                 answered |-> FALSE])
  /\ goalInFlight' = TRUE
  /\ UNCHANGED <<driverVars, armed, driverConnected, motionEnabled, maxima, steps, session, heard>>

\* _send_offset finds the driver or its action server gone.
SendUnavailable ==
  /\ MaySend
  /\ ~(driverConnected /\ ready)
  /\ armed' = FALSE
  /\ UNCHANGED <<driverVars, goals, driverConnected, motionEnabled, goalInFlight, maxima, steps, session, heard>>

BoundedStep(current, change, minimum, maximum) ==
  Least(Greatest(current + change, minimum), maximum)

\* Rounding to the nearest, ties to the even number.
Rounded(n, d) ==
  LET q == n \div d IN
    IF 2 * (n % d) < d \/ (2 * (n % d) = d /\ q % 2 = 0) THEN q ELSE q + 1

VelocityPreset(percent) == Greatest(1, Rounded(maxima.velocity * percent, 100))
VelocityIncrement == Greatest(1, Rounded(maxima.velocity * 5, 100))

\* _adjust_steps and _adjust_velocity: what the keys can make of each setting.
Choices(f) ==
  CASE f = "translation" ->
         {Least(preset, maxima.translation) : preset \in {10, 50, 100, 250, 500}}
         \cup {BoundedStep(steps.translation, change, 10, maxima.translation) : change \in {-10, 10}}
    [] f = "rotation" ->
         {BoundedStep(steps.rotation, change, 5, maxima.rotation) : change \in {-5, 5}}
    [] f = "velocity" ->
         {VelocityPreset(percent) : percent \in {10, 25, 50, 75, 100}}
         \cup {BoundedStep(steps.velocity, change, 1, maxima.velocity) :
                 change \in {-VelocityIncrement, VelocityIncrement}}

Adjust ==
  /\ session = "running"
  /\ \E f \in {"translation", "rotation", "velocity"} :
       \E chosen \in Choices(f) : steps' = [steps EXCEPT ![f] = chosen]
  /\ UNCHANGED <<driverVars, goals, flags, maxima, session, heard>>

\* Mutant: Q quits whatever is in flight.
QuitAnyway ==
  /\ session = "running"
  /\ session' = "quit"
  /\ UNCHANGED <<driverVars, goals, flags, maxima, steps, heard>>

\* Q is refused, and not remembered, while a jog is in flight.
Quit ==
  /\ session = "running"
  /\ ~goalInFlight
  /\ session' = "quit"
  /\ UNCHANGED <<driverVars, goals, flags, maxima, steps, heard>>

\* Ctrl-C.
Interrupt ==
  /\ session = "running"
  /\ session' = "interrupted"
  /\ UNCHANGED <<driverVars, goals, flags, maxima, steps, heard>>

-----------------------------------------------------------------------------
Responds == \E i \in DOMAIN goals : GoalResponse(i)
Results == \E i \in DOMAIN goals : ResultCallback(i)
Decides == \E i \in DOMAIN goals : DriverDecides(i)
Finishes == \E i \in DOMAIN goals : DriverFinishes(i)

Next ==
  \/ DriverStarts \/ DriverDies \/ Discovers \/ DriverPublishes \/ Decides \/ Finishes
  \/ StatusCallback \/ Responds \/ Results
  \/ \E i \in DOMAIN goals : LossReported(i)
  \/ ToggleArm
  \/ \E key \in MotionKeys : SendOffset(key[1], key[2])
  \/ SendUnavailable \/ Adjust \/ Quit \/ Interrupt

Spec == Init /\ [][Next]_vars

\* run() goes on spinning, and the driver's executor with its own callbacks.
Fairness ==
  /\ WF_vars(Responds)
  /\ WF_vars(Results)
  /\ WF_vars(Decides)
  /\ WF_vars(Finishes)

FairSpec == Spec /\ Fairness

-----------------------------------------------------------------------------
(***************************************************************************)
(* Properties.                                                             *)
(***************************************************************************)
\* A jog that the driver may still carry out.
Alive(goal) == goal.phase \in {"requested", "accepted"}

\* The keyboard is armed only as long as the last status it read said CONNECTED:
\* an operator whose driver went away has to arm it again (_status_callback).
ArmedMeansConnected == armed => driverConnected

\* At most one jog is under way, and the in-flight flag says so, whichever of
\* answer, result and loss comes when (_goal_response_callback, _result_callback).
OneGoalInFlight ==
  /\ Len(goals) <= 1
  /\ goals # <<>> => goalInFlight

\* Q never leaves a jog behind with the driver.
QuitLeavesNothing ==
  session = "quit" => \A i \in DOMAIN goals : ~Alive(goals[i])

\* A jog is never sent that the driver which was heard last would refuse for its
\* size or speed, whatever keys and limits came before.
SentWithinHeard ==
  [][Len(goals') > Len(goals) =>
       LET goal == goals'[Len(goals')] IN
         /\ heard # NoStatus
         /\ ValidOffset(goal.offset, heard)
         /\ ValidVelocity(goal.velocity, heard)]_vars

\* Only a jog whose driver died keeps the keyboard locked: every other one is
\* answered, and the flag is cleared.
LockedOnlyByALoss ==
  goalInFlight ~>
    \/ ~goalInFlight
    \/ session # "running"
    \/ \E i \in DOMAIN goals : goals[i].phase = "lost"
=============================================================================
