# A TLA+ verification of fanucpy_ros2

fanucpy_ros2 lets ROS 2 clients move a FANUC arm.  A driver node owns the one
TCP session to the controller's KAREL server (MAPPDK); MoveIt, keyboard
teleoperation, a prompt planner and an assistant send it actions and service
calls.  The modules here model the controller's tasks, the driver with its
transport and its trajectory controller, the clients from a prompt or a key to
the goal they send, and the vision bridge, as state machines; TLC checks them on
small instances and TLAPS proves their main safety properties for every value of
the constants.

## 1. The system

| Component | State | Operations | Talks to |
|---|---|---|---|
| MAPPDK server (`mappdk_server.kl`, `mappdk_comm.kl`, `mappdk_cmd.kl`) | the open socket, the command being handled, the arm | accept a client, READ, HANDLE_CMD, WRITE, close | one client, by unnumbered commands and replies |
| MAPPDK logger (`mappdk_logger.kl`) | its own socket; shares registers with the server | the same loop on another port | any client |
| Transport (`transport.py`) | robot object, connected flag, lock | connect, disconnect, read_state, jog, absolute move, joint move, registers, outputs, gripper, power, program call with session recycling | MAPPDK server |
| Driver node (`driver_node.py`) | command reservation, cached joints, stop event | connection worker (thread); goal and execute callbacks, services (executor thread); stop | transport; ROS clients |
| Trajectory controller (`controller.py`, `validation.py`) | none of its own (reservation and cache are the driver's) | validate, accept, run waypoints | driver, by callbacks |
| Command validation (`motion.py`) | none | pure checks of offsets, targets, velocities | driver |
| Keyboard teleop | armed, connected, goal in flight, limits, steps | key handling, action callbacks, status callback | driver |
| Planner client (`prompt_control.py`), task plans (`task_plans.py`) | latest status and states with time of receipt | waits, readiness checks, completion of partial targets, durations of joint targets, four kinds of goal | driver |
| Local model prompt (`ollama_prompt.py`, `ollama_client.py`) | the planner client's; conversation history | prompt, preview, confirmation, execution, display of the state after it | planner client; Ollama |
| Vision context (`vision_context.py`) | none | aliases and ordinals of objects, answers about coordinates | local model prompt, assistant |
| Vision bridge | latched status | validate, calibrate and republish a detection batch | detector; assistant |
| Assistant (`assistant.py`, `workflows.py`, `vision_motion.py`) | latest vision batch, planner client's state | alignment, pick, drop, home, selection and re-identification of objects | planner client, vision bridge, driver |
| Named tasks and example programs | catalogs read at start | run a stored plan; launch a program in the foreground | planner client; child processes |
| Launch files, interfaces, conversions, help texts | none | start-up, message types, trigonometry, text | |

What is hard about it:

- **Two threads, one socket.**  The worker polls, reconnects and disconnects
  whenever it likes; callbacks send commands through the same lock.  `connected`
  is read in one lock section and used in another.
- **Replies are matched by counting.**  A command carries no number and a reply
  names no command.  Whether a timeout leaves a reply behind decides whom the
  next reply is credited to.
- **Timeouts do not stop anything.**  A motion that outlives its socket timeout
  still moves.
- **Session recycling.**  A program call may leave the server mute, so the
  driver closes the session, reconnects in a loop with a deadline and probes the
  new session, all under the lock.
- **Goals wait between acceptance and execution**, and a request that arrives
  during an execution waits for the only executor thread.
- **Cached state.**  The joints a trajectory is checked against were published
  by the last poll or waypoint; the clients above the driver judge freshness by
  the time at which a message was received, and read their subscriptions only
  while they wait for something.
- **An operator in the loop.**  Between what is shown and what is confirmed,
  and between the confirmation and the goal, the driver may restart with other
  gates, the arm and the objects may move, and a track ID may get a new owner.
- **Goals outlive their clients' patience.**  A goal given up on may still be
  accepted, run, and end under the next prompt.
- **The same check in two programs.**  Bounds, velocities and joint limits are
  checked by the client and again by the driver, and a speed crosses between
  them as a duration.
- **Two KAREL tasks, one set of registers.**

What makes each component correct:

- server and transport: a reply is credited to the command it answers, an effect
  is sent only when the controller is done with every earlier command, and a jog's
  target is computed from the pose the arm has.  All three hold on a session on
  which no reply was given up.  A program call, query or write that outlasts its
  short timeout keeps its session, and from then on the replies lag: the next
  effect is sent while at most that many earlier commands are unfinished, a program
  among them, and a jog may start from an earlier pose;
- driver: one command owns the robot at a time and nothing acts without an
  owner or more often than it was asked to; the reservation is given back on
  every path; a dead session is dropped; a stop ends the worker with no session
  left open;
- trajectory controller: it commands only validated points, in order, from where
  the arm is, and stops at the first that is missed;
- clients: they act on state as fresh as they claim, send nothing unconfirmed or
  twice, say "nothing was sent" and "done" only when it is so, let nothing
  through that the driver refuses, and always come back to the operator;
- vision bridge: a batch is admitted whole or not at all, and the latched status
  is about the batch handled last;
- assistant: words select the object they were answered with unless they name two
  objects of one word, a confirmed target
  is the same object near where it was shown, a stage follows only a stage that
  was seen to end where it should, and a launched program is waited for;
- KAREL tasks: a move runs with its own registers but for those another task has
  written since.

## 2. Modules

| Module | What it models |
|---|---|
| `MappdkServer` | the KAREL task: its socket, its two streams, the command it handles, the arm |
| `Transport` | `FanucpyTransport`: lock, session, exchange of each method, timeouts, reset, recycling; extends `MappdkServer` |
| `Driver` | `FanucpyDriverNode`: worker, executor, reservation, joint cache, shutdown; extends `Transport`; states the properties |
| `CommandOwnership` | the abstract promise of the driver: one owner, a bounded number of effects for it |
| `DriverProofs` | the theorems about `Driver` |
| `TrajectoryValidation` | the pure checks on a joint trajectory and the choice of its points and speeds |
| `TrajectoryController` | `FanucpyFollowJointTrajectoryServer`: accepting and executing a trajectory; extends `TrajectoryValidation` |
| `TrajectoryProofs` | the theorems about `TrajectoryController` and `JointTargets` |
| `CartesianValidation` | the checks on a Cartesian jog |
| `KeyboardTeleop` | `FanucpyKeyboardTeleop` against drivers that come and go; extends `CartesianValidation` |
| `MappdkTasks` | the two KAREL tasks statement by statement, where they share registers and outputs |
| `TasksProofs` | the theorems about `MappdkTasks` |
| `CartesianTargets` | an absolute target from the plan through the client's and the driver's checks to the arm; extends `CartesianValidation` |
| `CartesianProofs` | the theorems about `KeyboardTeleop` and `CartesianTargets` |
| `JointTargets` | a joint target turned into a trajectory by the client, put before the controller of `TrajectoryController`, which it extends |
| `ConfirmedCommands` | the abstract promise of every prompt program: shown, confirmed, sent once, in order, reported when done |
| `PlannerClient` | `FanucpyPromptControl`: queues, cached messages and their age, waits, checks, goals; the driver as environment |
| `ClientProofs` | the lemmas about `PlannerClient` that the next two modules of proofs share |
| `PromptSession` | `fanucpy_ollama` and `fanucpy_prompt`: one prompt to the state shown after its goal; extends `PlannerClient` |
| `PromptProofs` | the theorems about `PromptSession` |
| `AssistantWorkflow` | alignment, pick, drop and home; extends `PlannerClient` |
| `VisionBridge` | `FanucpyVisionBridge`: validation, calibration, message, status |
| `ObjectSelection` | aliases, ordinals, answers, the object a request selects and the targets built for it; extends `VisionBridge` |
| `VisionProofs` | the theorems about `VisionBridge` and `ObjectSelection` |
| `ExamplePrograms` | inspection, confirmation and `run_foreground`, with signals, terminal and child |
| `AssistantProofs` | the theorems about `AssistantWorkflow` and `ExamplePrograms` |
| `MC*` | the instances TLC checks |

The driver appears at three levels of detail.  `Driver` has its threads and the
socket; `TrajectoryController` has its arithmetic; `PlannerClient` has what a
client can tell apart: it accepts one goal at a time if its gates allow it,
rejects any, finishes or loses it.  That it runs one command at a time and
answers or fails is what `ReservationMatchesOwner` and `ReservationReleased` show
of `Driver`.

### MappdkServer

`peer` is where the task is: in `MSG_CONNECT` ("listening"), serving an open
socket, or open and no longer answering ("mute": some builds stop servicing a
socket after `mappdkcall`, which is why the driver recycles sessions).  `linked`
says that the server's open socket is the client's current one; it turns false
when either side closes or dies.  `inbuf`, `running` and `replies` are the
commands received, the one in `HANDLE_CMD`, and the replies not yet received.
A command is reduced to what it does (`Effects`, `StateQueries`, "read"), a
reply to its kind, its code and, for a state query, the position reported.

`ServerRead`, `ServerFinish` and `ServerReopen` are the READ, the HANDLE_CMD
with its WRITE, and the end of the inner loop with CLOSE_COMM and OPEN_COMM.
A command that was received before the client closed its socket may still be
read and carried out.  `ServerFinish` answers a move with `1:...` only when it
has refused it before the motion program was called, and a program may fail
after it has moved the arm (`mappdk_call_child.kl.inc`).  `ServerCrash` is a
power cycle or the loss of the network: the client is not told.

### Transport

An operation is a plan: the commands a method sends, one at a time, each
waiting for the next reply, with the lock held throughout (`Plan`).  `Begin`
takes the lock and raises when there is no session; `Send`, `Receive` and
`WaitFails` are `send_cmd`; `Raise` is what each method does with an exception:
a motion's OSError resets the session (`_run_motion_unlocked`), an exception in
the recovery probe closes and retries, and everything else leaves the socket
open.  `Accept` takes a reply; a program's reply starts the recycling
(`ConnectOk`, `Probe`, `RecycleDeadline`).  `Parses` says which wrong replies a
method would swallow: a move, a program and a write look only at the code.

`acted`, `abandoned`, `dispatched`, `unbacked` and `unverified` are history
variables: they record what a property needs and guard nothing.  `abandoned`
counts the replies given up on the session under way: by a timeout of anything but
a motion, which resets the session instead, and by an interrupt while a reply is
awaited.  It is what the code does not keep: each reply given up shifts all later
ones by one until the session is closed.

Abstracted: time (a wait may end by its timeout at any moment), the
`settimeout`/`gettimeout` bracket, two replies returned by one `recv`, the
contents of commands, the validation of arguments (which raises before anything
is sent, as does `Reject`).  `fanucpy` itself is not part of the repository;
`send_cmd` and `connect` are modelled from their use.

### Driver

`wpc` is where the worker is in `_connection_worker`, `epc` where the executor
is.  A request arrives (`Arrive`), waits until the executor is idle (`Take`),
and is rejected, accepted with the reservation taken, or started.  An accepted
goal is a task that runs later (`StartGoal`), and a further request may be taken
before it.  A callback checks `connected` (`Check`), calls its transport method
(`Enter`), takes the result (`Return`) and releases (`Finish`).  A trajectory
repeats the middle part for every waypoint it has to command.  `Shutdown` is a
Ctrl-C at any point with its unwinding and `stop()`.

The parameter gates are read once, so they are the constant `Enabled`.  Values
out of range are a `Reject` at any time.  Publishing of status and Cartesian
state is left out; of `_publish_snapshot` the joint cache remains.  Which
waypoints are skipped and whether a measured position is in tolerance is a
choice here.  When the process exits the daemon worker dies with it;
`StopEndsWorker` is about a process that lives long enough.  A publisher that
raises after the ROS context has been shut down is not modelled; the feedback an
absolute move or a program publishes before its `try` block (`driver_node.py:934`,
`driver_node.py:1057`) is one, and the reservation it would leave behind belongs
to a process that is ending.

### TrajectoryValidation and TrajectoryController

`ValidTrajectory` is `validate_trajectory` with the refusals of
`_validated_request`; `Reordered` puts a point's values into the driver's order
of the joints; `FirstCommanded` is `select_execution_points`; `SegmentPercent`
is `segment_velocity_percent`, over `Needed`, the percentages the joints ask
for.  Angles and times are integers, so the quotients and their rounding up are
exact: what binary floating point adds (a product of 7.000000000000001 becomes
8 percent) is not modelled.  `supported` stands for everything that is refused
without looking at a joint: unsupported fields, accelerations of the wrong
length, values that are not finite.

In the controller `pc` is where a goal is (`_goal_callback` has accepted it,
`_execute_callback` runs), `next` and `previous` are the loop's point and
`previous_positions`, `reserved`, `cache` and `connected` belong to the driver.
`GoalAccepted` and `Begin` both check `Startable`; each turn of the loop is one
of `Blocked` (`can_execute` says no), `Skip`, `Reaches`, `Misses` and `Fails`;
`Ends` is the result with the `finally` clause.  A rejected goal changes
nothing and has no action.  `move` and `moved` record the commands sent.

Where `Driver` splits a waypoint into the steps of the transport and leaves
tolerances to choice, this module does the opposite: a waypoint is one step
that leaves the arm anywhere in `Positions`, and tolerances, modes and speeds
are computed.  A poll is one step too (`Driver` has its delay); jogs, absolute
moves and programs move the arm and leave the joint cache as it was, as in the
code, and so does the loss of a session.

### KeyboardTeleop and CartesianValidation

`run()` spins once and reads one key per turn, so every callback and every key
is a step.  `armed`, `driverConnected`, `motionEnabled`, `goalInFlight`, `steps`
and `maxima` are the node's fields; `goals` holds the jogs of which the node
still expects a callback, each with where it is: requested, rejected, accepted,
done, or lost with the driver that had it.  `GoalResponse` and `ResultCallback`
are the two callbacks, `LossReported` their exception branches.  `Choices` is
what the keys of `_adjust_steps` and `_adjust_velocity` make of a setting; tenths
of a millimetre and of a degree are integers.

Of the driver there remains what a keyboard can tell apart: it starts with any of
`Configurations`, publishes its status, decides about a jog by `Acceptable` (or
refuses it because it is not connected or busy, which is a choice here and
computed in `Driver`), finishes it, and dies.  The status subscription is one
message, `mail`, overwritten when it has not been read.  `server_is_ready` lags
behind the process.  That a driver's death is silent for its goals, or reported
by an exception, is how the client library is used here: both are possible.

`heard` is a history variable: the limits in the status read last.

### MappdkTasks

A task is at a statement: it writes R[81], R[82] and R[83] (`PutNumber`), tests
the position (`Reachable`), writes PR[81] (`PutPosition`) and calls the motion
program (`CallMove`), whose one line reads all four.  The four settings of a move
are written and read in the order of MOVEJ and MOVEL; refusals in between answer
and leave what was written.  The program holds the motion group; what the
controller does with a second one is external and ends the task that called
(`CallAborted`).  MAPPDKCALL calls a program of the controller's, with or without
the motion group (`CallProgram`), that may write any register and output while it
runs (`ProgramWrites`).  `TestOutput` and `PutBack` are the two statements of
GET_RDO and GET_DOUT.  `curpos`, `curjpos`, `ins_pwr` and `setsysvar` touch nothing the
tasks share and are left out.  `disturbed` is a history variable: which of the
things its command goes by another task has written since the task read the
command, or wrote the thing itself.

### PlannerClient, PromptSession and ConfirmedCommands

`mail` holds the messages in each subscription's queue, `latest` the one whose
callback ran last, with its age since then; `notice` and `status` are the same
for the driver's status.  Callbacks run only where the program spins (`Spin`),
so messages pile up while it waits for the model, the operator or an action
server, and a "fresh" message may have been measured at any time before.  Time is
`Elapse`: the age of every message received and the time left of the wait under
way.  `Fresh`, `Missed` and `Seeking` are the three states of a wait;
`since` says that a message was received after the instant the program took as
`received_after`.  `goals` holds every goal ever sent
with what became of it at the driver, so a goal that was given up on goes on
there.

`PromptSession`'s `pc` follows `_execute_decision` and its helpers: a jog and a
program are checked before the operator is asked, a target and a joint target
are read, completed and checked before and again after.  `mode` tells
`fanucpy_ollama --execute`, `fanucpy_ollama` and `fanucpy_prompt --execute` apart.
The answer of the model is any plan, no plan or a failure.  `Interrupt` is a
Ctrl-C anywhere.  A check that depends on the measured state (bounds of an
absolute target, joint limits) may refuse in any case here; the two modules that
follow compute them.

`ConfirmedCommands` is the specification both `PromptSession` and
`AssistantWorkflow` implement: `Ask`, `Offer`, `Approve`, `Issue` the next
command if the one before has succeeded, `Withdraw` at any time, `Report` when
all have succeeded.

### CartesianTargets and JointTargets

`Resolved` completes a partial target from the pose measured; `ClientAdmits` and
`DriverAdmits` are the checks of the two programs over the limits of the status
received and those of the driver that runs, which may have been restarted in
between.  `JointTargets` is a client in front of the whole of
`TrajectoryController`: `Durations` are what `joint_motion_duration_sec` and
`_set_duration` make of a percentage (a message rounds to ticks; the margin is one
tick in `Ticks`, as one nanosecond in 10^9), and the controller turns the
trajectory back into a percentage.  `OtherGoal` is a trajectory of another client,
so that the controller is not the planner's alone.  The driver's check
of the frame is left out: client and driver are taken to be configured with one
`frame_id`, which the client puts into every goal.

### AssistantWorkflow

One place of `pc` per wait or decision of the workflows: the batch the object is
selected in, the maximum speed, the pose, the question, the refresh of batch and
pose after it, and for every stage its check, its goal and its verification.  A
detected object is where it is seen, or `Gone` when track, label, identity
source, frame or calibration are not those previewed; a pose is the stage target
it lies within tolerance of, by name.  `LimitFell` is the `PromptParseError` that
leaves the program when the driver's speed limit has fallen below the speed
requested.

### VisionBridge and ObjectSelection

Of a batch remains what decides about it: each part of its text is good, refused
by a `DetectionSchemaError`, or raises something else, and the first that is not
good counts (`Checks`, `Verdict`).  The calibration is integer arithmetic, with the
edge of the belt the detector measured from.  `inbox` has a depth of one.

`ObjectSelection` stands behind the bridge: what it selects from are the messages
the bridge has published.  It reads a request as the names, the track ID and the ordinals
found in it.  `Answered` is `coordinate_question_answer`, `Selected` is
`parse_vision_motion`: two functions written apart.  They treat the word object
without a number differently, and what a number beyond the last or zero means; and a
label of one word is looked for after "of", "for", "is" or before an ordinal by the one
(`told`, `ToldName`), after "to", "towards", "with", "above", "over" by the other
(`aimed`, `AimedName`).  Both take the first that fits in the order of `exact_names`,
longest first and then by the alphabet (`Precedence`).  Labels stand for their
normalized words, so two that differ in punctuation alone are one.  `Reacquired` is `select_visible_track`.  `Buildable` and `Stages` are the
targets with their bounds on travel, shift and height.

### ExamplePrograms

`place` goes through `_process_example` and every statement of `run_foreground` that
a Ctrl-C can fall between; `CtrlC` reaches the assistant and the child at once.
`handler` is what SIGINT does to the assistant and `child.sigint` what the child
inherited.  `nodes` run, `graph` is what discovery has shown of them; `standing`
is history.

## 3. Runs

| Run | Checks | Shows |
|---|---|---|
| `driver` (`MCDriver.cfg`) | `ReservationMatchesOwner`, `WorkerEndsDisconnected`, `MisattributionNeedsTimeout`, `EffectsDoNotOverlap`, `JogStartsFromLivePose`, `ImplementsOwnership` | the safety of the whole composition |
| `driver_live` (`MCDriverLive.cfg`) | `ReservationReleased`, `DeadSessionDropped`, `StopEndsWorker` | what must eventually happen |
| `driver_stale_reply` (`MCDriverStaleReply.cfg`) | `SuccessMeansCompleted` is violated | a late reply to a short command is taken for a move's |
| `trajectory` (`MCTrajectory.cfg`) | `StepsBounded`, `SuccessMeansFollowed`, `NamedJointsMoved`, `SpeedIsLeastSufficient`, `NothingAfterAMiss` | a path followed waypoint by waypoint |
| `goal_only` (`MCGoalOnly.cfg`) | `DirectMoveBounded`, `PercentNearSelected`, `RefusedOnlyWhenBusyOrMoved` | a path replaced by one direct move; a selected speed encoded in a duration by the planner and decoded by the controller |
| `keyboard` (`MCKeyboard.cfg`) | `ArmedMeansConnected`, `OneGoalInFlight`, `QuitLeavesNothing`, `SentWithinHeard`, `LockedOnlyByALoss` | an operator against drivers that die and return with other limits; the keyboard is given back unless a driver died |
| `prompt` (`MCPrompt.cfg`) | `SuccessMeansDone`, `NothingSentIsTrue`, `UsedStateIsRecent`, `SentUnderTheLastStatus`, `ConfirmedSpec` | two prompts, the second over a goal the first may have given up on |
| `assistant` (`MCAssistant.cfg`) | `StageVerified`, `SentNearThePreview`, `ConfirmedSpec`, `ReturnsToTheOperator` | the four workflows over an object that moves and disappears and stages that fail, are lost or end elsewhere; a workflow ends |
| `tasks` (`MCTasks.cfg`) | `MovesAsCommanded` | two tasks and the programs they call on one set of registers |
| `objects` (`MCObjects.cfg`) | `WholeBatches`, `StatusIsCurrent`, `AnsweredIsMovedTo`, `SentToTheObjectShown`, `PlanIsWithinLimits` | from the detector's batch through the bridge to the object a request selects and the targets sent |
| `targets` (`MCTargets.cfg`) | `ChecksAgree` | partial targets between two drivers' limits |
| `examples` (`MCExamples.cfg`) | `AloneAtThePrompt`, `BackWhenChildrenEnd` | launches under Ctrl-C |

Type invariants are proved rather than run, each as the theorem `TypeCorrect` (or
`JointTypeCorrect`, `TargetTypeCorrect`, `ExampleTypeCorrect` where a module of proofs
is about two components).

Bounds of `MCDriver.cfg`: two positions (symmetric: the arm is where it was
read, or not), two requests of any kind, trajectories of up to two commands.
Two requests are what every interaction here needs: one goal accepted while
another is offered, a write queued behind a motion, a late reply met by the next
command.  Crashes, reconnections, timeouts and polls are not bounded: the
streams stay short because a client sends one command at a time.  1.5 million
distinct states.  `MCDriverLive.cfg` has one position and one request and uses
no symmetry.

Bounds of `MCTrajectory.cfg`: two joints with six and two
positions and different velocity limits, five valid trajectories of one to three
points (in either order of the joints, with and without velocities, with a first
point at time zero) and six that each break one rule.  The start, path, step and
goal tolerances are 3, 2, 2 and 1, so that a point can be within one and outside
another and tolerances could add up; the arm ends a motion anywhere.  185
thousand distinct states.  `MCGoalOnly.cfg`: joint targets short enough for the
rounding of their durations to exceed the margin and long ones, a default and a
selected percentage, one plan out of the limits, one with too high a percentage
and one at the distance where only the driver's cap decides, next to
trajectories of up to three points by another client, with an arm that may also
stand outside its limits.  A second has 400 ticks so that both cases happen with
small numbers; the proportion of margin and rounding is the code's.  1.4 million
distinct states.

Bounds of `MCKeyboard.cfg`: three driver configurations (wide limits, limits
below the smallest key steps, motion disabled), one linear and one angular key
(the others differ in axis and sign only), every setting key.  Nothing is
counted: drivers may restart and keys be pressed without end.  1.2 million
distinct states.  Its fairness says that `run()` goes on spinning while the
session lasts, and that the driver decides about a goal and returns from its
execution, which is what `ReservationReleased` shows of `Driver`.  It says
nothing of the keys, and a lost jog need not be reported.

Bounds of `MCTasks.cfg`: two tasks and two moves that differ in every setting,
programs that write any of their values, commands without end; 318 thousand distinct
states.

Bounds of `MCTargets.cfg`: a linear and an angular axis matter, three values,
two poses, four kinds of limits (with and without bounds, a maximum that is not
reported); 273 thousand distinct states.

Bounds of `MCPrompt.cfg`: queues of one message, every wait one unit of time
and messages that are fresh for none, so that a message is new, fresh or just too
old in every place; a jog, a joint target and a program, two goals.  An absolute
target takes the joint target's path with the other topic, and its own arithmetic
is in `CartesianTargets`.  Two statuses: everything permitted, nothing permitted;
two contents of joint messages: the robot's, and one with foreign joints.  2.2
million distinct states.  Longer queues only make what is read older.

Bounds of `MCAssistant.cfg`: the object above or below which the arm is, at one of
two places further apart than the shift allowed, or gone; one stage for an
alignment, a drop and the home program, three for a pick, so three goals.  A
workflow begins only when its stages fit `MaxGoals`.  The driver's status, once
heard, permits everything: a driver that refuses still rejects any goal, the
check fails when no status was heard, and `MCPrompt.cfg` has the closed gates.
360 thousand distinct states.

Bounds of `MCObjects.cfg`: batches with labels of one and several words, of both
families and of none, a track whose owner changes, places measured from either
edge of the belt, duplicate tracks, a count that does not match, a part that is
refused or raises, more detections than are admitted; seventeen requests, among them
the cup over the cardboard; queues of depth one.  454 thousand distinct states.  `MCExamples.cfg`: two programs and two
nodes, interrupts and child processes without end; 1824 states.

`CHECK_DEADLOCK FALSE` stands where the program may stop: a prompt program or the
assistant that has ended (`MCPrompt.cfg`, `MCAssistant.cfg`, `MCExamples.cfg`).

Fairness of the prompt programs and the assistant (`FairSpec` of `PromptSession`
and `AssistantWorkflow`): the program's one thread runs (`Proceeds`) and time
passes (`Tick`), both weakly fair.  The driver, the camera and the operator need
not do anything; every wait has a deadline in the code.  `FairSpec` of
`ExamplePrograms`: the assistant's own statements are weakly fair; the child need
not end, and `BackWhenChildrenEnd` says so.

Fairness (`FairSpec` of `Driver`).  Each thread is sequential.  A thread blocked on the
transport lock gets it: the worker sleeps a poll period or a reconnect delay
between its lock sections and the executor between callbacks, so each thread's
step is strongly fair.  `spin` does not leave an accepted goal's task behind
forever (`StartGoal`).  A socket call ends, by its timeout at the latest, so the
holder's steps are weakly fair.  The recovery loop passes its deadline however
often a connection succeeds and a probe fails (`RecycleDeadline`, strongly
fair).  Nothing is assumed of clients, the controller, crashes or the shutdown.

### What the documents say and the code does not

The first is a run of its own (`driver_stale_reply`).  The next eleven are
reproduced by a configuration kept beside the runs: `tlc -config X.cfg M` ends
with the counterexample.  The last three are read from the code alone.

| Configuration, module | The document | The code |
|---|---|---|
| `MCDriverStaleReply.cfg`, `MCDriver` | *"A command is never reported as complete merely because it was accepted."* (`docs/architecture.md`) | A register or output command that times out keeps its socket, and the next command takes its late reply. |
| `MCDriverQueuedWrite.cfg`, `MCDriver` | Writes *"are rejected while MoveIt, teleop, another write, or TP program is executing."* (`docs/interfaces.md`) | With one executor thread the write waits and is carried out afterwards; and a program that outlasts `socket_timeout_sec` still runs when its goal has been aborted and the next command is sent. |
| `MCDriverStaleStart.cfg` with `JogReadsLivePose` for its property, `MCDriver` | A jog *"reads the live Cartesian pose immediately before executing the offset"* (`docs/interfaces.md`) | Not on a session that lags: after a poll's and a jog's queries of the pose have timed out, a later jog takes an earlier reply and moves from where the arm was then. |
| `MCDriverUnverified.cfg`, `MCDriver` | *"verifies joint/Cartesian state before allowing another controller command"* (`docs/interfaces.md`) | Not when the recovery gives up and the worker reconnects. |
| `MCDriverStaleStart.cfg`, `MCDriver` | *"agreement between the first point and live `/joint_states`"* (`docs/moveit_trajectory_controller.md`) | The cache is not refreshed by other motions and survives a disconnection. |
| `MCDriverBlocked.cfg`, `MCDriver` | *"blocking socket reads do not block the ROS executor"* (`docs/architecture.md`) | `connected` takes the lock the poll holds. |
| `MCTasksOutput.cfg`, `MCTasks` | *"Gets robot digital out"* (`mappdk_cmd.kl`) | The query assigns what it found to the output, which can undo the other task's write. |
| `MCBridgeEnds.cfg`, `MCObjects` | *"The bridge rejects malformed JSON, unsupported schema versions, non-finite coordinates"* (`README.md` of the bridge) | Integers too large for `float` or for the message and deep nesting raise what the callback does not expect; the node ends. |
| `MCObjectsClass.cfg`, `MCObjects` | *"The requested class must be visible in a fresh normalized batch."* (`README.md` of the assistant) | The word object in a request outweighs the class: the only object seen is selected. |
| `MCObjectsAlias.cfg`, `MCObjects` | Aliases *"are assigned in ascending track-ID order"* (`OLLAMA.md`) | A question about number zero is answered with the last object. |
| `MCJointHigh.cfg`, `MCJointTargets` | *"A tiny margin prevents floating-point roundoff [...] from selecting one percent too high."* (`task_plans.py`) | Rounding to nanoseconds is larger than the margin when the move is shorter than half a second. |
| `MCExamplesLeft.cfg`, `MCExamples` | *"Give the child the terminal until exit"* (`example_programs.py`) | A Ctrl-C while the child is being started ends the assistant without waiting for it. |
| none | *"the client copies Y/Z/W/P/R from fresh Cartesian feedback immediately before preview and again immediately before execution"* (`OLLAMA.md`) | Fresh means received within the maximum age: the message may be older than the confirmation, and its measurement older than that. |
| none | *"Actual Cartesian state after action result"* (`ollama_prompt.py`) | Any state received after the goal was sent will do, also one from during the motion. |
| none | *"After confirmation, the assistant requires a new vision batch and a new robot state."* (`README.md` of the assistant) | New is what is read after it; a batch that waited in the queue is. |

## 4. Proofs

`DriverProofs` proves for all `Positions`, `RecycleAfterProgram`, `Enabled`,
`MaxWaypoints` and `MaxRequests` (from `PositionsAssumption`,
`RecycleAssumption` and `DriverAssumption`, which TLC evaluates in every run):

| Theorem | Property | Argument |
|---|---|---|
| `TypeCorrect` | `[]TypeOK` | `TypeInv`: `TypeOK` with `Paced`, which says that `todo` is empty exactly when the operation has no plan |
| `ReservationCorrect` | `[]ReservationMatchesOwner` | `ReservationInv`, inductive on its own |
| `DriverImplementsOwnership` | `ImplementsOwnership` | `LockInv` says which thread is inside the transport for which task; `BudgetInv` that the effects sent, those still in the plan and the waypoints left never exceed the owner's limit; every step is then an `Acquire`, `Act`, `Release` or stutter |
| `RepliesMatched` | `MisattributionNeedsTimeout` | `StreamInv`: on a session without abandoned replies the streams hold exactly the command awaited, or its reply |
| `EffectsApart` | `EffectsDoNotOverlap` | `CountInv`: on an open session the commands sent and not answered are at most those abandoned, and one more while a reply is awaited |
| `JogFromLivePose` | `JogStartsFromLivePose` | for a session without abandoned replies; `WireInv`: a pose on the wire is where the arm is as long as nothing that moves it follows |
| `WorkerEndsClean` | `[]WorkerEndsDisconnected` | `EndInv`: after the stop the executor holds no lock and starts nothing, so the worker's last disconnect is final |

Each invariant is shown inductive by one step per action; `CompleteInv` is their
conjunction.  None of the properties is inductive as it stands: that a reply
belongs to the awaited command needs the contents of both streams, and that an
effect is not repeated needs the plan still to be sent and the waypoints left.
All invariants were model-checked before they were proved.

`TrajectoryProofs` proves for every number of joints, every limit, tolerance and
mode, any set of trajectories and any set of positions (from
`ValidationAssumption` and `ControllerAssumption`, which state what
`_validate_config` enforces):

| Theorem | Property | Argument |
|---|---|---|
| `TypeCorrect` | `[]TypeOK` | a percentage is the largest of a finite set of naturals (`LargestExists`), capped |
| `StepsAreBounded` | `[]StepsBounded` | `LoopInv`: while the loop runs, the arm was read within the path tolerance of the point before, or within the start tolerance of the first; `Triangle` adds one step of the plan |
| `DirectMoveIsBounded` | `[]DirectMoveBounded` | `LoopInv` keeps the distance checked at the start until the only command |
| `SuccessFollows` | `[]SuccessMeansFollowed` | `LoopInv`: the points behind `next` but for the first have been commanded |
| `NamedJointsAreMoved` | `[]NamedJointsMoved` | `MoveInv`: a command is the target and the speed of a valid point; `PlaceFound` and `NameFound` make `Reordered` the inverse of the plan's order |
| `SpeedIsLeast` | `[]SpeedIsLeastSufficient` | `MoveInv` with `CeilDivLeast` and `SegmentSpeed`, a lemma about the operators alone |
| `NothingFollowsAMiss` | `NothingAfterAMiss` | `LoopInv` before a command |
| `SuccessArrives` | `SuccessMeansArrived` | `LoopInv` behind the last point |

`IInv` joins `TypeOK`, `OwnInv` (the reservation is the goal's from acceptance to
result), `LoopInv`, `MoveInv` and the three bounds that are inductive with them.

The same module proves of `JointTargets`, for any plans, limits of velocity, ticks and
modes (also from `JointTargetsAssumption`: a second has more than twice as many ticks as
the shortest duration and at least twice as many as there are percentages, of which the
shortest duration has at least half as many ticks, and the client's step limit is no wider
than the driver's; and from `ClientAssumption`, that the
instance's trajectories contain what the client makes):

| Theorem | Property | Argument |
|---|---|---|
| `JointImplementsController` | `JointSpec => Spec` | every step is the controller's or leaves it alone (`JointStepIsControllers`): all the theorems above hold with this client |
| `JointTypeCorrect` | `[]JointTypeOK` | `JointInv`: what is on its way, and what was accepted last from this client, is `Made` of a valid plan (`MadeTyped`) |
| `JointMoveIsBounded` | `[]DirectMoveBounded` | `JointImplementsController` with `DirectMoveIsBounded` |
| `RefusedOnlyThen` | `RefusedOnlyWhenBusyOrMoved` | `MadeValid`: what the client makes passes every check of a trajectory; `MadeStartable`: and, seen from where the joints are, the driver's checks before the start |
| `PercentIsNearSelected` | `[]PercentNearSelected` | `DurationsKeep`: a rounded duration keeps the plan at one percent more, and at the percentage itself from half a second on, but never at one less; `SlowestDecides`: the joint that takes longest is compared crosswise and decides for all |

Two assumptions came out of these proofs.  The percentage survives the rounding only
when a duration has enough ticks, which nanoseconds have by far; and the driver accepts
what the client lets through only if the joints are within their limits already and
trajectories of two points are admitted, which `RefusedOnlyWhenBusyOrMoved` now says.
The arithmetic is nonlinear, over integers: `TimesMonotone`, `CrosswiseTransitive` and
the quotients are lemmas of their own because the SMT solver does not find them.

`CartesianProofs` proves of `KeyboardTeleop`, for every set of configurations, every
start setting and every choice of motion keys (from `TeleopAssumption`, which states what
`_validate_parameters` enforces on both sides):

| Theorem | Property | Argument |
|---|---|---|
| `TypeCorrect` | `[]TypeOK` | `ChoicesBounded`: a key leaves a setting between one and its maximum; `ReducedBounded`: so does a status |
| `ArmedOnlyConnected` | `[]ArmedMeansConnected` | inductive: arming needs a connection, and the status that ends it disarms |
| `OneGoal` | `[]OneGoalInFlight` | inductive with the types: a jog is appended only when the flag is clear, so to an empty sequence (`WithoutIsEmpty`) |
| `QuitIsClean` | `[]QuitLeavesNothing` | `QuitInv`: after Q there are no goals at all |
| `SendsWithinHeard` | `SentWithinHeard` | `HeardInv`: after a status `maxima` is what it said, and the steps stay within it; `OffsetWithinSteps` |

and of `CartesianTargets`, for any plans, poses and limits:

| Theorem | Property | Argument |
|---|---|---|
| `TargetTypeCorrect` | `[]TargetTypeOK` | a target completed from a pose is one |
| `ClientAndDriverAgree` | `ChecksAgree` | what is under way was admitted under the limits in `read`, and the two checks are one condition when the limits are the same |
| `NamedAxesMove` | `NamedAxesMoveInBounds` | `Resolved` leaves the axes a plan does not name as they were measured |

`ClientProofs` holds what both of the following need of `PlannerClient`: the types of its
queues and records after each of its steps, and that between two sends the list of goals
keeps its commands and its successes.

`PromptProofs` proves for any topics, contents, commands, statuses, maximum ages,
queue depth, timeouts and number of goals (from `ClientAssumption` and
`SessionAssumption`):

| Theorem | Property | Argument |
|---|---|---|
| `TypeCorrect` | `[]TypeOK` | `Kept` never exceeds the depth; ages stop one above the maximum; the environment's, the client's and the session's steps one by one |
| `SuccessIsDone` | `[]SuccessMeansDone` | `PlaceInv`, `GoalsInv`: between `Send` and the return there is exactly one goal more than `before`, and it is `Current` |
| `NothingSent` | `[]NothingSentIsTrue` | `GoalsInv`: before `Send` there is none |
| `PreviewIsSafe` | `[]PreviewSendsNothing` | `PlaceInv`: no plan without `--execute` |
| `RecentStateUsed` | `UsedStateIsRecent` | `BaseInv`: the age of the state used plus the time left to wait for the server stays within the sum of both maxima |
| `LastStatusObeyed` | `SentUnderTheLastStatus` | `ReadyInv`: from the last check to `Send` the program does not spin, so the status stays |
| `SessionImplementsConfirmed` | `ConfirmedSpec` | every step is one of `ConfirmedCommands` or a stutter |

`IInv` is the conjunction of `TypeOK`, the four and the three invariants.  None of
the properties is inductive alone: each is about a return, and what makes it true
is where the program has been since the prompt.

`AssistantProofs` proves of `AssistantWorkflow`, for any workflows with one stage, or three
for a pick, any places, shift, ages and timeouts (from `ClientAssumption` and
`WorkflowAssumption`):

| Theorem | Property | Argument |
|---|---|---|
| `TypeCorrect` | `[]TypeOK` | with `IInv`, which says that a stage under way exists |
| `NothingSent` | `[]NothingSentIsTrue` | `GoalsInv`: the goals since `before` are the stages begun |
| `StagesVerified` | `StageVerified` | `StateInv`: from the verification of a stage to the next `Send` nothing spins but a wait for the first status, which cannot be missing any more |
| `NearThePreview` | `SentNearThePreview` | `TargetInv`: past the refresh, `target` was received after the confirmation and is near |
| `ReportedIsReached` | `ReachedWhenReported` | `Verify` alone, with where it can be |
| `WorkflowImplementsConfirmed` | `ConfirmedSpec` | `GoalsInv` gives the step of the abstract request |

and of `ExamplePrograms`, for any programs and nodes, `ExampleTypeCorrect`, `AloneAgain`,
`ChildInterruptible` and `ConflictsBlock`: outside `run_foreground` the child has ended and
terminal and handler are restored, and between the second inspection and the fork
nothing that stood can be forgotten.

`VisionProofs` proves for any batches, requests, matrix and limits (from
`BridgeAssumption` and `SelectionAssumption`):

| Theorem | Property | Argument |
|---|---|---|
| `TypeCorrect` | `[]TypeOK` | counts of a batch that passed are bounded by its length; every stage is built of integers |
| `BatchesAreWhole` | `[]WholeBatches` | `BridgeIInv`: `published` is the message of `accepted`, whose verdict was good; `GoodVerdict`: then every one of `Checks` was; with distinct track IDs the message has as many members as the batch (`MessageCounts`) |
| `StatusTellsOfTheLast` | `[]StatusIsCurrent` | `BridgeIInv` with `ReportedCounts`: counting a batch's detections and its message's is the same |
| `AnswersAndMovesAgree` | `[]AnsweredIsMovedTo` | `SameSelection`, a lemma about the operators alone: the two readings of a request, way by way; `OneName`: words that do not name two visible labels of one word give both the same one |
| `SentWhereItIs` | `SentToTheObjectShown` | only `Refresh` sends; what it selects was made of a detection of `accepted` with the selection's track, and lies where the calibration puts its projected place |
| `PlansAreWithinLimits` | `PlanIsWithinLimits` | `Buildable` bounds each stage from the pose or the stage before it |

The selection never disturbs the bridge (`BridgeUndisturbed`: a behaviour of the one is a
behaviour of the other), so the bridge's theorems are proved once and hold for both.
That a set of positions has a least member, which the first refusal is chosen by, is
derived from the well-foundedness of strict inclusion among finite sets
(`LeastExists`), since induction over data cannot be instantiated here.

`TasksProofs` proves `TypeCorrect`, `UndisturbedMoves` and `UndisturbedQueries` for any
number of tasks and any moves: each register a task has written, and no other task
since, holds its own value (`WrittenInv`), and one program at a time holds the motion
group (`GroupInv`).

A module of proofs about two components extends both, but each theorem rests on its own
component's assumptions only: no step cites the other's.

Every safety property that a run checks is a theorem.  Only model-checked are the
liveness properties (`ReservationReleased`, `DeadSessionDropped`, `StopEndsWorker`,
`LockedOnlyByALoss`, `ReturnsToTheOperator`, `BackWhenChildrenEnd`), because TLAPS proves
nothing about fairness and `ENABLED` here, and the violated properties.  Proved without a
run of their own: the type invariants, `JointImplementsController`,
`SuccessMeansArrived`, `PreviewSendsNothing`, `ReachedWhenReported`, `UndisturbedAnswer`,
`NamedAxesMoveInBounds`, `ChildHearsCtrlC` and `StandingConflictsBlock`, each of which a
run would only repeat for a small instance.

## 5. Plan

Done: the controller's server, transport and driver with their refinement of
`CommandOwnership`; the trajectory controller; keyboard teleoperation; the KAREL
tasks' shared registers; the planner client, prompt sessions and workflows with
their refinement of `ConfirmedCommands`; absolute and joint targets; the vision
bridge and the selection of objects; example programs.

Left:

1. Proofs: what liveness comes down to without fairness, namely that the steps of a
   fair action are never undone: a measure that no other step raises, for the recovery of
   `Driver` and the waits of `PlannerClient`.
2. Named tasks: the catalog's validation, from JSON to one immutable plan.
3. `PlannerClient` against `Driver` itself in place of the environment it assumes;
   their product is beyond TLC with two requests.

## 6. Not modelled

- Text: the regular expressions of `prompt_parser.py`, `workflows.py`,
  `vision_motion.py` and `vision_context.py` that turn words into plans, requests and
  ordinals.  A plan is any plan and a request any of a set; what is done with them
  is modelled.
- The HTTP call to the model, the decoding of its answer and the conversation
  history (`ollama_client.py`, `conversation.py`): an arbitrary plan, answer or
  failure.
- The decoding and validation of the JSON catalogs of tasks and examples, done
  once at start.
- `conversions.py`: trigonometry; floating-point arithmetic and finiteness of
  numbers everywhere.
- `controller_tools.py`: one service request per process, without state.
- Launch files, MoveIt configuration, visualization, interfaces and help texts:
  no behaviour to check.
- `set_pr`, `get_pr` and the other helpers of `robot.py` that the driver does not
  use; the `fanucpy` package and the controller's firmware are external.
