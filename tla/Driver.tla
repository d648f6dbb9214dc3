------------------------------- MODULE Driver -------------------------------
(***************************************************************************)
(* FanucpyDriverNode: the connection worker and the ROS executor, two      *)
(* threads that share one Transport, one command reservation and the last  *)
(* known joint positions.                                                  *)
(*                                                                         *)
(* rclpy.spin runs every callback in one thread.  An accepted goal becomes *)
(* a task of its own, so other callbacks may run between its acceptance    *)
(* and its execution, and none runs while it executes: a request that      *)
(* arrives then waits.  The worker connects, polls and reconnects, and     *)
(* takes no reservation.                                                   *)
(***************************************************************************)
EXTENDS Transport

CONSTANTS
  Enabled,       \* requests the parameter gates let through
  MaxWaypoints,  \* bound: commands a trajectory goal may need
  MaxRequests    \* bound: requests the clients make in a behaviour

Goals      == {"absolute", "jog", "trajectory", "program"}
Requests   == Goals \cup {"write", "read"}
\* What takes the command reservation.
Reserving  == Goals \cup {"write"}

ASSUME DriverAssumption ==
  /\ Enabled \subseteq Requests
  /\ MaxWaypoints \in Nat
  /\ MaxRequests \in Nat

VARIABLES
  wpc,       \* where the worker is
  installed, \* fanucpy can be imported
  epc,       \* where the executor is
  waiting,   \* the request that has arrived and has not been looked at
  goal,      \* the accepted goal whose task has not started
  task,      \* the callback the executor is running
  left,      \* waypoints the running trajectory still has to command
  start,     \* first point of the accepted trajectory
  verdict,   \* what the finishing callback reports
  reserved,  \* _motion_goal_reserved
  cache,     \* _latest_joint_positions_rad
  stop,      \* _stop_event
  requests   \* requests made so far

nodeVars == <<wpc, installed, epc, waiting, goal, task, left, start, verdict,
              reserved, cache, stop, requests>>
vars == <<serverVars, clientVars, nodeVars>>

\* A request remembers whether another controller command was executing when
\* it arrived.
Request == [kind : Requests \cup {"none"}, during : BOOLEAN]
Nothing == [kind |-> "none", during |-> FALSE]

NodeTypeOK ==
  /\ wpc \in {"loop", "connect", "connecting", "failed", "poll", "reading",
              "publish", "leave", "backoff", "final", "done"}
  /\ installed \in BOOLEAN
  /\ epc \in {"idle", "decide", "check", "enter", "inside", "finish",
              "joining", "done"}
  /\ waiting \in Request
  /\ goal \in Goals \cup {"none"}
  /\ task \in Requests \cup {"none"}
  /\ left \in Nat
  /\ start \in Positions \cup {NoPosition}
  /\ verdict \in {"none", "success", "failure"}
  /\ reserved \in BOOLEAN
  /\ cache \in Positions \cup {NoPosition}
  /\ stop \in BOOLEAN
  /\ requests \in Nat

TypeOK == ServerTypeOK /\ ClientTypeOK /\ NodeTypeOK

Init ==
  /\ ServerInit
  /\ ClientInit
  /\ wpc = "loop"
  /\ installed \in BOOLEAN
  /\ epc = "idle"
  /\ waiting = Nothing
  /\ goal = "none"
  /\ task = "none"
  /\ left = 0
  /\ start = NoPosition
  /\ verdict = "none"
  /\ reserved = FALSE
  /\ cache = NoPosition
  /\ stop = FALSE
  /\ requests = 0

-----------------------------------------------------------------------------
(***************************************************************************)
(* The connection worker.                                                  *)
(***************************************************************************)
WorkerGoes(from, to) ==
  /\ wpc = from
  /\ wpc' = to
  /\ UNCHANGED <<installed, epc, waiting, goal, task, left, start, verdict,
                 reserved, stop, requests>>

\* Taking the result of the transport call.
WorkerGot(result) ==
  /\ ret["worker"] = result
  /\ ret' = [ret EXCEPT !["worker"] = "none"]
  /\ read' = IF result = "error" THEN [read EXCEPT !["worker"] = NoPosition] ELSE read
  /\ UNCHANGED <<serverVars, connected, lock, op, todo, awaiting, abandoned,
                 dispatched, unbacked, unverified>>

\* The outer loop: connect, unless the node is stopping.
WorkerLoop ==
  /\ WorkerGoes("loop", IF stop THEN "final" ELSE "connect")
  /\ UNCHANGED <<transportVars, cache>>

WorkerConnect ==
  /\ installed
  /\ WorkerGoes("connect", "connecting")
  /\ BeginConnect("worker")
  /\ UNCHANGED cache

\* FanucpyDependencyError: the worker gives up for good.
WorkerNoDependency ==
  /\ ~installed
  /\ lock = "free"
  /\ WorkerGoes("connect", "final")
  /\ UNCHANGED <<transportVars, cache>>

WorkerConnected ==
  /\ WorkerGoes("connecting", "poll")
  /\ WorkerGot("ok")
  /\ UNCHANGED cache

WorkerNotConnected ==
  /\ WorkerGoes("connecting", "failed")
  /\ WorkerGot("error")
  /\ UNCHANGED cache

\* disconnect() after a failed connect(), then the reconnect delay.
WorkerGiveUp ==
  /\ WorkerGoes("failed", "backoff")
  /\ Disconnect
  /\ UNCHANGED cache

\* Mutant: the polling loop does not look at _stop_event.
WorkerPollOn ==
  /\ WorkerGoes("poll", "reading")
  /\ Begin("worker", "poll")
  /\ UNCHANGED cache

\* The polling loop.
WorkerPoll ==
  /\ IF stop
     THEN WorkerGoes("poll", "leave") /\ UNCHANGED transportVars
     ELSE WorkerGoes("poll", "reading") /\ Begin("worker", "poll")
  /\ UNCHANGED cache

WorkerHasState ==
  /\ WorkerGoes("reading", "publish")
  /\ WorkerGot("ok")
  /\ UNCHANGED cache

\* _publish_snapshot: after the transport lock has been released.
WorkerPublish ==
  /\ WorkerGoes("publish", "poll")
  /\ cache' = read["worker"]
  /\ read' = [read EXCEPT !["worker"] = NoPosition]
  /\ UNCHANGED <<serverVars, connected, lock, op, todo, awaiting, ret, abandoned,
                 dispatched, unbacked, unverified>>

\* Mutant: a failed poll goes straight to the reconnect delay.
WorkerReadFailsOpen ==
  /\ WorkerGoes("reading", "backoff")
  /\ WorkerGot("error")
  /\ UNCHANGED cache

WorkerReadFails ==
  /\ WorkerGoes("reading", "leave")
  /\ WorkerGot("error")
  /\ UNCHANGED cache

\* disconnect() after the polling loop, in a lock section of its own.
WorkerLeave ==
  /\ WorkerGoes("leave", IF stop THEN "loop" ELSE "backoff")
  /\ Disconnect
  /\ UNCHANGED cache

WorkerBackoff ==
  /\ WorkerGoes("backoff", "loop")
  /\ UNCHANGED <<transportVars, cache>>

\* finally: disconnect().
WorkerFinal ==
  /\ WorkerGoes("final", "done")
  /\ Disconnect
  /\ UNCHANGED cache

WorkerNext ==
  \/ WorkerLoop \/ WorkerConnect \/ WorkerNoDependency \/ WorkerConnected
  \/ WorkerNotConnected \/ WorkerGiveUp \/ WorkerPoll \/ WorkerHasState
  \/ WorkerPublish \/ WorkerReadFails \/ WorkerLeave \/ WorkerBackoff
  \/ WorkerFinal

-----------------------------------------------------------------------------
(***************************************************************************)
(* The ROS executor.                                                       *)
(***************************************************************************)

\* A client sends a goal or a service request.
Arrive(k) ==
  /\ epc \notin {"joining", "done"}
  /\ waiting = Nothing
  /\ requests < MaxRequests
  /\ requests' = requests + 1
  /\ waiting' = [kind |-> k, during |-> task \in Reserving]
  /\ UNCHANGED <<transportVars, wpc, installed, epc, goal, task, left, start,
                 verdict, reserved, cache, stop>>

\* spin takes the waiting request: a goal callback or a service callback starts.
Take ==
  /\ epc = "idle"
  /\ waiting # Nothing
  /\ epc' = "decide"
  /\ UNCHANGED <<transportVars, wpc, installed, waiting, goal, task, left, start,
                 verdict, reserved, cache, stop, requests>>

\* What a goal callback checks before it reserves: the gates, the session, and
\* for a trajectory that its first point is where the joints were last seen.
Acceptable(k) ==
  /\ k \in Enabled
  /\ connected
  /\ k = "trajectory" => cache # NoPosition

TakeAnyway == TRUE          \* mutant: the reservation is not looked at
TryReserve == ~reserved

\* Goal callback, accepting: the reservation is held from here on.
AcceptGoal ==
  /\ epc = "decide"
  /\ lock = "free"
  /\ waiting.kind \in Goals
  /\ Acceptable(waiting.kind)
  /\ TryReserve
  /\ reserved' = TRUE
  /\ goal' = waiting.kind
  /\ start' = IF waiting.kind = "trajectory" THEN cache ELSE start
  /\ waiting' = Nothing
  /\ epc' = "idle"
  /\ UNCHANGED <<transportVars, wpc, installed, task, left, verdict, cache, stop,
                 requests>>

\* Goal callback or write service, rejecting: also for values out of range.
Reject ==
  /\ epc = "decide"
  /\ lock = "free"
  /\ waiting.kind \in Reserving
  /\ waiting' = Nothing
  /\ epc' = "idle"
  /\ UNCHANGED <<transportVars, wpc, installed, goal, task, left, start, verdict,
                 reserved, cache, stop, requests>>

\* Write service: the reservation is taken and the callback goes on.
AcceptWrite ==
  /\ epc = "decide"
  /\ lock = "free"
  /\ waiting.kind = "write"
  /\ Acceptable("write")
  /\ TryReserve
  /\ reserved' = TRUE
  /\ task' = "write"
  /\ waiting' = Nothing
  /\ epc' = "check"
  /\ UNCHANGED <<transportVars, wpc, installed, goal, left, start, verdict, cache,
                 stop, requests>>

\* Read service: no gate and no reservation.
AcceptRead ==
  /\ epc = "decide"
  /\ waiting.kind = "read"
  /\ task' = "read"
  /\ waiting' = Nothing
  /\ epc' = "check"
  /\ UNCHANGED <<transportVars, wpc, installed, goal, left, start, verdict,
                 reserved, cache, stop, requests>>

\* There is a point to command, and the arm is still at the first one.
Runs(n) == cache = start /\ n > 0

\* The task of the accepted goal starts.  A trajectory is validated again and
\* compared with the last known joints; n of its points need a command.
StartGoal ==
  /\ epc = "idle"
  /\ goal # "none"
  /\ task' = goal
  /\ goal' = "none"
  /\ IF goal = "trajectory"
     THEN \E n \in 0 .. MaxWaypoints :
            /\ left' = n
            /\ epc' = IF Runs(n) THEN "check" ELSE "finish"
            /\ verdict' = CASE Runs(n)       -> "none"
                            [] cache # start -> "failure"
                            [] OTHER         -> "success"
     ELSE epc' = "check" /\ UNCHANGED <<left, verdict>>
  /\ UNCHANGED <<transportVars, wpc, installed, waiting, start, reserved, cache,
                 stop, requests>>

\* transport.connected, read before the transport is called.
Check ==
  /\ epc = "check"
  /\ lock = "free"
  /\ IF connected
     THEN epc' = "enter" /\ UNCHANGED verdict
     ELSE epc' = "finish" /\ verdict' = "failure"
  /\ UNCHANGED <<transportVars, wpc, installed, waiting, goal, task, left, start,
                 reserved, cache, stop, requests>>

\* The transport method each callback calls.
Method(k) == IF k = "trajectory" THEN "waypoint" ELSE k

Enter ==
  /\ epc = "enter"
  /\ Begin("executor", Method(task))
  /\ epc' = "inside"
  /\ UNCHANGED <<wpc, installed, waiting, goal, task, left, start, verdict,
                 reserved, cache, stop, requests>>

\* The transport call returned.  A trajectory publishes the joints it measured
\* and goes on with its next point, unless they are out of tolerance; a recycled
\* program publishes the state that verified the new session.
Return ==
  /\ epc = "inside"
  /\ ret["executor"] # "none"
  /\ ret' = [ret EXCEPT !["executor"] = "none"]
  /\ read' = [read EXCEPT !["executor"] = NoPosition]
  /\ IF ret["executor"] = "error"
     THEN epc' = "finish" /\ verdict' = "failure" /\ UNCHANGED <<left, cache>>
     ELSE /\ cache' = IF \/ task = "trajectory"
                         \/ task = "program" /\ RecycleAfterProgram
                            /\ ret["executor"] = "ok"
                      THEN read["executor"] ELSE cache
          /\ IF task = "trajectory"
             THEN \E within \in BOOLEAN :
                    /\ left' = left - 1
                    /\ epc' = IF within /\ left > 1 THEN "check" ELSE "finish"
                    /\ verdict' = CASE ~within              -> "failure"
                                    [] within /\ left = 1   -> "success"
                                    [] OTHER                -> "none"
             ELSE epc' = "finish" /\ verdict' = "success" /\ UNCHANGED left
  /\ UNCHANGED <<serverVars, connected, lock, op, todo, awaiting, abandoned,
                 dispatched, unbacked, unverified, wpc, installed, waiting, goal,
                 task, start, reserved, stop, requests>>

\* finally: _release_motion, and the result is sent.
Finish ==
  /\ epc = "finish"
  /\ epc' = "idle"
  /\ reserved' = (reserved /\ task \notin Reserving)
  /\ task' = "none"
  /\ verdict' = "none"
  /\ left' = 0
  /\ start' = IF goal = "none" THEN NoPosition ELSE start
  /\ unbacked' = FALSE
  /\ dispatched' = 0
  /\ UNCHANGED <<serverVars, connected, lock, op, todo, awaiting, read, ret,
                 abandoned, unverified, wpc, installed, waiting, goal, cache,
                 stop, requests>>

\* Ctrl-C: the running callback unwinds, its finally releases the reservation,
\* and main() calls node.stop().
Shutdown ==
  /\ epc \notin {"joining", "done"}
  /\ Interrupt("executor")
  /\ epc' = "joining"
  /\ stop' = TRUE
  /\ reserved' = (reserved /\ task \notin Reserving)
  /\ task' = "none"
  /\ verdict' = "none"
  /\ left' = 0
  /\ UNCHANGED <<wpc, installed, waiting, goal, start, cache, requests>>

\* join() returns, with the worker finished or not.
Joined ==
  /\ epc = "joining"
  /\ epc' = "done"
  /\ UNCHANGED <<transportVars, wpc, installed, waiting, goal, task, left, start,
                 verdict, reserved, cache, stop, requests>>

ExecutorNext ==
  \/ Take \/ AcceptGoal \/ Reject \/ AcceptWrite \/ AcceptRead \/ StartGoal
  \/ Check \/ Enter \/ Return \/ Finish \/ Joined

-----------------------------------------------------------------------------
InTransport == HolderNext /\ UNCHANGED nodeVars
OnController == ServerNext /\ UNCHANGED <<clientVars, nodeVars>>

\* The driver has stopped; the controller may go on listening.
Stopped ==
  /\ wpc = "done"
  /\ epc = "done"
  /\ UNCHANGED vars

Next ==
  \/ WorkerNext
  \/ ExecutorNext
  \/ InTransport
  \/ OnController
  \/ \E k \in Requests : Arrive(k)
  \/ Shutdown
  \/ Stopped


-----------------------------------------------------------------------------
(***************************************************************************)
(* Fairness.  Each thread is sequential, so strong fairness of a thread    *)
(* says that it takes the step it is at if that step is possible again and *)
(* again: a thread blocked on the lock gets it, because the worker sleeps  *)
(* between polls and the executor between callbacks.  A socket call always *)
(* ends, by its timeout at the latest, the recycling loop cannot go past   *)
(* its deadline, and spin does not leave an accepted goal's task behind    *)
(* forever.  Clients, the controller, crashes and the shutdown owe nothing. *)
(***************************************************************************)
Fairness ==
  /\ SF_vars(WorkerNext)
  /\ SF_vars(ExecutorNext)
  /\ SF_vars(StartGoal)
  /\ WF_vars(InTransport)
  /\ SF_vars(RecycleDeadline /\ UNCHANGED nodeVars)

Spec     == Init /\ [][Next]_vars
FairSpec == Spec /\ Fairness

-----------------------------------------------------------------------------
(***************************************************************************)
(* What must hold.                                                         *)
(***************************************************************************)

\* The reservation flag is set exactly while one command owns the controller:
\* an accepted goal that has not started, or a callback that reserved and has not
\* finished; there are never two.  Every path through the callbacks, with their
\* early returns and exceptions, must pair _try_reserve_motion with
\* _release_motion for this to hold.
ReservationMatchesOwner ==
  /\ reserved <=> (goal # "none" \/ task \in Reserving)
  /\ ~(goal # "none" /\ task \in Reserving)

\* A reply is credited to the wrong command only on a socket on which the reply
\* to a short command was given up: motion timeouts, crashes, reconnections and
\* program recycling by themselves never put the two streams out of step.
MisattributionNeedsTimeout ==
  [][unbacked' /\ ~unbacked => abandoned > 0]_vars

EffectSent ==
  todo # <<>> /\ Head(todo) \in Effects /\ ~awaiting /\ awaiting'

\* The commands sent on this socket whose reply the client has not taken.
Outstanding == Len(inbuf) + Len(running) + Len(replies)

\* A command that acts on the cell is sent with no more earlier commands unfinished,
\* or unanswered, than replies were given up on its socket: none, if none was.  The
\* reset after a motion timeout keeps the next command away until the abandoned
\* motion has ended.  A program call, a query or a write that outlasts its shorter
\* timeout keeps its socket and counts: the next effect is sent while it runs.
EffectsDoNotOverlap ==
  [][EffectSent /\ linked => Outstanding <= abandoned]_vars

\* On a socket on which no reply was given up, the pose a jog's target is computed
\* from is where the arm is when the move is sent, whatever polls, writes and
\* programs ran before it.  On one that lags, the jog may take the reply to an
\* earlier query of the pose and move from where the arm was then.
JogStartsFromLivePose ==
  [][EffectSent /\ op = "jog" /\ linked /\ abandoned = 0 => read["executor"] = pos]_vars

\* Once the worker has ended no session is left open, even if the shutdown
\* interrupted a program's session recycling between connect and probe.
WorkerEndsDisconnected == wpc = "done" => ~connected /\ ~linked

\* The abstract promise: one owner at a time, and no more effects sent for it
\* than its request stands for.
Owner == IF goal # "none" THEN goal
         ELSE IF task \in Reserving THEN task ELSE "none"

EffectLimit == [k \in Reserving |-> IF k = "trajectory" THEN MaxWaypoints ELSE 1]

Ownership == INSTANCE CommandOwnership
               WITH Owners <- Reserving, Limit <- EffectLimit,
                    owner <- Owner, effects <- dispatched

ImplementsOwnership == Ownership!Spec

\* A reservation is given back: every reserved command ends, by its reply, by a
\* timeout or by the deadline of the recycling, unless the node is stopped.
ReservationReleased == reserved ~> (~reserved \/ stop)

\* A session that died is dropped by the worker even if no client asks anything.
DeadSessionDropped == (connected /\ ~linked) ~> ~connected

\* A stop ends the worker, wherever it is.
StopEndsWorker == stop ~> wpc = "done"

-----------------------------------------------------------------------------
(***************************************************************************)
(* What the documents say and the code does not do.                        *)
(***************************************************************************)

\* docs/architecture.md: "A command is never reported as complete merely because
\* it was accepted."
SuccessMeansCompleted == verdict = "success" => ~unbacked

\* docs/interfaces.md: write services "are rejected while MoveIt, teleop, another
\* write, or TP program is executing."
WritesRejectedWhileExecuting ==
  [][task = "none" /\ task' = "write" => ~waiting.during]_vars

\* docs/interfaces.md: the driver replaces the socket after a program "and verifies
\* joint/Cartesian state before allowing another controller command."
CommandsWaitForVerification ==
  [][EffectSent => ~unverified]_vars

\* docs/interfaces.md: a jog "reads the live Cartesian pose immediately before
\* executing the offset", on every socket.
JogReadsLivePose ==
  [][EffectSent /\ op = "jog" /\ linked => read["executor"] = pos]_vars

\* docs/moveit_trajectory_controller.md: a goal is accepted on "agreement between
\* the first point and live /joint_states".
TrajectoryStartsFromLiveJoints ==
  [][task # "trajectory" /\ task' = "trajectory" /\ epc' = "check" => start = pos]_vars

\* docs/architecture.md: "The driver polls state in a background worker so blocking
\* socket reads do not block the ROS executor."
PollingNeverBlocksExecutor ==
  ~(epc \in {"decide", "check"} /\ waiting.kind # "read" /\ lock = "worker" /\ awaiting)
=============================================================================
