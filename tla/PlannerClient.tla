---------------------------- MODULE PlannerClient ----------------------------
(***************************************************************************)
(* FanucpyPromptControl: the ROS client every prompt program is built on.  *)
(* Subscriptions fill queues that are read only while the client spins,    *)
(* statuses are cached, and one goal at a time is sent and waited for.     *)
(*                                                                         *)
(* Time is the age of what was received and the time left to wait.  The    *)
(* driver and the robot are the environment.                               *)
(***************************************************************************)
EXTENDS Integers, Sequences

CONSTANTS
  Topics,       \* the state topics subscribed to
  Contents,     \* what a message on each topic can say
  MaxAge,       \* max_*_state_age_sec
  QueueDepth,   \* messages a subscription keeps; the oldest is dropped
  Commands,     \* what can be sent, a kind and a name
  Statuses,     \* what the driver can say of its connection and its gates
  Timeouts,     \* status_timeout_sec, action_server_timeout_sec, and so on
  MaxGoals,     \* bound: goals sent in a behaviour
  Nothing       \* no message, no command

Kinds == {"jog", "target", "joint", "program"}
Waits == {"status", "server", "result", "state"}

ASSUME ClientAssumption ==
  /\ MaxAge \in [Topics -> Nat] /\ DOMAIN Contents = Topics
  /\ QueueDepth \in Nat \ {0}
  /\ \A c \in Commands : c.kind \in Kinds
  /\ Statuses \subseteq [connected : BOOLEAN, permits : SUBSET Commands]
  /\ Timeouts \in [Waits -> Nat \ {0}]
  /\ MaxGoals \in Nat
  /\ Nothing \notin Commands \cup Statuses

VARIABLES
  mail,    \* messages each subscription holds, oldest first
  latest,  \* the message each callback stored last
  gates,   \* the driver's own connection and gates
  notice,  \* the status the subscription holds; its depth is one
  status,  \* _latest_status
  goals,   \* the goals sent, in order
  timer    \* time left of the wait under way

queueVars == <<mail, notice>>
storedVars == <<latest, status>>
clientVars == <<gates, queueVars, storedVars, goals, timer>>

\* since: received after the instant the program took last as received_after.
Stored(t) == [content : Contents[t], age : 0..MaxAge[t] + 1, since : BOOLEAN]

Phases == {"requested", "rejected", "executing", "succeeded", "unrecovered", "failed", "lost"}

ClientTypeOK ==
  /\ \A t \in Topics :
       /\ mail[t] \in Seq(Contents[t])
       /\ Len(mail[t]) <= QueueDepth
       /\ latest[t] \in Stored(t) \cup {Nothing}
  /\ DOMAIN mail = Topics /\ DOMAIN latest = Topics
  /\ gates \in Statuses
  /\ notice \in Statuses \cup {Nothing}
  /\ status \in Statuses \cup {Nothing}
  /\ goals \in Seq([command : Commands, phase : Phases])
  /\ timer \in Nat

ClientInit ==
  /\ mail = [t \in Topics |-> <<>>]
  /\ latest = [t \in Topics |-> Nothing]
  /\ gates \in Statuses
  /\ notice \in {gates, Nothing}
  /\ status = Nothing
  /\ goals = <<>>
  /\ timer = 0

-----------------------------------------------------------------------------
(***************************************************************************)
(* The environment.                                                        *)
(***************************************************************************)
Executing == {i \in DOMAIN goals : goals[i].phase = "executing"}

Kept(queue) == IF Len(queue) <= QueueDepth THEN queue ELSE Tail(queue)

\* A measurement says anything: goals, pendants and people move the arm and the
\* objects.  Only a trajectory lets the driver poll the robot, between its
\* waypoints; the camera does not wait for anybody.
Publishes(t) ==
  /\ t = "vision" \/ \A i \in Executing : goals[i].command.kind = "joint"
  /\ \E c \in Contents[t] : mail' = [mail EXCEPT ![t] = Kept(Append(mail[t], c))]
  /\ UNCHANGED <<gates, notice, storedVars, goals, timer>>

\* The driver connects, loses its robot, or is started again with other gates.
GatesChange ==
  /\ gates' \in Statuses \ {gates}
  /\ notice' = gates'
  /\ UNCHANGED <<mail, storedVars, goals, timer>>

Admissible(command, s) == s.connected /\ command \in s.permits

\* The driver executes one command at a time.
DriverAccepts(i) ==
  /\ goals[i].phase = "requested"
  /\ Admissible(goals[i].command, gates)
  /\ Executing = {}
  /\ goals' = [goals EXCEPT ![i].phase = "executing"]
  /\ UNCHANGED <<gates, queueVars, storedVars, timer>>

DriverRejects(i) ==
  /\ goals[i].phase = "requested"
  /\ goals' = [goals EXCEPT ![i].phase = "rejected"]
  /\ UNCHANGED <<gates, queueVars, storedVars, timer>>

\* A program may succeed and leave the session unrecovered.
DriverFinishes(i) ==
  /\ goals[i].phase = "executing"
  /\ \E phase \in {"succeeded", "failed"}
         \cup IF goals[i].command.kind = "program" THEN {"unrecovered"} ELSE {} :
       goals' = [goals EXCEPT ![i].phase = phase]
  /\ UNCHANGED <<gates, queueVars, storedVars, timer>>

\* The driver ends, or its answer is lost: nobody will report this goal.
GoalLost(i) ==
  /\ goals[i].phase \in {"requested", "executing"}
  /\ goals' = [goals EXCEPT ![i].phase = "lost"]
  /\ UNCHANGED <<gates, queueVars, storedVars, timer>>

DriverActs ==
  \/ \E t \in Topics : Publishes(t)
  \/ GatesChange
  \/ \E i \in DOMAIN goals :
       DriverAccepts(i) \/ DriverRejects(i) \/ DriverFinishes(i) \/ GoalLost(i)

-----------------------------------------------------------------------------
(***************************************************************************)
(* The client's steps.  A program that uses them says when, and what it    *)
(* does with its own variables.                                            *)
(***************************************************************************)
Lower(m, n) == IF m < n THEN m ELSE n

\* One unit of time passes for every message received and every wait.
Elapse ==
  /\ timer' = IF timer = 0 THEN 0 ELSE timer - 1
  /\ latest' = [t \in Topics |->
                  IF latest[t] = Nothing THEN Nothing
                  ELSE [latest[t] EXCEPT !.age = Lower(latest[t].age + 1, MaxAge[t] + 1)]]
  /\ UNCHANGED <<gates, queueVars, status, goals>>

\* _cartesian_state_callback, _joint_state_callback: the age of a message counts
\* from here, not from its stamp.  marked: the program has taken an instant that
\* it will compare this one with.
StateCallback(t, marked) ==
  /\ mail[t] # <<>>
  /\ mail' = [mail EXCEPT ![t] = Tail(mail[t])]
  /\ latest' = [latest EXCEPT ![t] = [content |-> Head(mail[t]), age |-> 0, since |-> marked]]
  /\ UNCHANGED <<gates, notice, status, goals, timer>>

\* _status_callback.
StatusCallback ==
  /\ notice # Nothing
  /\ status' = notice
  /\ notice' = Nothing
  /\ UNCHANGED <<gates, mail, latest, goals, timer>>

\* spin_once, spin_until_future_complete.
Callbacks(marked) == StatusCallback \/ \E t \in Topics : StateCallback(t, marked)

\* time.monotonic(), kept to be compared with the time a message was received.
Unmarked(record) == IF record = Nothing THEN Nothing ELSE [record EXCEPT !.since = FALSE]

Marked == latest' = [t \in Topics |-> Unmarked(latest[t])]

\* wait_for_cartesian_state and wait_for_joint_state return a message: one that
\* is fresh is returned without spinning.
Fresh(t, after) ==
  /\ latest[t] # Nothing
  /\ latest[t].age <= MaxAge[t]
  /\ after => latest[t].since

\* They return nothing once the time is up, and spin until then.
Missed(t, after) == ~Fresh(t, after) /\ timer = 0
Seeking(t, after) == ~Fresh(t, after) /\ timer > 0

\* wait_for_driver_status: only a client that has never had a status spins.
StatusMissed == status = Nothing /\ timer = 0
StatusAwaited == status = Nothing /\ timer > 0

\* require_connected_motion and the gates, limits and lists of the status.
\* Limits that depend on the measured state may be exceeded in any case.
Blocked(command) == status # Nothing /\ ~Admissible(command, status)
Ready(command) == status # Nothing /\ Admissible(command, status)
StateDependent(command) == command.kind \in {"target", "joint"}

\* send_goal_async.
SendGoal(command) ==
  /\ goals' = Append(goals, [command |-> command, phase |-> "requested"])
  /\ timer' = Timeouts["server"]

\* The goal the program is waiting for.
Current == goals[Len(goals)]

Accepted == Current.phase \in {"executing", "succeeded", "unrecovered", "failed"}

\* A rejection, an exception, or no answer in time: the goal is given up.
NotAccepted ==
  \/ Current.phase \in {"rejected", "lost"}
  \/ Current.phase \in {"requested", "executing", "succeeded", "unrecovered", "failed"} /\ timer = 0

\* Mutant: the result of any goal is taken for the result of this one.
AnySuccess == \E i \in DOMAIN goals : goals[i].phase = "succeeded"

Success == Current.phase = "succeeded"

\* A failure, an exception, or no result in time; the goal may still be moving
\* the arm.
NoSuccess ==
  \/ Current.phase \in {"failed", "unrecovered", "lost"}
  \/ Current.phase \in {"executing", "succeeded"} /\ timer = 0
=============================================================================
