---------------------------- MODULE PromptSession ----------------------------
(***************************************************************************)
(* fanucpy_ollama and fanucpy_prompt: from a prompt to a previewed plan, a *)
(* confirmation, one goal and the state shown after it.                    *)
(*                                                                         *)
(* The program has one thread.  It spins only where it waits for a state,  *)
(* a first status or a goal; while it waits for the model, the operator or *)
(* an action server, messages pile up unread.                              *)
(***************************************************************************)
EXTENDS PlannerClient

VARIABLES
  mode,       \* converse: fanucpy_ollama --execute; preview: without --execute;
              \* command: fanucpy_prompt --execute
  pc,         \* where the program is
  plan,       \* the plan under way
  confirmed,  \* whether the operator has confirmed it
  base,       \* the age of the state it was checked against, or completed from, last
  outcome,    \* what came of the last prompt
  before      \* history: goals sent before that prompt

sessionVars == <<mode, pc, plan, confirmed, base, outcome, before>>
vars == <<clientVars, sessionVars>>

TopicOf(command) == IF command.kind = "joint" THEN "joint" ELSE "cartesian"

\* The oldest a state can be when it is used, in units of Elapse.
OldestUsed(t) == MaxAge[t] + Timeouts["server"]

ASSUME SessionAssumption ==
  /\ {"cartesian", "joint"} \subseteq Topics
  /\ Nothing \notin Nat

Silent == {"answered", "blocked", "cancelled", "dry run"}

SessionTypeOK ==
  /\ mode \in {"converse", "preview", "command"}
  /\ pc \in {"idle", "readCartesian", "readJoints", "model", "observe", "check", "server",
             "confirm", "send", "accept", "result", "show", "ended"}
  /\ plan \in Commands \cup {Nothing}
  /\ confirmed \in BOOLEAN
  /\ base \in Nat \cup {Nothing}
  /\ outcome \in {"none", "success", "failed", "raised", "interrupted"} \cup Silent
  /\ before \in Nat

TypeOK == ClientTypeOK /\ SessionTypeOK

Init ==
  /\ ClientInit
  /\ mode \in {"converse", "preview", "command"}
  /\ pc = "idle"
  /\ plan = Nothing
  /\ confirmed = FALSE
  /\ base = Nothing
  /\ outcome = "none"
  /\ before = 0

-----------------------------------------------------------------------------
Stays == UNCHANGED <<gates, queueVars, storedVars, goals>>
Keeps == UNCHANGED <<mode, plan, confirmed, base, outcome, before>>

\* The program goes to another place, with a time to wait there.
Turns(to, wait) ==
  /\ pc' = to
  /\ timer' = IF wait = "none" THEN 0 ELSE Timeouts[wait]

Goes(to, wait) == Turns(to, wait) /\ Stays

Ends(to, what) ==
  /\ Turns(to, "none")
  /\ outcome' = what
  /\ plan' = Nothing
  /\ confirmed' = FALSE
  /\ base' = Nothing
  /\ Marked
  /\ UNCHANGED <<gates, queueVars, status, goals, mode, before>>

\* Every return to the prompt, or the end of a program that takes only one.
Returns(what) == Ends(IF mode = "command" THEN "ended" ELSE "idle", what)

-----------------------------------------------------------------------------
(***************************************************************************)
(* From the prompt to a plan.                                              *)
(***************************************************************************)
\* _interactive reads a prompt, or fanucpy_prompt its arguments.
Prompt ==
  /\ pc = "idle"
  /\ Len(goals) < MaxGoals
  /\ outcome' = "none"
  /\ before' = Len(goals)
  /\ IF mode = "command" THEN Goes("model", "none") ELSE Goes("readCartesian", "state")
  /\ UNCHANGED <<mode, plan, confirmed, base>>

\* /quit, or the end of the input.
Quit ==
  /\ pc = "idle"
  /\ Ends("ended", outcome)

\* KeyboardInterrupt.
Interrupt ==
  /\ pc # "ended"
  /\ Ends("ended", "interrupted")

\* robot_context: a state that does not arrive is left out of the context.
ReadCartesian ==
  /\ pc = "readCartesian"
  /\ Fresh("cartesian", FALSE) \/ Missed("cartesian", FALSE)
  /\ Goes("readJoints", "state")
  /\ Keeps

\* A state of other joints raises, and nobody catches it.
ReadJoints ==
  /\ pc = "readJoints"
  /\ \/ /\ Fresh("joint", FALSE) /\ latest["joint"].content = "foreign"
        /\ Ends("ended", "raised")
     \/ /\ Missed("joint", FALSE) \/ (Fresh("joint", FALSE) /\ latest["joint"].content # "foreign")
        /\ Goes("model", "none")
        /\ Keeps

\* The model, or the parser, returns no plan, fails, or its plan is refused by
\* the preview; a question about objects never has a plan.  /status ends here.
NoPlan ==
  /\ pc = "model"
  /\ \E what \in {"answered", "blocked"} : Returns(what)

\* Without --execute the plan is only shown.
DryRun ==
  /\ pc = "model"
  /\ mode = "preview"
  /\ Returns("dry run")

\* _execute_decision.  A jog and a program are checked before anything is read.
CheckedFirst(command) == command.kind \in {"jog", "program"}

Plan(command) ==
  /\ pc = "model"
  /\ mode # "preview"
  /\ mode = "command" => command.kind = "jog"
  /\ plan' = command
  /\ IF CheckedFirst(command) THEN Goes("check", "status") ELSE Goes("observe", "state")
  /\ UNCHANGED <<mode, confirmed, base, outcome, before>>

-----------------------------------------------------------------------------
(***************************************************************************)
(* Checks, before and after the confirmation.                              *)
(***************************************************************************)
\* The state is kept, and with it the axes a partial target leaves out and the
\* first point of a trajectory.
Observe ==
  /\ pc = "observe"
  /\ LET t == TopicOf(plan) IN
       \/ /\ Missed(t, FALSE) \/ (Fresh(t, FALSE) /\ latest[t].content = "foreign")
          /\ Returns("blocked")
       \/ /\ Fresh(t, FALSE) /\ latest[t].content # "foreign"
          /\ base' = latest[t].age
          /\ IF plan.kind = "jog" THEN Goes("confirm", "none") ELSE Goes("check", "status")
          /\ UNCHANGED <<mode, plan, confirmed, outcome, before>>

\* Mutant: a target that was checked once is not checked again.
CheckedOnce ==
  /\ pc = "check"
  /\ \/ /\ ~confirmed /\ (StatusMissed \/ Blocked(plan) \/ (status # Nothing /\ StateDependent(plan)))
        /\ Returns("blocked")
     \/ /\ confirmed \/ Ready(plan)
        /\ Goes("server", "server")
        /\ Keeps

\* check_execution_ready and its three relatives, up to wait_for_server.
Check ==
  /\ pc = "check"
  /\ \/ /\ StatusMissed \/ Blocked(plan) \/ (status # Nothing /\ StateDependent(plan))
        /\ Returns("blocked")
     \/ /\ Ready(plan)
        /\ Goes("server", "server")
        /\ Keeps

\* wait_for_server does not spin.  A jog's state is read after its check.
ServerFound ==
  /\ pc = "server"
  /\ IF confirmed THEN Goes("send", "none")
     ELSE IF plan.kind = "jog" /\ mode # "command" THEN Goes("observe", "state")
     ELSE Goes("confirm", "none")
  /\ Keeps

ServerMissing ==
  /\ pc = "server"
  /\ timer = 0
  /\ Returns("blocked")

\* The operator types something else, or there is no terminal.
Decline ==
  /\ pc = "confirm"
  /\ Returns("cancelled")

\* Mutant: what was read for the preview is sent.
ConfirmAndSend ==
  /\ pc = "confirm"
  /\ confirmed' = TRUE
  /\ Goes("send", "none")
  /\ UNCHANGED <<mode, plan, base, outcome, before>>

\* The operator types the token.  A target and a joint target are read, completed
\* and checked once more.
Confirm ==
  /\ pc = "confirm"
  /\ confirmed' = TRUE
  /\ IF CheckedFirst(plan) THEN Goes("send", "none") ELSE Goes("observe", "state")
  /\ UNCHANGED <<mode, plan, base, outcome, before>>

-----------------------------------------------------------------------------
(***************************************************************************)
(* One goal.                                                               *)
(***************************************************************************)
\* execute and its three relatives; started_at is taken before.
Send ==
  /\ pc = "send"
  /\ SendGoal(plan)
  /\ Marked
  /\ pc' = "accept"
  /\ UNCHANGED <<gates, queueVars, status, mode, plan, confirmed, base, outcome, before>>

\* Mutant: a goal that is not accepted in time is sent again.
SentAgain ==
  /\ pc = "accept"
  /\ \/ Accepted /\ Goes("result", "result")
     \/ NotAccepted /\ Goes("send", "none")
  /\ Keeps

\* Mutant: a goal without an answer is reported as one that was not sent.
AnswerMissingAsBlocked ==
  /\ pc = "accept"
  /\ \/ /\ Accepted
        /\ Goes("result", "result")
        /\ Keeps
     \/ /\ NotAccepted
        /\ Returns("blocked")

Answer ==
  /\ pc = "accept"
  /\ \/ /\ Accepted
        /\ Goes("result", "result")
        /\ Keeps
     \/ /\ NotAccepted
        /\ Returns("failed")

Result ==
  /\ pc = "result"
  /\ \/ /\ Success /\ plan.kind # "program" /\ mode # "command"
        /\ Goes("show", "state")
        /\ Keeps
     \/ /\ Success /\ (plan.kind = "program" \/ mode = "command")
        /\ Returns("success")
     \/ /\ NoSuccess
        /\ Returns("failed")

\* A state received after started_at is shown as the state after the result; a
\* state of other joints raises here too.
Shows == Fresh(TopicOf(plan), TRUE)

Show ==
  /\ pc = "show"
  /\ \/ Shows /\ latest[TopicOf(plan)].content = "foreign" /\ Ends("ended", "raised")
     \/ Shows /\ latest[TopicOf(plan)].content # "foreign" /\ Returns("success")
     \/ Missed(TopicOf(plan), TRUE) /\ Returns("success")

-----------------------------------------------------------------------------
Spinning ==
  \/ pc = "readCartesian" /\ Seeking("cartesian", FALSE)
  \/ pc = "readJoints" /\ Seeking("joint", FALSE)
  \/ pc = "observe" /\ Seeking(TopicOf(plan), FALSE)
  \/ pc = "show" /\ Seeking(TopicOf(plan), TRUE)
  \/ pc = "check" /\ StatusAwaited
  \/ pc \in {"accept", "result"}

Spin ==
  /\ Spinning
  /\ Callbacks(pc \in {"accept", "result", "show"})
  /\ UNCHANGED sessionVars

\* Computing takes no time; waiting, the model and the operator do.
TimePasses ==
  \/ pc \in {"idle", "model", "confirm"}
  \/ (Spinning \/ pc = "server") /\ timer > 0

Tick ==
  /\ TimePasses
  /\ Elapse
  /\ base' = IF base = Nothing THEN Nothing
             ELSE Lower(base + 1, OldestUsed(TopicOf(plan)) + 1)
  /\ UNCHANGED <<mode, pc, plan, confirmed, outcome, before>>

Environment ==
  /\ pc # "ended"
  /\ DriverActs
  /\ UNCHANGED sessionVars

\* What the program does of its own accord.
Proceeds ==
  \/ ReadCartesian \/ ReadJoints \/ NoPlan \/ DryRun \/ \E command \in Commands : Plan(command)
  \/ Observe \/ Check \/ ServerFound \/ ServerMissing \/ Send \/ Answer \/ Result \/ Show

Next ==
  \/ Proceeds \/ Spin \/ Tick \/ Environment
  \/ Prompt \/ Quit \/ Interrupt \/ Decline \/ Confirm

Spec == Init /\ [][Next]_vars

\* The program's one thread runs and time passes.  Nothing is asked of the driver
\* or of the operator.
FairSpec == Spec /\ WF_vars(Proceeds) /\ WF_vars(Tick)

-----------------------------------------------------------------------------
(***************************************************************************)
(* Properties.                                                             *)
(***************************************************************************)
\* A success is reported only for the goal of this prompt and only if the driver
\* finished it, whatever timed out, was lost or was still running from an earlier
\* prompt; a program whose session was not recovered is no success.
SuccessMeansDone ==
  outcome = "success" => Len(goals) = before + 1 /\ Current.phase = "succeeded"

\* "Nothing was sent" and the other returns without a motion are true: no goal of
\* this prompt is anywhere, not even one that may still be accepted.
NothingSentIsTrue == outcome \in Silent => Len(goals) = before

\* Without --execute nothing is ever sent.
PreviewSendsNothing == mode = "preview" => goals = <<>>

\* The state that completes a target or begins a trajectory was received no
\* longer ago than the maximum age and the wait for the action server, however
\* long the model and the operator took.
UsedStateIsRecent ==
  [][Len(goals') > Len(goals) /\ StateDependent(plan)
       => base # Nothing /\ base <= OldestUsed(TopicOf(plan))]_vars

\* Every command except a jog is sent only if the status received last allows it;
\* a jog is checked before the operator is asked, and not again.
SentUnderTheLastStatus ==
  [][Len(goals') > Len(goals) /\ plan.kind # "jog" => Ready(plan)]_vars

\* A session promises what ConfirmedCommands says, with requests of one command.
Confirmed == INSTANCE ConfirmedCommands WITH
  MaxCommands <- 1,
  offer <- IF plan = Nothing THEN <<>> ELSE <<plan>>,
  approved <- confirmed,
  step <- IF pc \in {"accept", "result", "show"} THEN 1 ELSE 0,
  issued <- [i \in DOMAIN goals |-> goals[i].command],
  succeeded <- {i \in DOMAIN goals : goals[i].phase = "succeeded"},
  reported <- outcome = "success"

ConfirmedSpec == Confirmed!Spec

\* Whatever the driver, the model and the network do, the program comes back to
\* the operator.
ReturnsToTheOperator == pc \notin {"idle", "confirm", "ended"} ~> pc \in {"idle", "confirm", "ended"}
=============================================================================
