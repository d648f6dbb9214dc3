-------------------------- MODULE AssistantWorkflow --------------------------
(***************************************************************************)
(* The robot workflows of fanucpy_assistant: alignment above a detected    *)
(* object, the three stages of a pick, the drop pose and the home program. *)
(*                                                                         *)
(* A detected object is where it is seen; it is gone when its track, label,*)
(* identity source, frame or calibration is not the one previewed.  A pose *)
(* is the stage target it lies within tolerance of.                        *)
(***************************************************************************)
EXTENDS PlannerClient

CONSTANTS
  Stages,    \* the commands of each workflow, in order
  MaxShift,  \* max_vision_target_refresh_shift_mm
  Gone       \* an object that is not seen as it was

Workflows == DOMAIN Stages
Places == Contents["vision"] \ {Gone}

ASSUME WorkflowAssumption ==
  /\ Topics = {"cartesian", "vision"}
  /\ Places \subseteq Int
  /\ Workflows \subseteq {"align", "pick", "drop", "home"}
  /\ Nothing \notin Workflows
  /\ \A w \in Workflows :
       Stages[w] \in Seq(Commands) /\ Len(Stages[w]) = IF w = "pick" THEN 3 ELSE 1
  /\ MaxShift \in Nat

VARIABLES
  mode,       \* execute: --execute and the gates; gated: a gate is off; preview
  pc,         \* where the program is
  request,    \* the workflow under way
  seen,       \* the object in the batch its selection was made from
  preview,    \* where the object was when the operator was asked
  target,     \* where it was when it was read again, and in which batch
  confirmed,  \* whether the operator has confirmed
  stage,      \* the stage under way
  outcome,    \* what came of the last workflow
  before      \* history: goals sent before it

workflowVars == <<mode, pc, request, seen, preview, target, confirmed, stage, outcome, before>>
vars == <<clientVars, workflowVars>>

Visual == {"align", "pick"}
Silent == {"answered", "blocked", "cancelled", "dry run"}
Sightings == [content : Contents["vision"], since : BOOLEAN]

WorkflowTypeOK ==
  /\ mode \in {"execute", "gated", "preview"}
  /\ pc \in {"idle", "vision", "limit", "pose", "offer", "check", "server", "confirm",
             "refreshVision", "refreshPose", "stageCheck", "stageServer", "send", "accept",
             "result", "verify", "ended"}
  /\ request \in Workflows \cup {Nothing}
  /\ seen \in Contents["vision"] \cup {Nothing}
  /\ preview \in Contents["vision"] \cup {Nothing}
  /\ target \in Sightings \cup {Nothing}
  /\ confirmed \in BOOLEAN
  /\ stage \in Nat
  /\ outcome \in {"none", "success", "failed", "interrupted", "raised"} \cup Silent
  /\ before \in Nat

TypeOK == ClientTypeOK /\ WorkflowTypeOK

Init ==
  /\ ClientInit
  /\ mode \in {"execute", "gated", "preview"}
  /\ pc = "idle"
  /\ request = Nothing
  /\ seen = Nothing
  /\ preview = Nothing
  /\ target = Nothing
  /\ confirmed = FALSE
  /\ stage = 0
  /\ outcome = "none"
  /\ before = 0

-----------------------------------------------------------------------------
Stays == UNCHANGED <<gates, queueVars, storedVars, goals>>
Keeps == UNCHANGED <<mode, request, seen, preview, target, confirmed, stage, outcome, before>>

\* The program goes to another place, with a time to wait there.
Turns(to, wait) ==
  /\ pc' = to
  /\ timer' = IF wait = "none" THEN 0 ELSE Timeouts[wait]

Goes(to, wait) == Turns(to, wait) /\ Stays

\* The same, and time.monotonic() is kept for received_after.
GoesMarked(to, wait) ==
  /\ Turns(to, wait)
  /\ Marked
  /\ UNCHANGED <<gates, queueVars, status, goals>>

Ends(to, what) ==
  /\ Turns(to, "none")
  /\ outcome' = what
  /\ request' = Nothing
  /\ seen' = Nothing
  /\ preview' = Nothing
  /\ target' = Nothing
  /\ confirmed' = FALSE
  /\ stage' = 0
  /\ Marked
  /\ UNCHANGED <<gates, queueVars, status, goals, mode, before>>

Returns(what) == Ends("idle", what)

\* validate_cartesian_target_plan, which build_vision_cartesian_target calls, raises
\* a PromptParseError when the driver's speed limit has fallen since the speed was
\* read from the prompt; only _execute_vision_target expects one.
LimitFell == status # Nothing /\ Ends("ended", "raised")

-----------------------------------------------------------------------------
(***************************************************************************)
(* Preview.                                                                *)
(***************************************************************************)
\* process_assistant_prompt: help, examples, saved tasks and what the model
\* answers do not come here.  A request for the maximum speed needs the limit of
\* a connected driver.  MaxGoals leaves room for the longest workflow.
Ask(workflow) ==
  /\ pc = "idle"
  /\ Len(goals) + 3 <= MaxGoals
  /\ request' = workflow
  /\ outcome' = "none"
  /\ before' = Len(goals)
  /\ stage' = 1
  /\ \/ workflow \in Visual /\ Goes("vision", "state")
     \/ workflow = "drop" /\ GoesMarked("limit", "state")
     \/ workflow \in {"drop", "home"} /\ Goes("offer", "none")
  /\ UNCHANGED <<mode, seen, preview, target, confirmed>>

Quit ==
  /\ pc = "idle"
  /\ Ends("ended", outcome)

Interrupt ==
  /\ pc # "ended"
  /\ Ends("ended", "interrupted")

\* wait_for_vision, validate_vision_frame and parse_vision_motion.
SelectObject ==
  /\ pc = "vision"
  /\ \/ /\ \/ Missed("vision", FALSE)
           \/ (Fresh("vision", FALSE) /\ latest["vision"].content = Gone)
        /\ Returns("blocked")
     \/ /\ Fresh("vision", FALSE) /\ latest["vision"].content # Gone
        /\ seen' = latest["vision"].content
        /\ GoesMarked("limit", "state") \/ Goes("pose", "state")
        /\ UNCHANGED <<mode, request, preview, target, confirmed, stage, outcome, before>>

\* workflow_velocity_limit, when the prompt asks for the maximum speed.
LimitKnown == Fresh("cartesian", TRUE) /\ status # Nothing /\ status.connected

MaximumSpeed ==
  /\ pc = "limit"
  /\ \/ /\ LimitKnown
        /\ IF request = "drop" THEN Goes("offer", "none") ELSE Goes("pose", "state")
        /\ Keeps
     \/ /\ Missed("cartesian", TRUE) \/ (Fresh("cartesian", TRUE) /\ ~LimitKnown)
        /\ Returns("blocked")

\* The newest batch is taken if it is still fresh, the first one if not; the same
\* track has to be in it.  Travel limits may refuse the target.
Newest == IF Fresh("vision", FALSE) THEN latest["vision"].content ELSE seen

PreviewTarget ==
  /\ pc = "pose"
  /\ \/ /\ Missed("cartesian", FALSE) \/ Fresh("cartesian", FALSE)
        /\ Returns("blocked")
     \/ Fresh("cartesian", FALSE) /\ LimitFell
     \/ /\ Fresh("cartesian", FALSE)
        /\ Newest # Gone
        /\ preview' = Newest
        /\ Goes("offer", "none")
        /\ UNCHANGED <<mode, request, seen, target, confirmed, stage, outcome, before>>

\* Without --execute, or for a question, the workflow is only shown; without its
\* own gates it is not offered for confirmation.
Offer ==
  /\ pc = "offer"
  /\ CASE mode = "execute" -> Goes("check", "status") /\ Keeps
       [] mode = "gated" -> Returns("blocked")
       [] mode = "preview" -> Returns("dry run")

PreviewOnly ==
  /\ pc = "offer"
  /\ Returns("dry run")

Commanded == {Stages[request][i] : i \in DOMAIN Stages[request]}

\* Every stage is checked before the operator is asked.
Check ==
  /\ pc = "check"
  /\ \/ /\ \/ StatusMissed
           \/ \E c \in Commanded : Blocked(c) \/ (status # Nothing /\ StateDependent(c))
        /\ Returns("blocked")
     \/ /\ \A c \in Commanded : Ready(c)
        /\ Goes("server", "server")
        /\ Keeps

ServerFound ==
  /\ pc \in {"server", "stageServer"}
  /\ Goes(IF pc = "server" THEN "confirm" ELSE "send", "none")
  /\ Keeps

ServerMissing ==
  /\ pc \in {"server", "stageServer"}
  /\ timer = 0
  /\ Returns(IF stage = 1 THEN "blocked" ELSE "failed")

Decline ==
  /\ pc = "confirm"
  /\ Returns("cancelled")

-----------------------------------------------------------------------------
(***************************************************************************)
(* After the confirmation.                                                 *)
(***************************************************************************)
\* confirmed_at is taken.
Confirm ==
  /\ pc = "confirm"
  /\ confirmed' = TRUE
  /\ IF request \in Visual THEN GoesMarked("refreshVision", "state")
     ELSE GoesMarked("stageCheck", "status")
  /\ UNCHANGED <<mode, request, seen, preview, target, stage, outcome, before>>

Sighting(message) == [content |-> message.content, since |-> message.since]

\* Mutant: a batch received before the confirmation will do.
RefreshFromAnyBatch ==
  /\ pc = "refreshVision"
  /\ \/ /\ \/ Missed("vision", FALSE)
           \/ (Fresh("vision", FALSE) /\ latest["vision"].content = Gone)
        /\ Returns("blocked")
     \/ /\ Fresh("vision", FALSE) /\ latest["vision"].content # Gone
        /\ target' = Sighting(latest["vision"])
        /\ Goes("refreshPose", "state")
        /\ UNCHANGED <<mode, request, seen, preview, confirmed, stage, outcome, before>>

\* _refresh_target_after_confirmation: a batch received after the confirmation,
\* with the object previewed in it.
RefreshVision ==
  /\ pc = "refreshVision"
  /\ \/ /\ \/ Missed("vision", TRUE)
           \/ (Fresh("vision", TRUE) /\ latest["vision"].content = Gone)
        /\ Returns("blocked")
     \/ /\ Fresh("vision", TRUE) /\ latest["vision"].content # Gone
        /\ target' = Sighting(latest["vision"])
        /\ Goes("refreshPose", "state")
        /\ UNCHANGED <<mode, request, seen, preview, confirmed, stage, outcome, before>>

Distance(a, b) == IF a < b THEN b - a ELSE a - b

Near == Distance(preview, target.content) <= MaxShift

\* Then a state received after it, and the two targets compared.
RefreshPose ==
  /\ pc = "refreshPose"
  /\ \/ /\ Missed("cartesian", TRUE) \/ Fresh("cartesian", TRUE)
        /\ Returns("blocked")
     \/ request = "pick" /\ Fresh("cartesian", TRUE) /\ LimitFell
     \/ /\ Fresh("cartesian", TRUE)
        /\ Near
        /\ Goes("stageCheck", "status")
        /\ Keeps

StageCommand == Stages[request][stage]

\* check_absolute_cartesian_execution_ready or check_program_execution_ready,
\* again, for one stage.
StageCheck ==
  /\ pc = "stageCheck"
  /\ \/ /\ StatusMissed \/ Blocked(StageCommand) \/ (status # Nothing /\ StateDependent(StageCommand))
        /\ Returns(IF stage = 1 THEN "blocked" ELSE "failed")
     \/ /\ Ready(StageCommand)
        /\ Goes("stageServer", "server")
        /\ Keeps

Send ==
  /\ pc = "send"
  /\ SendGoal(StageCommand)
  /\ pc' = "accept"
  /\ UNCHANGED <<gates, queueVars, storedVars>>
  /\ Keeps

Answer ==
  /\ pc = "accept"
  /\ \/ Accepted /\ Goes("result", "result") /\ Keeps
     \/ NotAccepted /\ Returns("failed")

\* Mutant: a stage whose end is not known counts as completed.
ResultAssumed ==
  /\ pc = "result"
  /\ \/ Success \/ timer = 0
  /\ IF request = "home" THEN Returns("success") ELSE GoesMarked("verify", "state") /\ Keeps

\* Mutant: the wait for a result has no end.
PatientResult ==
  /\ pc = "result"
  /\ \/ /\ Success
        /\ IF request = "home" THEN Returns("success") ELSE GoesMarked("verify", "state") /\ Keeps
     \/ /\ Current.phase \in {"failed", "unrecovered"}
        /\ Returns("failed")

\* completed_at is taken once the result is there.
Result ==
  /\ pc = "result"
  /\ \/ /\ Success
        /\ IF request = "home" THEN Returns("success") ELSE GoesMarked("verify", "state") /\ Keeps
     \/ /\ NoSuccess
        /\ Returns("failed")

\* Within pick_pose_tolerance_mm and pick_orientation_tolerance_deg.
Reached == latest["cartesian"].content = StageCommand.name

\* Mutant: a state that does not arrive does not stop the sequence.
VerifyIfPossible ==
  /\ pc = "verify"
  /\ \/ /\ request # "align" /\ Fresh("cartesian", TRUE) /\ ~Reached
        /\ Returns("failed")
     \/ /\ request = "align" \/ stage = Len(Stages[request])
        /\ Missed("cartesian", TRUE) \/ (Fresh("cartesian", TRUE) /\ (request = "align" \/ Reached))
        /\ Returns("success")
     \/ /\ request # "align" /\ stage < Len(Stages[request])
        /\ Missed("cartesian", TRUE) \/ (Fresh("cartesian", TRUE) /\ Reached)
        /\ stage' = stage + 1
        /\ Goes("stageCheck", "status")
        /\ UNCHANGED <<mode, request, seen, preview, target, confirmed, outcome, before>>

\* _execute_cartesian_stage verifies a stage before the next; an alignment only
\* shows the state.
Verify ==
  /\ pc = "verify"
  /\ \/ /\ request = "align"
        /\ Missed("cartesian", TRUE) \/ Fresh("cartesian", TRUE)
        /\ Returns("success")
     \/ /\ request # "align"
        /\ Missed("cartesian", TRUE) \/ (Fresh("cartesian", TRUE) /\ ~Reached)
        /\ Returns("failed")
     \/ /\ request # "align" /\ stage = Len(Stages[request])
        /\ Fresh("cartesian", TRUE) /\ Reached
        /\ Returns("success")
     \/ /\ request # "align" /\ stage < Len(Stages[request])
        /\ Fresh("cartesian", TRUE) /\ Reached
        /\ stage' = stage + 1
        /\ Goes("stageCheck", "status")
        /\ UNCHANGED <<mode, request, seen, preview, target, confirmed, outcome, before>>

-----------------------------------------------------------------------------
Spinning ==
  \/ pc = "vision" /\ Seeking("vision", FALSE)
  \/ pc = "refreshVision" /\ Seeking("vision", TRUE)
  \/ pc = "pose" /\ Seeking("cartesian", FALSE)
  \/ pc \in {"limit", "refreshPose", "verify"} /\ Seeking("cartesian", TRUE)
  \/ pc \in {"check", "stageCheck"} /\ StatusAwaited
  \/ pc \in {"accept", "result"}

Spin ==
  /\ Spinning
  /\ Callbacks(pc \in {"limit", "refreshVision", "refreshPose", "verify"})
  /\ UNCHANGED workflowVars

\* Computing takes no time; waiting and the operator do.
TimePasses ==
  \/ pc \in {"idle", "confirm"}
  \/ (Spinning \/ pc \in {"server", "stageServer"}) /\ timer > 0

Tick == TimePasses /\ Elapse /\ UNCHANGED workflowVars

Environment ==
  /\ pc # "ended"
  /\ DriverActs
  /\ UNCHANGED workflowVars

Proceeds ==
  \/ SelectObject \/ MaximumSpeed \/ PreviewTarget \/ Offer \/ PreviewOnly \/ Check
  \/ ServerFound \/ ServerMissing \/ RefreshVision \/ RefreshPose \/ StageCheck
  \/ Send \/ Answer \/ Result \/ Verify

Next ==
  \/ Proceeds \/ Spin \/ Tick \/ Environment
  \/ \E workflow \in Workflows : Ask(workflow)
  \/ Quit \/ Interrupt \/ Decline \/ Confirm

Spec == Init /\ [][Next]_vars

\* The program's one thread runs and time passes.
FairSpec == Spec /\ WF_vars(Proceeds) /\ WF_vars(Tick)

-----------------------------------------------------------------------------
(***************************************************************************)
(* Properties.                                                             *)
(***************************************************************************)
\* A workflow promises what ConfirmedCommands says: all its stages are confirmed
\* at once, and one that fails, times out or cannot be verified is the last.
Confirmed == INSTANCE ConfirmedCommands WITH
  MaxCommands <- 3,
  offer <- IF request = Nothing THEN <<>> ELSE Stages[request],
  approved <- confirmed,
  step <- IF request = Nothing THEN 0 ELSE Len(goals) - before,
  issued <- [i \in DOMAIN goals |-> goals[i].command],
  succeeded <- {i \in DOMAIN goals : goals[i].phase = "succeeded"},
  reported <- outcome = "success"

ConfirmedSpec == Confirmed!Spec

\* A later stage is sent only if a state received after the stage before it had
\* ended shows the arm at that stage's target (_execute_cartesian_stage).
StageVerified ==
  [][Len(goals') > Len(goals) /\ stage > 1
       => /\ latest["cartesian"].since
          /\ latest["cartesian"].content = Stages[request][stage - 1].name]_vars

\* A pick or a drop that is reported as done ended at its last target, as far as a
\* state received after its end can say.
ReachedWhenReported ==
  [][pc = "verify" /\ outcome' = "success" /\ request # "align"
       => Fresh("cartesian", TRUE) /\ Reached]_vars

\* The object a visual command is sent to is, in a batch received after the
\* confirmation, no farther from its previewed place than the configured shift.
SentNearThePreview ==
  [][Len(goals') > Len(goals) /\ request \in Visual
       => /\ target.since
          /\ preview # Gone /\ target.content # Gone
          /\ Distance(preview, target.content) <= MaxShift]_vars

\* Nothing was sent when the program says so.
NothingSentIsTrue == outcome \in Silent => Len(goals) = before

\* Whatever the camera, the driver and the network do, a workflow ends.
ReturnsToTheOperator == pc \notin {"idle", "confirm", "ended"} ~> pc \in {"idle", "confirm", "ended"}
=============================================================================
