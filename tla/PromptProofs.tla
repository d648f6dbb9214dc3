---------------------------- MODULE PromptProofs ----------------------------
(***************************************************************************)
(* Theorems about PromptSession, for every set of commands, statuses and   *)
(* topics, every maximum age, every timeout and any number of prompts.     *)
(***************************************************************************)
EXTENDS PromptSession, ClientProofs

-----------------------------------------------------------------------------
(***************************************************************************)
(* The invariant of a session.                                             *)
(***************************************************************************)
Planned == {"observe", "check", "server", "confirm", "send", "accept", "result", "show"}
Sent == {"accept", "result", "show"}
Resting == {"idle", "ended"}

\* A plan, its confirmation and its outcome go with the place the program is at.
PlaceInv ==
  /\ plan # Nothing <=> pc \in Planned
  /\ pc \notin Planned => base = Nothing
  /\ confirmed => pc \in Planned \ {"confirm"}
  /\ confirmed /\ pc \in {"observe", "check", "server"} => ~CheckedFirst(plan)
  /\ pc \in Sent \cup {"send"} => confirmed
  /\ pc \notin Resting => outcome = "none"
  /\ mode = "preview" => pc \notin Planned

\* One goal for a prompt, from its send on, and what is known of it.
GoalsInv ==
  /\ pc \in Sent => Len(goals) = before + 1 /\ Current.command = plan
  /\ pc \notin Sent \cup Resting => Len(goals) = before
  /\ pc = "show" => Current.phase = "succeeded"

\* What was checked stays true of the status kept until the goal is sent.
ReadyInv ==
  /\ pc \in {"server", "confirm", "send"} /\ plan.kind # "jog" => Ready(plan)
  /\ confirmed \/ pc \in {"server", "confirm"} \/ (pc = "observe" /\ CheckedFirst(plan))
       => status # Nothing

\* The age of a confirmed target's base and the time left to wait add up.
BaseInv ==
  confirmed /\ StateDependent(plan) =>
    /\ pc \in {"check", "server", "send"} => base # Nothing
    /\ pc = "check" => base <= MaxAge[TopicOf(plan)]
    /\ pc = "server" => base + timer <= OldestUsed(TopicOf(plan))
    /\ pc = "send" => base <= OldestUsed(TopicOf(plan))

IInv ==
  /\ TypeOK /\ PlaceInv /\ GoalsInv /\ ReadyInv /\ BaseInv
  /\ SuccessMeansDone /\ NothingSentIsTrue /\ PreviewSendsNothing

Outcomes == {"none", "success", "failed", "raised", "interrupted"} \cup Silent

LEMMA PlanFields ==
  ASSUME NEW command \in Commands
  PROVE  /\ command # Nothing
         /\ TopicOf(command) \in Topics
         /\ MaxAge[TopicOf(command)] \in Nat
         /\ OldestUsed(TopicOf(command)) \in Nat
         /\ MaxAge[TopicOf(command)] + Timeouts["server"] = OldestUsed(TopicOf(command))
<1>1. command # Nothing
  BY ClientAssumption
<1>2. TopicOf(command) \in Topics
  BY SessionAssumption DEF TopicOf
<1>3. MaxAge[TopicOf(command)] \in Nat
  BY <1>2, ClientAssumption
<1>4. Timeouts["server"] \in Nat
  BY ClientAssumption DEF Waits
<1> QED BY <1>1, <1>2, <1>3, <1>4 DEF OldestUsed

LEMMA InitHolds == Init => IInv
<1> SUFFICES ASSUME Init PROVE IInv
  OBVIOUS
<1>1. ClientTypeOK
  BY ClientInitTyped DEF Init
<1>2. SessionTypeOK
  BY DEF Init, SessionTypeOK
<1>3. PlaceInv /\ GoalsInv /\ ReadyInv /\ BaseInv
  BY DEF Init, PlaceInv, GoalsInv, ReadyInv, BaseInv, Planned, Sent, Resting
<1>4. SuccessMeansDone /\ NothingSentIsTrue /\ PreviewSendsNothing
  BY DEF Init, ClientInit, SuccessMeansDone, NothingSentIsTrue, PreviewSendsNothing, Silent
<1> QED BY <1>1, <1>2, <1>3, <1>4 DEF IInv, TypeOK

\* The end of a prompt, with an outcome that is true.
LEMMA EndsStep ==
  ASSUME IInv, NEW to \in Resting, NEW what \in Outcomes, Ends(to, what),
         what \in Silent => Len(goals) = before,
         what = "success" => Len(goals) = before + 1 /\ Current.phase = "succeeded"
  PROVE  IInv'
<1> USE DEF IInv
<1>1. pc' = to /\ timer' = 0 /\ outcome' = what /\ plan' = Nothing /\ confirmed' = FALSE
      /\ base' = Nothing /\ UNCHANGED <<gates, queueVars, status, goals, mode, before>>
  BY DEF Ends, Turns
<1>2. ClientTypeOK'
  BY <1>1, MarkedTyped, ClientTypes, ClientTypesNext DEF Ends, queueVars, TypeOK
<1>3. SessionTypeOK'
  BY <1>1 DEF TypeOK, SessionTypeOK, Resting, Outcomes
<1>4. PlaceInv' /\ GoalsInv' /\ ReadyInv' /\ BaseInv'
  BY <1>1 DEF PlaceInv, GoalsInv, ReadyInv, BaseInv, Planned, Sent, Resting
<1>5. SuccessMeansDone' /\ NothingSentIsTrue' /\ PreviewSendsNothing'
  BY <1>1 DEF SuccessMeansDone, NothingSentIsTrue, PreviewSendsNothing, Current
<1> QED BY <1>2, <1>3, <1>4, <1>5 DEF TypeOK

LEMMA ReturnsStep ==
  ASSUME IInv, NEW what \in Outcomes, Returns(what),
         what \in Silent => Len(goals) = before,
         what = "success" => Len(goals) = before + 1 /\ Current.phase = "succeeded"
  PROVE  IInv'
<1>1. (IF mode = "command" THEN "ended" ELSE "idle") \in Resting
  BY DEF Resting
<1> QED BY <1>1, EndsStep DEF Returns

LEMMA GoesClient ==
  ASSUME ClientTypeOK, NEW to, NEW wait \in Waits \cup {"none"}, Goes(to, wait)
  PROVE  /\ ClientTypeOK' /\ pc' = to
         /\ UNCHANGED <<gates, notice, status, goals, latest, mail>>
         /\ timer' = IF wait = "none" THEN 0 ELSE Timeouts[wait]
  BY ClientTypes, ClientTypesNext, TimeoutNat DEF Goes, Turns, Stays, queueVars, storedVars

-----------------------------------------------------------------------------
(***************************************************************************)
(* The steps of a session.                                                 *)
(***************************************************************************)
LEMMA PromptStep == IInv /\ Prompt => IInv'
<1> SUFFICES ASSUME IInv, Prompt PROVE IInv'
  OBVIOUS
<1> USE DEF IInv
<1>1. PICK to \in {"model", "readCartesian"}, wait \in {"none", "state"} : Goes(to, wait)
  BY DEF Prompt
<1>2. ClientTypeOK' /\ pc' = to /\ UNCHANGED <<status, goals>>
  BY <1>1, GoesClient DEF Waits, TypeOK
<1>3. pc = "idle" /\ outcome' = "none" /\ before' = Len(goals) /\ UNCHANGED <<mode, plan, confirmed, base>>
  BY DEF Prompt
<1>4. SessionTypeOK'
  BY <1>2, <1>3, LenProperties, ClientTypes DEF TypeOK, SessionTypeOK
<1>5. PlaceInv' /\ GoalsInv' /\ ReadyInv' /\ BaseInv'
  BY <1>2, <1>3 DEF PlaceInv, GoalsInv, ReadyInv, BaseInv, Planned, Sent, Resting
<1>6. SuccessMeansDone' /\ NothingSentIsTrue' /\ PreviewSendsNothing'
  BY <1>2, <1>3 DEF SuccessMeansDone, NothingSentIsTrue, PreviewSendsNothing, Silent
<1> QED BY <1>2, <1>4, <1>5, <1>6 DEF TypeOK

LEMMA QuitStep == IInv /\ (Quit \/ Interrupt) => IInv'
<1> SUFFICES ASSUME IInv, Quit \/ Interrupt PROVE IInv'
  OBVIOUS
<1>1. outcome \in Outcomes
  BY DEF IInv, TypeOK, SessionTypeOK, Outcomes
<1>2. CASE Quit
  BY <1>1, <1>2, EndsStep DEF Quit, IInv, SuccessMeansDone, NothingSentIsTrue, Resting
<1>3. CASE Interrupt
  BY <1>3, EndsStep DEF Interrupt, Resting, Outcomes, Silent
<1> QED BY <1>2, <1>3

\* A step that reads or computes and leaves the request as it is.
LEMMA KeepsStep ==
  ASSUME IInv, NEW to \in {"readJoints", "model", "server", "send", "observe", "confirm", "result", "show"},
         NEW wait \in Waits \cup {"none"}, Goes(to, wait), Keeps,
         pc \notin Resting,
         to \in Planned <=> pc \in Planned,
         to \in Sent <=> pc \in Sent,
         to = "show" => Current.phase = "succeeded",
         to = "send" => confirmed,
         to = "confirm" => ~confirmed,
         to = "observe" => ~confirmed,
         to = "server" => pc = "check",
         ReadyInv', BaseInv'
  PROVE  IInv'
<1> USE DEF IInv
<1>1. ClientTypeOK' /\ pc' = to /\ UNCHANGED <<status, goals>>
  BY GoesClient DEF TypeOK
<1>2. UNCHANGED <<mode, plan, confirmed, base, outcome, before>>
  BY DEF Keeps
<1>3. SessionTypeOK'
  BY <1>1, <1>2 DEF TypeOK, SessionTypeOK
<1>4. PlaceInv'
  BY <1>1, <1>2 DEF PlaceInv, Planned, Sent, Resting, CheckedFirst
<1>5. GoalsInv'
  BY <1>1, <1>2 DEF GoalsInv, Planned, Sent, Resting, Current
<1>6. SuccessMeansDone' /\ NothingSentIsTrue' /\ PreviewSendsNothing'
  BY <1>1, <1>2 DEF SuccessMeansDone, NothingSentIsTrue, PreviewSendsNothing, Current
<1> QED BY <1>1, <1>3, <1>4, <1>5, <1>6 DEF TypeOK

LEMMA ReadStep == IInv /\ (ReadCartesian \/ ReadJoints) => IInv'
<1> SUFFICES ASSUME IInv, ReadCartesian \/ ReadJoints PROVE IInv'
  OBVIOUS
<1>1. CASE ReadJoints /\ Ends("ended", "raised")
  BY <1>1, EndsStep DEF Resting, Outcomes, Silent
<1>2. CASE ~(ReadJoints /\ Ends("ended", "raised"))
  <2>1. PICK to \in {"readJoints", "model"}, wait \in {"none", "state"} : Goes(to, wait) /\ Keeps
    BY <1>2 DEF ReadCartesian, ReadJoints
  <2>2. pc \in {"readCartesian", "readJoints"}
    BY DEF ReadCartesian, ReadJoints
  <2>3. pc' = to /\ UNCHANGED <<confirmed, plan, status>> /\ ~confirmed
    BY <2>1, <2>2, GoesClient DEF IInv, TypeOK, Waits, Keeps, PlaceInv, Planned
  <2>4. ReadyInv' /\ BaseInv'
    BY <2>3 DEF ReadyInv, BaseInv
  <2> QED BY <2>1, <2>2, <2>4, KeepsStep DEF Waits, Planned, Sent, Resting
<1> QED BY <1>1, <1>2

LEMMA NoPlanStep == IInv /\ (NoPlan \/ DryRun) => IInv'
<1> SUFFICES ASSUME IInv, NoPlan \/ DryRun PROVE IInv'
  OBVIOUS
<1>1. pc = "model" /\ \E what \in {"answered", "blocked", "dry run"} : Returns(what)
  BY DEF NoPlan, DryRun
<1>2. Len(goals) = before
  BY <1>1 DEF IInv, GoalsInv, Sent, Resting
<1> QED BY <1>1, <1>2, ReturnsStep DEF Outcomes, Silent

LEMMA PlanStep ==
  ASSUME IInv, NEW command \in Commands, Plan(command)
  PROVE  IInv'
<1> USE DEF IInv
<1>1. PICK to \in {"check", "observe"}, wait \in {"status", "state"} :
        /\ Goes(to, wait)
        /\ to = "observe" => ~CheckedFirst(command)
  BY DEF Plan
<1>2. ClientTypeOK' /\ pc' = to /\ UNCHANGED <<status, goals>>
  BY <1>1, GoesClient DEF Waits, TypeOK
<1>3. pc = "model" /\ plan' = command /\ mode # "preview"
      /\ UNCHANGED <<mode, confirmed, base, outcome, before>>
  BY DEF Plan
<1>4. ~confirmed
  BY <1>3 DEF PlaceInv, Planned
<1>5. SessionTypeOK'
  BY <1>2, <1>3 DEF TypeOK, SessionTypeOK
<1>6. PlaceInv' /\ GoalsInv'
  BY <1>2, <1>3, <1>4, PlanFields DEF PlaceInv, GoalsInv, Planned, Sent, Resting
<1>7. ReadyInv' /\ BaseInv'
  BY <1>1, <1>2, <1>3, <1>4 DEF ReadyInv, BaseInv, CheckedFirst
<1>8. SuccessMeansDone' /\ NothingSentIsTrue' /\ PreviewSendsNothing'
  BY <1>2, <1>3 DEF SuccessMeansDone, NothingSentIsTrue, PreviewSendsNothing, Current
<1> QED BY <1>2, <1>5, <1>6, <1>7, <1>8 DEF TypeOK

LEMMA ObserveStep == IInv /\ Observe => IInv'
<1> SUFFICES ASSUME IInv, Observe PROVE IInv'
  OBVIOUS
<1> USE DEF IInv
<1> DEFINE t == TopicOf(plan)
<1>0. pc = "observe" /\ plan \in Commands /\ t \in Topics /\ Len(goals) = before
  BY PlanFields DEF Observe, TypeOK, SessionTypeOK, PlaceInv, GoalsInv, Planned, Sent, Resting
<1>1. CASE Returns("blocked")
  BY <1>0, <1>1, ReturnsStep DEF Outcomes, Silent
<1>2. CASE ~Returns("blocked")
  <2>1. /\ Fresh(t, FALSE)
        /\ base' = latest[t].age
        /\ IF plan.kind = "jog" THEN Goes("confirm", "none") ELSE Goes("check", "status")
        /\ UNCHANGED <<mode, plan, confirmed, outcome, before>>
    BY <1>2 DEF Observe
  <2> HIDE DEF t
  <2>2. latest[t] \in Stored(t) /\ latest[t].age <= MaxAge[t]
    BY <1>0, <2>1, ClientTypes DEF Fresh, Records, TypeOK
  <2>3. MaxAge[t] \in Nat
    BY <1>0, ClientAssumption
  <2>4. base' \in Nat /\ base' <= MaxAge[t]
    BY <2>1, <2>2, <2>3 DEF Stored
  <2>5. base' # Nothing
    BY <2>4, SessionAssumption
  <2>6. PICK to \in {"confirm", "check"}, wait \in {"none", "status"} :
          Goes(to, wait) /\ (to = "confirm" <=> plan.kind = "jog")
    BY <2>1
  <2>7. ClientTypeOK' /\ pc' = to /\ UNCHANGED <<status, goals>>
    BY <2>6, GoesClient DEF Waits, TypeOK
  <2>8. plan.kind = "jog" => ~confirmed /\ CheckedFirst(plan)
    BY <1>0 DEF PlaceInv, CheckedFirst
  <2>9. SessionTypeOK'
    BY <2>1, <2>4, <2>7 DEF TypeOK, SessionTypeOK
  <2>10. PlaceInv' /\ GoalsInv'
    BY <1>0, <2>1, <2>6, <2>7, <2>8 DEF PlaceInv, GoalsInv, Planned, Sent, Resting
  <2>11. ReadyInv'
    BY <1>0, <2>1, <2>6, <2>7, <2>8 DEF ReadyInv
  <2>12. BaseInv'
    BY <2>1, <2>4, <2>5, <2>6, <2>7, <2>8 DEF BaseInv, t
  <2>13. SuccessMeansDone' /\ NothingSentIsTrue' /\ PreviewSendsNothing'
    BY <2>1, <2>7 DEF SuccessMeansDone, NothingSentIsTrue, PreviewSendsNothing, Current
  <2> QED BY <2>7, <2>9, <2>10, <2>11, <2>12, <2>13 DEF TypeOK
<1> QED BY <1>1, <1>2

LEMMA CheckStep == IInv /\ Check => IInv'
<1> SUFFICES ASSUME IInv, Check PROVE IInv'
  OBVIOUS
<1>0. pc = "check" /\ plan \in Commands /\ Len(goals) = before
  BY PlanFields DEF IInv, Check, TypeOK, SessionTypeOK, PlaceInv, GoalsInv, Planned, Sent, Resting
<1>1. CASE Returns("blocked")
  BY <1>0, <1>1, ReturnsStep DEF Outcomes, Silent
<1>2. CASE ~Returns("blocked")
  <2>1. Ready(plan) /\ Goes("server", "server") /\ Keeps
    BY <1>2 DEF Check
  <2>2. pc' = "server" /\ timer' = Timeouts["server"]
        /\ UNCHANGED <<status, plan, confirmed, base>>
    BY <2>1, GoesClient DEF IInv, TypeOK, Waits, Keeps
  <2>3. ReadyInv'
    BY <2>1, <2>2 DEF ReadyInv, Ready
  <2>4. BaseInv'
    <3>1. SUFFICES ASSUME confirmed, StateDependent(plan)
                   PROVE  base # Nothing /\ base + timer' <= OldestUsed(TopicOf(plan))
      BY <2>2 DEF BaseInv
    <3>2. base # Nothing /\ base <= MaxAge[TopicOf(plan)]
      BY <1>0, <3>1 DEF IInv, BaseInv
    <3>3. base \in Nat /\ MaxAge[TopicOf(plan)] \in Nat /\ Timeouts["server"] \in Nat
      BY <1>0, <3>2, PlanFields, ClientAssumption DEF IInv, TypeOK, SessionTypeOK, Waits
    <3> QED BY <1>0, <2>2, <3>2, <3>3, PlanFields
  <2> QED BY <1>0, <2>1, <2>3, <2>4, KeepsStep DEF Waits, Planned, Sent, Resting
<1> QED BY <1>1, <1>2

LEMMA ServerStep == IInv /\ (ServerFound \/ ServerMissing) => IInv'
<1> SUFFICES ASSUME IInv, ServerFound \/ ServerMissing PROVE IInv'
  OBVIOUS
<1>0. pc = "server" /\ plan \in Commands /\ Len(goals) = before /\ confirmed \in BOOLEAN
  BY PlanFields DEF IInv, ServerFound, ServerMissing, TypeOK, SessionTypeOK, PlaceInv, GoalsInv,
                    Planned, Sent, Resting
<1>1. CASE ServerMissing
  BY <1>0, <1>1, ReturnsStep DEF ServerMissing, Outcomes, Silent
<1>2. CASE ServerFound
  <2>1. PICK to \in {"send", "observe", "confirm"}, wait \in {"none", "state"} :
          /\ Goes(to, wait) /\ Keeps
          /\ to = "send" <=> confirmed
          /\ to = "observe" => plan.kind = "jog"
    BY <1>0, <1>2 DEF ServerFound
  <2>2. pc' = to /\ UNCHANGED <<status, plan, confirmed, base>>
    BY <2>1, GoesClient DEF IInv, TypeOK, Waits, Keeps
  <2>3. ReadyInv'
    BY <1>0, <2>1, <2>2 DEF IInv, ReadyInv, Ready
  <2>4. BaseInv'
    <3>1. SUFFICES ASSUME confirmed, StateDependent(plan)
                   PROVE  base # Nothing /\ base <= OldestUsed(TopicOf(plan))
      BY <2>1, <2>2 DEF BaseInv
    <3>2. base # Nothing /\ base + timer <= OldestUsed(TopicOf(plan))
      BY <1>0, <3>1 DEF IInv, BaseInv
    <3>3. base \in Nat /\ timer \in Nat /\ OldestUsed(TopicOf(plan)) \in Nat
      BY <1>0, <3>2, PlanFields, ClientTypes DEF IInv, TypeOK, SessionTypeOK
    <3> QED BY <3>2, <3>3
  <2> QED BY <1>0, <2>1, <2>3, <2>4, KeepsStep DEF Waits, Planned, Sent, Resting
<1> QED BY <1>1, <1>2

LEMMA DeclineStep == IInv /\ Decline => IInv'
<1> SUFFICES ASSUME IInv, Decline PROVE IInv'
  OBVIOUS
<1>1. Len(goals) = before
  BY DEF IInv, Decline, GoalsInv, Sent, Resting
<1> QED BY <1>1, ReturnsStep DEF Decline, Outcomes, Silent

LEMMA ConfirmStep == IInv /\ Confirm => IInv'
<1> SUFFICES ASSUME IInv, Confirm PROVE IInv'
  OBVIOUS
<1> USE DEF IInv
<1>1. pc = "confirm" /\ plan \in Commands /\ ~confirmed
  BY DEF Confirm, TypeOK, SessionTypeOK, PlaceInv, Planned
<1>2. /\ pc' \in {"send", "observe"} /\ (pc' = "send" <=> CheckedFirst(plan))
      /\ timer' \in Nat /\ confirmed' = TRUE
      /\ UNCHANGED <<gates, queueVars, storedVars, goals, mode, plan, base, outcome, before>>
  BY TimeoutNat DEF Confirm, Goes, Stays, Turns, Waits
<1>3. ClientTypeOK'
  BY <1>2, ClientTypes, ClientTypesNext DEF queueVars, storedVars, TypeOK
<1>4. SessionTypeOK'
  BY <1>2 DEF TypeOK, SessionTypeOK
<1>5. PlaceInv' /\ GoalsInv'
  BY <1>1, <1>2 DEF PlaceInv, GoalsInv, Planned, Sent, Resting
<1>6. ReadyInv'
  BY <1>1, <1>2 DEF ReadyInv, Ready, storedVars
<1>7. BaseInv'
  BY <1>1, <1>2 DEF BaseInv, StateDependent, CheckedFirst
<1>8. SuccessMeansDone' /\ NothingSentIsTrue' /\ PreviewSendsNothing'
  BY <1>2 DEF SuccessMeansDone, NothingSentIsTrue, PreviewSendsNothing, Current
<1> QED BY <1>3, <1>4, <1>5, <1>6, <1>7, <1>8 DEF TypeOK

LEMMA SendStep == IInv /\ Send => IInv'
<1> SUFFICES ASSUME IInv, Send PROVE IInv'
  OBVIOUS
<1> USE DEF IInv
<1>1. pc = "send" /\ plan \in Commands /\ confirmed /\ Len(goals) = before /\ outcome = "none"
      /\ mode # "preview" /\ SendGoal(plan) /\ Marked
  BY DEF Send, TypeOK, SessionTypeOK, PlaceInv, GoalsInv, Planned, Sent, Resting
<1>2. pc' = "accept" /\ UNCHANGED <<gates, mail, notice, status, mode, plan, confirmed, base, outcome, before>>
  BY DEF Send, queueVars
<1>3. goals' \in Seq(Goals) /\ Len(goals') = Len(goals) + 1 /\ Current'.command = plan
  <2>1. ClientTypeOK
    BY DEF TypeOK
  <2>2. /\ goals' \in Seq(Goals) /\ Len(goals') = Len(goals) + 1
        /\ Current' = [command |-> plan, phase |-> "requested"]
    BY <1>1, <2>1, SentLast, ClientTypes
  <2> QED BY <2>2
<1>4. ClientTypeOK'
  <2>1. \A t \in Topics : latest[t] \in Records(t) /\ latest'[t] \in Records(t)
    BY <1>1, ClientTypes, UnmarkedTyped DEF Marked, TypeOK
  <2>2. timer' \in Nat
    BY <1>1, ClientAssumption DEF SendGoal, Waits
  <2> QED BY <1>1, <1>2, <1>3, <2>1, <2>2, ClientTypes, ClientTypesNext DEF Marked, TypeOK
<1>5. SessionTypeOK'
  BY <1>2 DEF TypeOK, SessionTypeOK
<1>6. PlaceInv' /\ GoalsInv' /\ ReadyInv' /\ BaseInv'
  BY <1>1, <1>2, <1>3 DEF PlaceInv, GoalsInv, ReadyInv, BaseInv, Planned, Sent, Resting
<1>7. SuccessMeansDone' /\ NothingSentIsTrue' /\ PreviewSendsNothing'
  BY <1>1, <1>2 DEF SuccessMeansDone, NothingSentIsTrue, PreviewSendsNothing, Silent
<1> QED BY <1>4, <1>5, <1>6, <1>7 DEF TypeOK

\* A wait for the goal goes on to the next one.
LEMMA OnwardStep ==
  ASSUME IInv, pc \in Sent, NEW to \in {"result", "show"}, NEW wait \in {"result", "state"},
         Goes(to, wait), Keeps, to = "show" => Current.phase = "succeeded"
  PROVE  IInv'
<1>1. pc' = to /\ UNCHANGED <<status, confirmed, plan>>
  BY GoesClient DEF IInv, TypeOK, Waits, Keeps
<1>2. status # Nothing
  BY DEF IInv, ReadyInv, PlaceInv, Sent
<1>3. ReadyInv' /\ BaseInv'
  BY <1>1, <1>2 DEF ReadyInv, BaseInv
<1> QED BY <1>3, KeepsStep DEF Planned, Sent, Resting, Waits

LEMMA AnswerStep == IInv /\ (Answer \/ Result) => IInv'
<1> SUFFICES ASSUME IInv, Answer \/ Result PROVE IInv'
  OBVIOUS
<1>0. pc \in Sent /\ Len(goals) = before + 1
  BY DEF IInv, Answer, Result, GoalsInv, Sent
<1>1. CASE Returns("failed")
  BY <1>1, ReturnsStep DEF Outcomes, Silent
<1>2. CASE Returns("success") /\ Success
  BY <1>0, <1>2, ReturnsStep DEF Outcomes, Silent, Success
<1>3. CASE Goes("result", "result") /\ Keeps
  BY <1>0, <1>3, OnwardStep
<1>4. CASE Goes("show", "state") /\ Keeps /\ Success
  BY <1>0, <1>4, OnwardStep DEF Success
<1> QED BY <1>1, <1>2, <1>3, <1>4 DEF Answer, Result

LEMMA ShowStep == IInv /\ Show => IInv'
<1> SUFFICES ASSUME IInv, Show PROVE IInv'
  OBVIOUS
<1>0. Len(goals) = before + 1 /\ Current.phase = "succeeded"
  BY DEF IInv, Show, GoalsInv, Sent
<1>1. CASE Ends("ended", "raised")
  BY <1>1, EndsStep DEF Resting, Outcomes, Silent
<1>2. CASE Returns("success")
  BY <1>0, <1>2, ReturnsStep DEF Outcomes, Silent
<1> QED BY <1>1, <1>2 DEF Show

LEMMA SpinStep == IInv /\ Spin => IInv'
<1> SUFFICES ASSUME IInv, Spin PROVE IInv'
  OBVIOUS
<1> USE DEF IInv
<1>0. PICK marked \in BOOLEAN : Callbacks(marked)
  <2>1. (pc \in {"accept", "result", "show"}) \in BOOLEAN
    OBVIOUS
  <2> QED BY <2>1 DEF Spin
<1>1. Spinning
      /\ UNCHANGED <<mode, pc, plan, confirmed, base, outcome, before>>
  BY DEF Spin, sessionVars
<1>2. ClientTypeOK' /\ UNCHANGED <<goals, timer>>
  BY <1>0, CallbacksTyped DEF TypeOK
<1>3. status' = status \/ status' # Nothing
  BY <1>0 DEF Callbacks, StatusCallback, StateCallback
<1>4. pc \notin {"server", "confirm", "send"}
  BY <1>1 DEF Spinning
<1>5. SessionTypeOK' /\ PlaceInv' /\ GoalsInv' /\ BaseInv'
  BY <1>1, <1>2 DEF TypeOK, SessionTypeOK, PlaceInv, GoalsInv, BaseInv, Current
<1>6. ReadyInv'
  BY <1>1, <1>3, <1>4 DEF ReadyInv
<1>7. SuccessMeansDone' /\ NothingSentIsTrue' /\ PreviewSendsNothing'
  BY <1>1, <1>2 DEF SuccessMeansDone, NothingSentIsTrue, PreviewSendsNothing, Current
<1> QED BY <1>2, <1>5, <1>6, <1>7 DEF TypeOK

LEMMA EnvironmentStep == IInv /\ Environment => IInv'
<1> SUFFICES ASSUME IInv, Environment PROVE IInv'
  OBVIOUS
<1> USE DEF IInv
<1>1. UNCHANGED <<mode, pc, plan, confirmed, base, outcome, before>>
  BY DEF Environment, sessionVars
<1>2. ClientTypeOK' /\ Advances /\ UNCHANGED <<status, timer>>
  BY DriverTyped DEF Environment, TypeOK
<1>3. Len(goals) \in Nat
  BY ClientTypes, LenProperties DEF TypeOK
<1>4. Len(goals) > 0 => Current'.command = Current.command
                        /\ (Current.phase = "succeeded" => Current'.phase = "succeeded")
  BY <1>2, <1>3 DEF Advances, Current
<1>5. before \in Nat
  BY DEF TypeOK, SessionTypeOK
<1>6. SessionTypeOK' /\ PlaceInv' /\ ReadyInv' /\ BaseInv'
  BY <1>1, <1>2 DEF TypeOK, SessionTypeOK, PlaceInv, ReadyInv, BaseInv, Ready
<1>7. GoalsInv'
  BY <1>1, <1>2, <1>3, <1>4, <1>5 DEF GoalsInv, Advances, Sent
<1>8. SuccessMeansDone' /\ NothingSentIsTrue'
  BY <1>1, <1>2, <1>3, <1>4, <1>5 DEF SuccessMeansDone, NothingSentIsTrue, Advances
<1>9. PreviewSendsNothing'
  <2>1. goals = <<>> => goals' = <<>>
    BY <1>2, <1>3, EmptySeq, ClientTypesNext DEF Advances
  <2> QED BY <1>1, <2>1 DEF PreviewSendsNothing
<1> QED BY <1>2, <1>6, <1>7, <1>8, <1>9 DEF TypeOK

\* What has aged by one has been waited for by one.
LEMMA OlderAndLess ==
  ASSUME NEW age \in Nat, NEW older \in Nat, NEW wait \in Nat, NEW less, NEW bound \in Nat,
         older <= age + 1, less = wait - 1, age + wait <= bound
  PROVE  older + less <= bound
  OBVIOUS

LEMMA TickStep == IInv /\ Tick => IInv'
<1> SUFFICES ASSUME IInv, Tick PROVE IInv'
  OBVIOUS
<1> USE DEF IInv
<1>1. Elapse /\ TimePasses /\ UNCHANGED <<mode, pc, plan, confirmed, outcome, before>>
  BY DEF Tick
<1>2. ClientTypeOK' /\ UNCHANGED <<status, goals>> /\ timer' = IF timer = 0 THEN 0 ELSE timer - 1
  BY <1>1, ElapseTyped DEF Elapse, TypeOK
<1>3. CASE base = Nothing
  <2>1. base' = Nothing
    BY <1>3 DEF Tick
  <2>2. SessionTypeOK' /\ PlaceInv' /\ GoalsInv' /\ ReadyInv'
    BY <1>1, <1>2, <2>1 DEF TypeOK, SessionTypeOK, PlaceInv, GoalsInv, ReadyInv, Current, Ready
  <2>3. BaseInv'
    BY <1>1, <1>3, <2>1 DEF BaseInv
  <2>4. SuccessMeansDone' /\ NothingSentIsTrue' /\ PreviewSendsNothing'
    BY <1>1, <1>2 DEF SuccessMeansDone, NothingSentIsTrue, PreviewSendsNothing, Current
  <2> QED BY <1>2, <2>2, <2>3, <2>4 DEF TypeOK
<1>4. CASE base # Nothing
  <2>1. base \in Nat /\ plan \in Commands /\ timer \in Nat
    BY <1>4, ClientTypes DEF TypeOK, SessionTypeOK, PlaceInv
  <2> DEFINE oldest == OldestUsed(TopicOf(plan))
  <2>2. oldest \in Nat
    BY <2>1, PlanFields
  <2>3. base' = Lower(base + 1, oldest + 1)
    BY <1>4 DEF Tick
  <2> HIDE DEF oldest
  <2>4. base' \in Nat /\ base' <= base + 1
    BY <2>1, <2>2, <2>3 DEF Lower
  <2>5. base' # Nothing
    BY <2>4, SessionAssumption
  <2>6. SessionTypeOK' /\ PlaceInv' /\ GoalsInv' /\ ReadyInv'
    BY <1>1, <1>2, <1>4, <2>4, <2>5 DEF TypeOK, SessionTypeOK, PlaceInv, GoalsInv, ReadyInv, Current, Ready
  <2>7. BaseInv'
    <3>1. SUFFICES ASSUME confirmed, StateDependent(plan)
                   PROVE  /\ pc \notin {"check", "send"}
                          /\ pc = "server" => base' + timer' <= oldest
      BY <1>1, <2>5 DEF BaseInv, oldest
    <3>2. status # Nothing
      BY <3>1 DEF ReadyInv
    <3>3. pc \notin {"check", "send"}
      BY <1>1, <3>2 DEF TimePasses, Spinning, StatusAwaited
    <3>4. ASSUME pc = "server" PROVE base' + timer' <= oldest
      <4>1. timer > 0
        BY <1>1, <3>4 DEF TimePasses, Spinning
      <4>2. base + timer <= oldest
        BY <3>1, <3>4 DEF BaseInv, oldest
      <4>3. timer' = timer - 1 /\ base' \in Nat /\ base' <= base + 1
        BY <1>2, <2>4, <4>1
      <4> QED BY <2>1, <2>2, <4>2, <4>3, OlderAndLess
    <3> QED BY <3>3, <3>4
  <2>8. SuccessMeansDone' /\ NothingSentIsTrue' /\ PreviewSendsNothing'
    BY <1>1, <1>2 DEF SuccessMeansDone, NothingSentIsTrue, PreviewSendsNothing, Current
  <2> QED BY <1>2, <2>6, <2>7, <2>8 DEF TypeOK
<1> QED BY <1>3, <1>4

LEMMA StepHolds == IInv /\ [Next]_vars => IInv'
<1> SUFFICES ASSUME IInv, [Next]_vars PROVE IInv'
  OBVIOUS
<1>1. CASE Next
  BY <1>1, PromptStep, QuitStep, ReadStep, NoPlanStep, PlanStep, ObserveStep, CheckStep, ServerStep,
     DeclineStep, ConfirmStep, SendStep, AnswerStep, ShowStep, SpinStep, EnvironmentStep, TickStep
  DEF Next, Proceeds
<1>2. CASE UNCHANGED vars
  <2> USE <1>2 DEF vars, clientVars, queueVars, storedVars, sessionVars
  <2>1. ClientTypeOK' /\ SessionTypeOK'
    BY DEF IInv, TypeOK, ClientTypeOK, SessionTypeOK
  <2>2. PlaceInv' /\ GoalsInv' /\ ReadyInv' /\ BaseInv'
    BY DEF IInv, PlaceInv, GoalsInv, ReadyInv, BaseInv, Current, Ready
  <2>3. SuccessMeansDone' /\ NothingSentIsTrue' /\ PreviewSendsNothing'
    BY DEF IInv, SuccessMeansDone, NothingSentIsTrue, PreviewSendsNothing, Current
  <2> QED BY <2>1, <2>2, <2>3 DEF IInv, TypeOK
<1> QED BY <1>1, <1>2

LEMMA Invariant == Spec => []IInv
  BY InitHolds, StepHolds, PTL DEF Spec

\* Whatever arrives in whatever order, the client's queues keep their depth and
\* the program's variables their types (__init__ and the callbacks of prompt_control.py).
THEOREM TypeCorrect == Spec => []TypeOK
  BY Invariant, PTL DEF IInv

\* A prompt is reported as a success only for the goal it sent itself, which the
\* driver finished (execute and its relatives in prompt_control.py).
THEOREM SuccessIsDone == Spec => []SuccessMeansDone
  BY Invariant, PTL DEF IInv

\* Every answer that says or means that nothing was sent is true, also of a goal
\* whose acceptance was too late (PromptControlError and PromptExecutionError).
THEOREM NothingSent == Spec => []NothingSentIsTrue
  BY Invariant, PTL DEF IInv

\* Without --execute no sequence of prompts sends a goal.
THEOREM PreviewIsSafe == Spec => []PreviewSendsNothing
  BY Invariant, PTL DEF IInv

-----------------------------------------------------------------------------
(***************************************************************************)
(* What every step does to the goals.                                      *)
(***************************************************************************)
\* Only Send adds a goal.
LEMMA OnlySendSends ==
  ASSUME IInv, [Next]_vars, ~Send
  PROVE  Len(goals') = Len(goals)
<1>1. CASE Environment
  BY <1>1, DriverTyped DEF Environment, IInv, TypeOK, Advances
<1>2. CASE Spin
  <2>1. PICK marked \in BOOLEAN : Callbacks(marked)
    <3>1. (pc \in {"accept", "result", "show"}) \in BOOLEAN
      OBVIOUS
    <3> QED BY <1>2, <3>1 DEF Spin
  <2> QED BY <2>1, CallbacksTyped DEF IInv, TypeOK
<1>3. CASE Tick
  BY <1>3 DEF Tick, Elapse
<1>4. CASE Prompt \/ Quit \/ Interrupt \/ Decline \/ Confirm
  BY <1>4 DEF Prompt, Quit, Interrupt, Decline, Confirm, Goes, Stays, Ends, Returns
<1>5. CASE Proceeds
  BY <1>5 DEF Proceeds, ReadCartesian, ReadJoints, NoPlan, DryRun, Plan, Observe, Check, ServerFound,
              ServerMissing, Answer, Result, Show, Goes, Stays, Ends, Returns
<1>6. CASE UNCHANGED vars
  BY <1>6 DEF vars, clientVars
<1> QED BY <1>1, <1>2, <1>3, <1>4, <1>5, <1>6 DEF Next

LEMMA SendIsGuarded ==
  ASSUME IInv, [Next]_vars, Len(goals') > Len(goals)
  PROVE  pc = "send" /\ confirmed
<1>1. Len(goals) \in Nat
  BY ClientTypes, LenProperties DEF IInv, TypeOK
<1>2. Send
  BY <1>1, OnlySendSends
<1> QED BY <1>2 DEF Send, IInv, PlaceInv

\* The state that completes a partial target, or begins a trajectory, is never
\* older than the maximum age and the wait for the server (wait_for_*_state).
THEOREM RecentStateUsed == Spec => UsedStateIsRecent
<1>1. IInv /\ [Next]_vars =>
        [Len(goals') > Len(goals) /\ StateDependent(plan)
           => base # Nothing /\ base <= OldestUsed(TopicOf(plan))]_vars
  <2>1. ASSUME IInv, [Next]_vars, Len(goals') > Len(goals), StateDependent(plan)
        PROVE  base # Nothing /\ base <= OldestUsed(TopicOf(plan))
    BY <2>1, SendIsGuarded DEF IInv, BaseInv
  <2> QED BY <2>1
<1> QED BY <1>1, Invariant, PTL DEF Spec, UsedStateIsRecent

\* A target, a joint target and a program are sent only if the status kept at
\* that moment allows them (check_*_ready).
THEOREM LastStatusObeyed == Spec => SentUnderTheLastStatus
<1>1. IInv /\ [Next]_vars =>
        [Len(goals') > Len(goals) /\ plan.kind # "jog" => Ready(plan)]_vars
  <2>1. ASSUME IInv, [Next]_vars, Len(goals') > Len(goals), plan.kind # "jog" PROVE Ready(plan)
    BY <2>1, SendIsGuarded DEF IInv, ReadyInv
  <2> QED BY <2>1
<1> QED BY <1>1, Invariant, PTL DEF Spec, SentUnderTheLastStatus

-----------------------------------------------------------------------------
(***************************************************************************)
(* A session implements ConfirmedCommands.                                 *)
(***************************************************************************)
Issued == [i \in DOMAIN goals |-> goals[i].command]
Done == {i \in DOMAIN goals : goals[i].phase = "succeeded"}
Offered == IF plan = Nothing THEN <<>> ELSE <<plan>>
Stage == IF pc \in Sent THEN 1 ELSE 0

LEMMA OfferedLength ==
  ASSUME TypeOK
  PROVE  /\ plan # Nothing => Len(Offered) = 1 /\ Offered # <<>> /\ Offered[1] = plan
         /\ plan = Nothing => Offered = <<>>
<1>1. Len(<<plan>>) = 1 /\ <<plan>>[1] = plan /\ <<plan>> # <<>>
  OBVIOUS
<1> QED BY <1>1 DEF Offered

\* Nothing that ConfirmedCommands speaks of changes.
LEMMA Stutters ==
  ASSUME UNCHANGED <<plan, confirmed, goals>>, pc' \in Sent <=> pc \in Sent,
         outcome' = "success" <=> outcome = "success"
  PROVE  [Confirmed!Next]_(Confirmed!vars)
  BY DEF Confirmed!vars, Sent

\* The end of a prompt is a report or a withdrawal, and outside a request it only
\* forgets what was reported.
LEMMA EndsMapped ==
  ASSUME IInv, NEW to \in Resting, NEW what \in Outcomes, Ends(to, what),
         what = "success" => pc \in Sent /\ Current.phase = "succeeded"
  PROVE  [Confirmed!Next]_(Confirmed!vars)
<1>1. plan' = Nothing /\ confirmed' = FALSE /\ pc' \notin Sent /\ outcome' = what /\ goals' = goals
  BY DEF Ends, Turns, Resting, Sent
<1>2. CASE plan = Nothing
  <2>1. pc \notin Sent /\ ~confirmed
    BY <1>2 DEF IInv, PlaceInv, Planned, Sent
  <2>2. confirmed = FALSE
    BY <2>1 DEF IInv, TypeOK, SessionTypeOK
  <2>3. Confirmed!Ask
    BY <1>1, <1>2, <2>1, <2>2 DEF Confirmed!Ask, Sent
  <2> QED BY <2>3 DEF Confirmed!Next
<1>3. CASE plan # Nothing /\ what # "success"
  <2>1. <<plan>> # <<>>
    OBVIOUS
  <2>2. Confirmed!Withdraw
    BY <1>1, <1>3, <2>1 DEF Confirmed!Withdraw, Confirmed!Close, Sent
  <2> QED BY <2>2 DEF Confirmed!Next
<1>4. CASE plan # Nothing /\ what = "success"
  <2>1. pc \in Sent /\ Len(goals) = before + 1 /\ Current.phase = "succeeded"
    BY <1>4 DEF IInv, GoalsInv
  <2>2. goals \in Seq(Goals) /\ before \in Nat
    BY ClientTypes DEF IInv, TypeOK, SessionTypeOK
  <2>3. Len(Issued) = Len(goals) /\ Len(goals) \in DOMAIN goals
    BY <2>1, <2>2, IssuedSeq DEF Issued
  <2>4. Len(Issued) \in Done
    BY <2>1, <2>3 DEF Done, Current
  <2>5. Len(<<plan>>) = 1 /\ <<plan>> # <<>>
    OBVIOUS
  <2>6. Confirmed!Report
    BY <1>1, <1>4, <2>1, <2>4, <2>5
    DEF Confirmed!Report, Confirmed!Close, Confirmed!LastSucceeded, Issued, Done, Sent
  <2> QED BY <2>6 DEF Confirmed!Next
<1> QED BY <1>2, <1>3, <1>4

LEMMA ReturnsMapped ==
  ASSUME IInv, NEW what \in Outcomes, Returns(what),
         what = "success" => pc \in Sent /\ Current.phase = "succeeded"
  PROVE  [Confirmed!Next]_(Confirmed!vars)
<1>1. (IF mode = "command" THEN "ended" ELSE "idle") \in Resting
  BY DEF Resting
<1> QED BY <1>1, EndsMapped DEF Returns

LEMMA PlanMapped ==
  ASSUME IInv, NEW command \in Commands, Plan(command)
  PROVE  [Confirmed!Next]_(Confirmed!vars)
<1>1. pc = "model" /\ pc' \in {"check", "observe"} /\ plan' = command
      /\ UNCHANGED <<goals, confirmed, outcome>>
  BY DEF Plan, Goes, Turns, Stays
<1>2. plan = Nothing /\ outcome = "none"
  BY <1>1 DEF IInv, PlaceInv, Planned, Resting
<1>3. command # Nothing
  BY PlanFields
<1>4. <<command>> \in Confirmed!Offers
  <2>1. <<command>> \in [1..1 -> Commands]
    OBVIOUS
  <2> QED BY <2>1 DEF Confirmed!Offers
<1>5. Confirmed!Offer(<<command>>)
  BY <1>1, <1>2, <1>3 DEF Confirmed!Offer
<1> QED BY <1>4, <1>5 DEF Confirmed!Next

LEMMA ConfirmMapped ==
  ASSUME IInv, Confirm
  PROVE  [Confirmed!Next]_(Confirmed!vars)
<1>1. pc = "confirm" /\ pc' \notin Sent /\ confirmed' = TRUE
      /\ UNCHANGED <<goals, plan, outcome>>
  BY DEF Confirm, Goes, Stays, Turns, Sent
<1>2. plan # Nothing /\ ~confirmed
  BY <1>1 DEF IInv, PlaceInv, Planned
<1>3. <<plan>> # <<>>
  OBVIOUS
<1>4. Confirmed!Approve
  BY <1>1, <1>2, <1>3 DEF Confirmed!Approve, Sent
<1> QED BY <1>4 DEF Confirmed!Next

LEMMA SendMapped ==
  ASSUME IInv, Send
  PROVE  [Confirmed!Next]_(Confirmed!vars)
<1>1. pc = "send" /\ plan \in Commands /\ plan # Nothing /\ confirmed
  BY DEF Send, IInv, TypeOK, SessionTypeOK, PlaceInv, Planned, Sent
<1>2. pc' = "accept" /\ SendGoal(plan) /\ UNCHANGED <<plan, confirmed, outcome>>
  BY DEF Send
<1>3. /\ goals \in Seq(Goals) /\ goals' \in Seq(Goals) /\ Len(goals') = Len(goals) + 1
      /\ \A i \in 1..Len(goals) : goals'[i] = goals[i]
      /\ goals'[Len(goals) + 1] = [command |-> plan, phase |-> "requested"]
  BY <1>1, <1>2, SentLast, ClientTypes DEF IInv, TypeOK
<1>4. /\ Issued \in Seq(Commands) /\ Len(Issued) = Len(goals) /\ Len(goals) \in Nat
      /\ Issued' \in Seq(Commands) /\ Len(Issued') = Len(goals')
      /\ DOMAIN goals = 1..Len(goals) /\ DOMAIN goals' = 1..Len(goals')
  BY <1>3, IssuedSeq DEF Issued
<1>5. /\ Append(Issued, plan) \in Seq(Commands) /\ Len(Append(Issued, plan)) = Len(goals')
      /\ \A i \in 1..Len(goals) : Append(Issued, plan)[i] = Issued[i]
      /\ Append(Issued, plan)[Len(goals) + 1] = plan
  BY <1>1, <1>3, <1>4, AppendSeq
<1>6. Issued' = Append(Issued, plan)
  <2>1. ASSUME NEW i \in 1..Len(Issued') PROVE Issued'[i] = Append(Issued, plan)[i]
    <3>1. i \in 1..Len(goals) \/ i = Len(goals) + 1
      BY <1>3, <1>4, <2>1
    <3>2. i \in DOMAIN goals' /\ (i \in 1..Len(goals) => i \in DOMAIN goals)
      BY <1>4
    <3> QED BY <1>3, <1>5, <3>1, <3>2 DEF Issued
  <2> QED BY <1>4, <1>5, <2>1, SeqEqual
<1>7. Done' = Done
  BY <1>3, <1>4 DEF Done
<1>8. Len(<<plan>>) = 1 /\ <<plan>>[0 + 1] = plan
  OBVIOUS
<1>9. Confirmed!Issue
  <2>1. Stage = 0 /\ Stage' = 1
    BY <1>1, <1>2 DEF Sent, Stage
  <2>2. Offered = <<plan>> /\ Offered' = Offered
    BY <1>1, <1>2 DEF Offered
  <2>3. Stage < Len(Offered) /\ Stage' = Stage + 1 /\ Offered[Stage + 1] = plan
    BY <1>8, <2>1, <2>2
  <2>4. Stage = 0 \/ Len(Issued) \in Done
    BY <2>1
  <2> QED BY <1>1, <1>2, <1>6, <1>7, <2>2, <2>3, <2>4
          DEF Confirmed!Issue, Confirmed!LastSucceeded, Offered, Issued, Done, Stage, Sent
<1> QED BY <1>9 DEF Confirmed!Next

\* The driver's end of a goal is the only other step ConfirmedCommands sees.
LEMMA FinishMapped ==
  ASSUME IInv, NEW i \in DOMAIN goals, NEW phase \in Phases, goals[i].phase # "succeeded",
         goals' = [goals EXCEPT ![i].phase = phase],
         UNCHANGED <<pc, plan, confirmed, outcome>>
  PROVE  [Confirmed!Next]_(Confirmed!vars)
<1>1. /\ Advances /\ DOMAIN goals' = DOMAIN goals /\ goals'[i].phase = phase
      /\ \A j \in DOMAIN goals \ {i} : goals'[j] = goals[j]
  BY PhaseChange, ClientTypes DEF IInv, TypeOK
<1>2. goals \in Seq(Goals)
  BY ClientTypes DEF IInv, TypeOK
<1>3. DOMAIN goals = 1..Len(goals)
  BY <1>2, IssuedSeq
<1>4. Issued' = Issued
  <2>1. \A j \in DOMAIN goals : goals'[j].command = goals[j].command
    BY <1>1, <1>3 DEF Advances
  <2> QED BY <1>1, <2>1 DEF Issued
<1>5. CASE phase = "succeeded"
  <2>1. Done' = Done \cup {i} /\ i \notin Done
    BY <1>1, <1>5 DEF Done
  <2>2. DOMAIN Issued = DOMAIN goals
    BY DEF Issued
  <2>3. Confirmed!Succeed(i)
    BY <1>4, <2>1, <2>2 DEF Confirmed!Succeed, Issued, Done
  <2>4. i \in DOMAIN [j \in DOMAIN goals |-> goals[j].command]
    OBVIOUS
  <2> QED BY <2>3, <2>4 DEF Confirmed!Next
<1>6. CASE phase # "succeeded"
  <2>1. Done' = Done
    BY <1>1, <1>6 DEF Done
  <2> QED BY <1>4, <2>1 DEF Confirmed!vars, Issued, Done
<1> QED BY <1>5, <1>6

LEMMA EnvironmentMapped ==
  ASSUME IInv, Environment
  PROVE  [Confirmed!Next]_(Confirmed!vars)
<1>1. UNCHANGED <<pc, plan, confirmed, outcome>>
  BY DEF Environment, sessionVars
<1>2. DriverActs
  BY DEF Environment
<1>3. CASE (\E t \in Topics : Publishes(t)) \/ GatesChange
  BY <1>1, <1>3, Stutters DEF Publishes, GatesChange
<1>4. ASSUME NEW i \in DOMAIN goals,
             DriverAccepts(i) \/ DriverRejects(i) \/ DriverFinishes(i) \/ GoalLost(i)
      PROVE  [Confirmed!Next]_(Confirmed!vars)
  <2>1. PICK phase \in Phases : goals' = [goals EXCEPT ![i].phase = phase]
    BY <1>4 DEF DriverAccepts, DriverRejects, DriverFinishes, GoalLost, Phases
  <2>2. goals[i].phase # "succeeded"
    BY <1>4 DEF DriverAccepts, DriverRejects, DriverFinishes, GoalLost
  <2> QED BY <1>1, <2>1, <2>2, FinishMapped
<1> QED BY <1>2, <1>3, <1>4 DEF DriverActs

\* A step to another place with the request as it is.
LEMMA GoesMapped ==
  ASSUME NEW to, NEW wait, Goes(to, wait), Keeps, to \in Sent <=> pc \in Sent
  PROVE  [Confirmed!Next]_(Confirmed!vars)
<1>1. pc' = to /\ UNCHANGED <<plan, confirmed, goals, outcome>>
  BY DEF Goes, Turns, Stays, Keeps
<1> QED BY <1>1, Stutters

LEMMA StepMapped ==
  ASSUME IInv, [Next]_vars
  PROVE  [Confirmed!Next]_(Confirmed!vars)
<1>1. CASE Prompt
  <2>1. pc = "idle" /\ pc' \notin Sent /\ outcome' = "none" /\ UNCHANGED <<goals, plan, confirmed>>
    BY <1>1 DEF Prompt, Goes, Turns, Stays, Sent
  <2>2. plan = Nothing
    BY <2>1 DEF IInv, PlaceInv, Planned
  <2>3. Confirmed!Ask
    BY <2>1, <2>2 DEF Confirmed!Ask, Sent
  <2> QED BY <2>3 DEF Confirmed!Next
<1>2. CASE Quit
  BY <1>2, Stutters DEF Quit, Ends, Turns, Sent, IInv, PlaceInv, Planned, TypeOK, SessionTypeOK
<1>3. CASE Interrupt
  BY <1>3, EndsMapped DEF Interrupt, Resting, Outcomes
<1>4. CASE ReadCartesian \/ ReadJoints
  <2>1. CASE Ends("ended", "raised")
    BY <2>1, EndsMapped DEF Resting, Outcomes
  <2>2. CASE ~Ends("ended", "raised")
    BY <1>4, <2>2, GoesMapped DEF ReadCartesian, ReadJoints, Sent
  <2> QED BY <2>1, <2>2
<1>5. CASE NoPlan \/ DryRun \/ ServerMissing \/ Decline
  BY <1>5, ReturnsMapped DEF NoPlan, DryRun, ServerMissing, Decline, Outcomes, Silent
<1>6. ASSUME NEW command \in Commands, Plan(command) PROVE [Confirmed!Next]_(Confirmed!vars)
  BY <1>6, PlanMapped
<1>7. CASE Observe
  <2>1. CASE Returns("blocked")
    BY <2>1, ReturnsMapped DEF Outcomes, Silent
  <2>2. CASE ~Returns("blocked")
    <3>1. pc = "observe" /\ pc' \in {"confirm", "check"} /\ UNCHANGED <<plan, confirmed, goals, outcome>>
      BY <1>7, <2>2 DEF Observe, Goes, Turns, Stays
    <3> QED BY <3>1, Stutters DEF Sent
  <2> QED BY <2>1, <2>2
<1>8. CASE Check
  <2>1. CASE Returns("blocked")
    BY <2>1, ReturnsMapped DEF Outcomes, Silent
  <2>2. CASE ~Returns("blocked")
    BY <1>8, <2>2, GoesMapped DEF Check, Sent
  <2> QED BY <2>1, <2>2
<1>9. CASE ServerFound
  BY <1>9, GoesMapped DEF ServerFound, Sent
<1>10. CASE Send
  BY <1>10, SendMapped
<1>11. CASE Answer \/ Result
  <2>1. CASE Returns("failed")
    BY <2>1, ReturnsMapped DEF Outcomes
  <2>2. CASE Returns("success") /\ Success
    BY <1>11, <2>2, ReturnsMapped DEF Outcomes, Success, Answer, Result, Sent
  <2>3. CASE Goes("result", "result") /\ Keeps
    BY <1>11, <2>3, GoesMapped DEF Answer, Result, Sent
  <2>4. CASE Goes("show", "state") /\ Keeps
    BY <1>11, <2>4, GoesMapped DEF Answer, Result, Sent
  <2> QED BY <1>11, <2>1, <2>2, <2>3, <2>4 DEF Answer, Result
<1>12. CASE Show
  <2>1. pc = "show" /\ Current.phase = "succeeded"
    BY <1>12 DEF Show, IInv, GoalsInv
  <2>2. CASE Ends("ended", "raised")
    BY <2>2, EndsMapped DEF Resting, Outcomes
  <2>3. CASE Returns("success")
    BY <2>1, <2>3, ReturnsMapped DEF Outcomes, Sent
  <2> QED BY <1>12, <2>2, <2>3 DEF Show
<1>13. CASE Spin
  <2>1. PICK marked \in BOOLEAN : Callbacks(marked)
    <3>1. (pc \in {"accept", "result", "show"}) \in BOOLEAN
      OBVIOUS
    <3> QED BY <1>13, <3>1 DEF Spin
  <2>2. UNCHANGED goals
    BY <2>1, CallbacksTyped DEF IInv, TypeOK
  <2> QED BY <1>13, <2>2, Stutters DEF Spin, sessionVars
<1>14. CASE Tick
  BY <1>14, Stutters DEF Tick, Elapse
<1>15. CASE Environment
  BY <1>15, EnvironmentMapped
<1>16. CASE Confirm
  BY <1>16, ConfirmMapped
<1>17. CASE UNCHANGED vars
  BY <1>17, Stutters DEF vars, clientVars, sessionVars
<1> QED BY <1>1, <1>2, <1>3, <1>4, <1>5, <1>6, <1>7, <1>8, <1>9, <1>10, <1>11, <1>12, <1>13, <1>14,
           <1>15, <1>16, <1>17 DEF Next, Proceeds

\* Whatever is lost, late or interleaved, a session sends its command only after
\* the confirmation of a request that was shown, once, and reports it as done only
\* when it has succeeded (_execute_decision and main of ollama_prompt.py).
THEOREM SessionImplementsConfirmed == Spec => ConfirmedSpec
<1>1. Init => Confirmed!Init
  BY DEF Init, ClientInit, Confirmed!Init
<1>2. IInv /\ [Next]_vars => [Confirmed!Next]_(Confirmed!vars)
  BY StepMapped
<1> QED BY <1>1, <1>2, Invariant, PTL DEF Spec, ConfirmedSpec, Confirmed!Spec
=============================================================================
