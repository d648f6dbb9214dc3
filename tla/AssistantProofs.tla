---------------------------- MODULE AssistantProofs ----------------------------
(***************************************************************************)
(* Theorems about AssistantWorkflow, for every set of commands and         *)
(* statuses, every shift, age and timeout, and any number of requests, and *)
(* about ExamplePrograms, for every registry, whatever other people start  *)
(* and however often Ctrl-C is pressed.                                    *)
(***************************************************************************)
EXTENDS AssistantWorkflow, ExamplePrograms, ClientProofs

Fields == {"content", "age", "since"}

Out == {"accept", "result", "verify"}
Staged == {"stageCheck", "stageServer", "send"} \cup Out
After == {"refreshVision", "refreshPose"} \cup Staged
Offering == {"offer", "check", "server", "confirm"}
Under == {"vision", "limit", "pose"} \cup Offering \cup After

-----------------------------------------------------------------------------
(***************************************************************************)
(* The invariant of a workflow.                                            *)
(***************************************************************************)
\* The request, its confirmation and its stage go with the place.
PlaceInv ==
  /\ mode \in {"execute", "gated", "preview"}
  /\ request \in Workflows \cup {Nothing} /\ confirmed \in BOOLEAN
  /\ request # Nothing <=> pc \in Under
  /\ confirmed <=> pc \in After
  /\ pc \in Under => outcome = "none" /\ stage \in 1..Len(Stages[request])
  /\ pc \in Under \ Staged => stage = 1
  /\ pc \in {"vision", "pose", "refreshVision", "refreshPose"} => request \in Visual
  /\ pc = "limit" => request \in Visual \cup {"drop"}

\* One goal for a stage, and every one before the last has succeeded.
GoalsInv ==
  /\ goals \in Seq(Goals) /\ before \in Nat
  /\ pc \in Out => Len(goals) = before + stage
  /\ pc \in Under \ Out => Len(goals) + 1 = before + stage
  /\ pc = "verify" \/ (pc \in Staged \ Out /\ stage > 1) => Current.phase = "succeeded"

\* The object previewed, and where it was read again.
TargetInv ==
  request \in Visual =>
    /\ pc \in Offering \cup After => preview # Gone
    /\ pc \in {"refreshPose"} \cup Staged => target.since /\ target.content # Gone
    /\ pc \in Staged => Distance(preview, target.content) <= MaxShift

\* From the first check on there is a status, so that no later check spins and
\* the state that verified a stage is still the one stored when the next is sent.
StateInv ==
  /\ DOMAIN latest = Topics
  /\ \A t \in Topics : latest[t] = Nothing \/ DOMAIN latest[t] = Fields
  /\ pc \in {"server", "confirm"} \cup After => status # Nothing
  /\ pc \in Staged \ Out /\ stage > 1 =>
       latest["cartesian"].since /\ latest["cartesian"].content = Stages[request][stage - 1].name

IInv == PlaceInv /\ GoalsInv /\ TargetInv /\ StateInv /\ NothingSentIsTrue

LEMMA StageCount ==
  ASSUME NEW w \in Workflows
  PROVE  /\ Stages[w] \in Seq(Commands) /\ Len(Stages[w]) \in {1, 3} /\ w # Nothing
         /\ w # "pick" => Len(Stages[w]) = 1
         /\ Len(Stages[w]) \in Nat /\ Len(Stages[w]) # 0 /\ Len(Stages[w]) \in 1..3
         /\ w \in {"align", "pick", "drop", "home"}
<1>1. /\ Stages[w] \in Seq(Commands) /\ w # Nothing /\ w \in {"align", "pick", "drop", "home"}
      /\ Len(Stages[w]) = IF w = "pick" THEN 3 ELSE 1
  BY WorkflowAssumption
<1> DEFINE n == Len(Stages[w])
<1>2. n = IF w = "pick" THEN 3 ELSE 1
  BY <1>1
<1> HIDE DEF n
<1>3. n \in {1, 3} /\ (w # "pick" => n = 1) /\ n \in Nat /\ n # 0 /\ n \in 1..3
  BY <1>2
<1> QED BY <1>1, <1>3 DEF n

LEMMA InitHolds == Init => IInv
<1> SUFFICES ASSUME Init PROVE IInv
  OBVIOUS
<1>1. goals \in Seq(Goals)
  BY EmptySeq DEF Init, ClientInit
<1> QED BY <1>1 DEF Init, ClientInit, IInv, PlaceInv, GoalsInv, TargetInv, StateInv, NothingSentIsTrue,
                    Silent, Under, Offering, After, Staged, Out

\* The end of a request, with an outcome that is true.
LEMMA EndsStep ==
  ASSUME IInv, NEW to \in {"idle", "ended"}, NEW what, Ends(to, what),
         what \in Silent => Len(goals) = before
  PROVE  IInv'
<1> USE DEF IInv
<1>1. /\ pc' = to /\ outcome' = what /\ request' = Nothing /\ confirmed' = FALSE
      /\ UNCHANGED <<mode, goals, before, status>>
  BY DEF Ends, Turns
<1>2. PlaceInv' /\ GoalsInv' /\ NothingSentIsTrue'
  BY <1>1 DEF PlaceInv, GoalsInv, NothingSentIsTrue, Under, Offering, After, Staged, Out
<1>3. TargetInv'
  BY <1>1, WorkflowAssumption DEF TargetInv, Offering, After, Staged, Out
<1>4. StateInv'
  <2>1. latest' = [t \in Topics |-> Unmarked(latest[t])]
    BY DEF Ends, Marked
  <2>2. \A t \in Topics : latest'[t] = Nothing \/ DOMAIN latest'[t] = Fields
    BY <2>1 DEF StateInv, Unmarked
  <2> QED BY <1>1, <2>1, <2>2 DEF StateInv, After, Staged, Out
<1> QED BY <1>2, <1>3, <1>4

\* A step to another place with the request as it is.
LEMMA GoesStep ==
  ASSUME IInv, NEW to \in Under, pc \in Under, pc' = to,
         Stays \/ (Marked /\ UNCHANGED <<goals, status>>),
         UNCHANGED <<mode, request, confirmed, stage, outcome, before>>,
         to \in After <=> pc \in After,
         to \in Staged => pc \in Staged \/ stage = 1,
         to \in Out <=> pc \in Out,
         to \in Under \ Staged => stage = 1,
         to = "verify" => Current.phase = "succeeded",
         to \in {"vision", "pose", "refreshVision", "refreshPose"} => request \in Visual,
         to = "limit" => request \in Visual \cup {"drop"},
         to \in {"server", "confirm"} => status # Nothing,
         to \in Staged \ Out => pc \in Staged \ Out \/ stage = 1,
         to \in Staged \ Out => Stays,
         TargetInv'
  PROVE  IInv'
<1> USE DEF IInv
<1>1. UNCHANGED <<goals, status>>
  BY DEF Stays, storedVars
<1>2. PlaceInv'
  BY <1>1 DEF PlaceInv
<1>3. GoalsInv'
  BY <1>1 DEF GoalsInv, Current, PlaceInv
<1>4. NothingSentIsTrue'
  BY <1>1 DEF NothingSentIsTrue
<1>5. \A t \in Topics : latest'[t] = Nothing \/ DOMAIN latest'[t] = Fields
  BY DEF StateInv, Stays, storedVars, Marked, Unmarked
<1>6. DOMAIN latest' = Topics
  BY DEF StateInv, Stays, storedVars, Marked
<1>7. pc' \in {"server", "confirm"} \cup After => status' # Nothing
  BY <1>1 DEF StateInv
<1>8. pc' \in Staged \ Out /\ stage' > 1 =>
        latest'["cartesian"].since /\ latest'["cartesian"].content = Stages[request'][stage' - 1].name
  BY DEF StateInv, Stays, storedVars
<1> QED BY <1>2, <1>3, <1>4, <1>5, <1>6, <1>7, <1>8 DEF StateInv

-----------------------------------------------------------------------------
(***************************************************************************)
(* The driver and the client.                                              *)
(***************************************************************************)
LEMMA EnvironmentStep == IInv /\ Environment => IInv'
<1> SUFFICES ASSUME IInv, Environment PROVE IInv'
  OBVIOUS
<1> USE DEF IInv
<1>1. UNCHANGED workflowVars
  BY DEF Environment
<1>2. Advances /\ UNCHANGED <<status, latest>>
  BY DriverAdvances DEF Environment, GoalsInv
<1>3. Len(goals) \in Nat
  BY LenProperties DEF GoalsInv
<1>4. Len(goals) > 0 /\ Current.phase = "succeeded" => Current'.phase = "succeeded"
  BY <1>2, <1>3 DEF Advances, Current
<1>5. PlaceInv' /\ TargetInv' /\ StateInv'
  BY <1>1, <1>2 DEF PlaceInv, TargetInv, StateInv, workflowVars
<1>6. GoalsInv'
  <2>1. stage > 1 \/ pc = "verify" => (pc \in Under => Len(goals) > 0 \/ pc \notin Staged)
    <3>1. pc \in Under => stage \in Nat /\ stage >= 1
      BY StageCount DEF PlaceInv
    <3> QED BY <1>3, <3>1 DEF GoalsInv, Out, Staged, Under, After
  <2> QED BY <1>1, <1>2, <1>3, <1>4, <2>1
          DEF GoalsInv, Advances, workflowVars, Staged, Out, Under, After
<1>7. NothingSentIsTrue'
  BY <1>1, <1>2 DEF NothingSentIsTrue, Advances, workflowVars
<1> QED BY <1>5, <1>6, <1>7

LEMMA SpinStep == IInv /\ Spin => IInv'
<1> SUFFICES ASSUME IInv, Spin PROVE IInv'
  OBVIOUS
<1> USE DEF IInv
<1>1. Spinning /\ UNCHANGED workflowVars
  BY DEF Spin
<1>2. PICK marked \in BOOLEAN : Callbacks(marked)
  <2>1. (pc \in {"limit", "refreshVision", "refreshPose", "verify"}) \in BOOLEAN
    OBVIOUS
  <2> QED BY <2>1 DEF Spin
<1>3. UNCHANGED goals /\ (status' = status \/ status' # Nothing)
  BY <1>2 DEF Callbacks, StatusCallback, StateCallback
<1>4. pc \notin Staged \ Out
  BY <1>1 DEF Spinning, StatusAwaited, StateInv, Staged, Out, After
<1>5. DOMAIN latest' = Topics /\ \A t \in Topics : latest'[t] = Nothing \/ DOMAIN latest'[t] = Fields
  <2>1. CASE StatusCallback
    BY <2>1 DEF StatusCallback, StateInv
  <2>2. ASSUME NEW t \in Topics, StateCallback(t, marked)
        PROVE  DOMAIN latest' = Topics /\ \A u \in Topics : latest'[u] = Nothing \/ DOMAIN latest'[u] = Fields
    <3>1. latest' = [latest EXCEPT ![t] =
                       [content |-> Head(mail[t]), age |-> 0, since |-> marked]]
      BY <2>2 DEF StateCallback
    <3> QED BY <3>1 DEF StateInv, Fields
  <2> QED BY <1>2, <2>1, <2>2 DEF Callbacks
<1>6. StateInv'
  BY <1>1, <1>3, <1>4, <1>5 DEF StateInv, workflowVars
<1>7. PlaceInv' /\ TargetInv' /\ GoalsInv' /\ NothingSentIsTrue'
  BY <1>1, <1>3 DEF PlaceInv, TargetInv, GoalsInv, NothingSentIsTrue, Current, workflowVars
<1> QED BY <1>6, <1>7

LEMMA TickStep == IInv /\ Tick => IInv'
<1> SUFFICES ASSUME IInv, Tick PROVE IInv'
  OBVIOUS
<1> USE DEF IInv
<1>1. UNCHANGED <<workflowVars, status, goals>>
      /\ latest' = [t \in Topics |->
                      IF latest[t] = Nothing THEN Nothing
                      ELSE [latest[t] EXCEPT !.age = Lower(latest[t].age + 1, MaxAge[t] + 1)]]
  BY DEF Tick, Elapse
<1>2. \A t \in Topics :
        /\ latest'[t] = Nothing \/ DOMAIN latest'[t] = Fields
        /\ latest'[t].since = latest[t].since /\ latest'[t].content = latest[t].content
  BY <1>1 DEF StateInv, Fields
<1>3. "cartesian" \in Topics
  BY WorkflowAssumption
<1>4. StateInv'
  BY <1>1, <1>2, <1>3 DEF StateInv, workflowVars
<1>5. PlaceInv' /\ TargetInv' /\ GoalsInv' /\ NothingSentIsTrue'
  BY <1>1 DEF PlaceInv, TargetInv, GoalsInv, NothingSentIsTrue, Current, workflowVars
<1> QED BY <1>4, <1>5

-----------------------------------------------------------------------------
(***************************************************************************)
(* The steps of a workflow.                                                *)
(***************************************************************************)
LEMMA ReturnsStep ==
  ASSUME IInv, NEW what, Returns(what), what \in Silent => Len(goals) = before
  PROVE  IInv'
  BY EndsStep DEF Returns

\* Before the first send nothing was sent.
LEMMA NothingYet ==
  ASSUME IInv, pc \in Under \ Out, stage = 1
  PROVE  Len(goals) = before
<1>1. Len(goals) \in Nat /\ before \in Nat
  BY LenProperties DEF IInv, GoalsInv
<1> QED BY <1>1 DEF IInv, GoalsInv

LEMMA AskStep ==
  ASSUME IInv, NEW workflow \in Workflows, Ask(workflow)
  PROVE  IInv'
<1> USE DEF IInv
<1>1. /\ pc = "idle" /\ request' = workflow /\ outcome' = "none" /\ before' = Len(goals) /\ stage' = 1
      /\ UNCHANGED <<mode, confirmed, goals, status, seen, preview, target>>
  BY DEF Ask, Goes, GoesMarked, Stays, storedVars
<1>2. pc' \in {"vision", "limit", "offer"} /\ (pc' = "vision" <=> workflow \in Visual)
      /\ (pc' = "limit" => workflow = "drop")
  BY DEF Ask, Goes, GoesMarked, Turns, Visual
<1>3. workflow # Nothing /\ Len(Stages[workflow]) >= 1 /\ Len(Stages[workflow]) \in Nat
  BY StageCount
<1>4. PlaceInv'
  BY <1>1, <1>2, <1>3 DEF PlaceInv, Under, Offering, After, Staged, Out
<1>5. GoalsInv' /\ NothingSentIsTrue'
  <2>1. Len(goals) \in Nat
    BY LenProperties DEF GoalsInv
  <2> QED BY <1>1, <1>2, <2>1 DEF GoalsInv, NothingSentIsTrue, Under, Offering, After, Staged, Out, Silent
<1>6. TargetInv'
  BY <1>1, <1>2 DEF TargetInv, Offering, After, Staged, Out, Visual
<1>7. StateInv'
  <2>1. DOMAIN latest' = Topics /\ \A t \in Topics : latest'[t] = Nothing \/ DOMAIN latest'[t] = Fields
    BY DEF Ask, Goes, GoesMarked, Stays, storedVars, Marked, Unmarked, StateInv
  <2> QED BY <1>1, <1>2, <2>1 DEF StateInv, After, Staged, Out
<1> QED BY <1>4, <1>5, <1>6, <1>7

LEMMA QuitStep == IInv /\ (Quit \/ Interrupt \/ Decline) => IInv'
<1> SUFFICES ASSUME IInv, Quit \/ Interrupt \/ Decline PROVE IInv'
  OBVIOUS
<1>1. CASE Quit
  BY <1>1, EndsStep DEF Quit, IInv, NothingSentIsTrue
<1>2. CASE Interrupt
  BY <1>2, EndsStep DEF Interrupt, Silent
<1>3. CASE Decline
  <2>1. pc \in Under \ Out /\ stage = 1
    BY <1>3 DEF Decline, IInv, PlaceInv, Under, Offering, After, Staged, Out
  <2> QED BY <1>3, <2>1, ReturnsStep, NothingYet DEF Decline
<1> QED BY <1>1, <1>2, <1>3

LEMMA PreviewStep == IInv /\ (SelectObject \/ MaximumSpeed \/ PreviewTarget) => IInv'
<1> SUFFICES ASSUME IInv, SelectObject \/ MaximumSpeed \/ PreviewTarget PROVE IInv'
  OBVIOUS
<1>0. pc \in {"vision", "limit", "pose"} /\ stage = 1 /\ pc \in Under /\ pc \notin After
      /\ pc \notin Offering
  BY DEF SelectObject, MaximumSpeed, PreviewTarget, IInv, PlaceInv, Under, Offering, After, Staged, Out
<1>1. Len(goals) = before
  BY <1>0, NothingYet DEF After, Staged
<1>2. CASE Returns("blocked")
  BY <1>1, <1>2, ReturnsStep
<1>3. CASE LimitFell
  BY <1>3, EndsStep DEF LimitFell, Silent
<1>4. CASE SelectObject /\ ~Returns("blocked")
  <2>1. request \in Visual
    BY <1>4 DEF SelectObject, IInv, PlaceInv
  <2>2. PICK to \in {"limit", "pose"} :
          /\ pc' = to
          /\ Stays \/ (Marked /\ UNCHANGED <<goals, status>>)
          /\ UNCHANGED <<mode, request, confirmed, stage, outcome, before, target, preview>>
    BY <1>4 DEF SelectObject, Goes, GoesMarked, Turns
  <2>3. TargetInv'
    BY <2>2 DEF TargetInv, Offering, After, Staged, Out
  <2> QED BY <1>0, <2>1, <2>2, <2>3, GoesStep DEF Under, Offering, After, Staged, Out
<1>5. CASE MaximumSpeed /\ ~Returns("blocked")
  <2>1. PICK to \in {"offer", "pose"} :
          /\ pc' = to /\ Stays
          /\ to = "offer" <=> request = "drop"
          /\ UNCHANGED <<mode, request, confirmed, stage, outcome, before, target, preview>>
    BY <1>5 DEF MaximumSpeed, Goes, Turns, Keeps
  <2>2. TargetInv'
    BY <2>1 DEF TargetInv, Offering, After, Staged, Out, Visual
  <2>3. to = "pose" => request \in Visual
    BY <1>5, <2>1 DEF MaximumSpeed, IInv, PlaceInv, Visual
  <2> QED BY <1>0, <2>1, <2>2, <2>3, GoesStep DEF Under, Offering, After, Staged, Out
<1>6. CASE PreviewTarget /\ ~Returns("blocked") /\ ~LimitFell
  <2>1. /\ pc' = "offer" /\ Stays /\ preview' # Gone
        /\ UNCHANGED <<mode, request, confirmed, stage, outcome, before, target>>
    BY <1>6 DEF PreviewTarget, Goes, Turns
  <2>2. TargetInv'
    BY <2>1 DEF TargetInv, Offering, After, Staged, Out
  <2> QED BY <1>0, <2>1, <2>2, GoesStep DEF Under, Offering, After, Staged, Out
<1> QED BY <1>2, <1>3, <1>4, <1>5, <1>6

\* A step on with the request, the object and its target as they are.
LEMMA OnStep ==
  ASSUME IInv, NEW to \in Under \ {"refreshPose", "vision", "pose", "refreshVision", "stageCheck"},
         NEW wait, Goes(to, wait), Keeps,
         \/ pc \in Offering /\ to \in Offering
         \/ pc \in Staged /\ to \in Staged /\ (pc \in Out <=> to \in Out),
         to = "verify" => Current.phase = "succeeded",
         to \in {"server", "confirm"} => status # Nothing
  PROVE  IInv'
<1>1. pc' = to /\ Stays /\ UNCHANGED <<mode, request, confirmed, stage, outcome, before, target, preview>>
  BY DEF Goes, Turns, Keeps
<1>2. TargetInv'
  BY <1>1 DEF IInv, TargetInv, Offering, After, Staged, Out
<1>3. pc \in Under /\ (pc \in Offering => stage = 1)
  BY DEF IInv, PlaceInv, Under, Offering, After, Staged, Out
<1> QED BY <1>1, <1>2, <1>3, GoesStep DEF Under, Offering, After, Staged, Out

LEMMA OfferStep == IInv /\ (Offer \/ PreviewOnly \/ Check) => IInv'
<1> SUFFICES ASSUME IInv, Offer \/ PreviewOnly \/ Check PROVE IInv'
  OBVIOUS
<1>1. pc \in Offering /\ Len(goals) = before
  <2>1. pc \in {"offer", "check"}
    BY DEF Offer, PreviewOnly, Check
  <2>2. stage = 1
    BY <2>1 DEF IInv, PlaceInv, Under, Offering, Staged, Out
  <2> QED BY <2>1, <2>2, NothingYet DEF Under, Offering, After, Staged, Out
<1>2. ASSUME NEW what, Returns(what) PROVE IInv'
  BY <1>1, <1>2, ReturnsStep
<1>3. ASSUME ~ \E what \in {"blocked", "dry run"} : Returns(what) PROVE IInv'
  <2>1. PICK to \in {"check", "server"}, wait \in {"status", "server"} :
          Goes(to, wait) /\ Keeps /\ (to = "server" => status # Nothing)
    <3>1. CASE Check
      <4>1. (\A c \in Commanded : Ready(c)) /\ Goes("server", "server") /\ Keeps
        BY <1>3, <3>1 DEF Check
      <4>2. Commanded # {}
        <5>1. request \in Workflows
          BY <1>1 DEF IInv, PlaceInv, Under, Offering
        <5>2. Stages[request] \in Seq(Commands) /\ Len(Stages[request]) \in {1, 3}
          BY <5>1, StageCount
        <5>3. 1 \in DOMAIN Stages[request]
          BY <5>2, LenProperties
        <5> QED BY <5>3 DEF Commanded
      <4> QED BY <4>1, <4>2 DEF Ready
    <3>2. CASE Offer
      BY <1>3, <3>2 DEF Offer, IInv, PlaceInv
    <3> QED BY <1>3, <3>1, <3>2 DEF PreviewOnly
  <2> QED BY <1>1, <2>1, OnStep DEF Under, Offering, After, Staged, Out
<1> QED BY <1>2, <1>3

LEMMA ServerStep == IInv /\ (ServerFound \/ ServerMissing) => IInv'
<1> SUFFICES ASSUME IInv, ServerFound \/ ServerMissing PROVE IInv'
  OBVIOUS
<1>1. pc \in {"server", "stageServer"} /\ pc \in Under \ Out
  BY DEF ServerFound, ServerMissing, Under, Offering, After, Staged, Out
<1>2. CASE ServerFound
  <2>1. PICK to \in {"confirm", "send"} :
          Goes(to, "none") /\ Keeps /\ (to = "confirm" <=> pc = "server")
    BY <1>1, <1>2 DEF ServerFound
  <2>2. status # Nothing
    BY <1>1 DEF IInv, StateInv, After, Staged
  <2> QED BY <1>1, <2>1, <2>2, OnStep DEF Under, Offering, After, Staged, Out
<1>3. CASE ServerMissing
  BY <1>1, <1>3, NothingYet, ReturnsStep DEF ServerMissing, Silent
<1> QED BY <1>2, <1>3

LEMMA ConfirmStep == IInv /\ Confirm => IInv'
<1> SUFFICES ASSUME IInv, Confirm PROVE IInv'
  OBVIOUS
<1> USE DEF IInv
<1>1. /\ pc = "confirm" /\ confirmed' = TRUE
      /\ UNCHANGED <<mode, status, goals, request, preview, target, stage, outcome, before>>
      /\ pc' \in {"refreshVision", "stageCheck"} /\ (pc' = "refreshVision" <=> request \in Visual)
      /\ latest' = [t \in Topics |-> Unmarked(latest[t])]
  BY DEF Confirm, GoesMarked, Turns, Marked
<1>2. stage = 1
  BY <1>1 DEF PlaceInv, Under, Offering, After, Staged, Out
<1>3. PlaceInv'
  BY <1>1, <1>2 DEF PlaceInv, Under, Offering, After, Staged, Out
<1>4. GoalsInv'
  BY <1>1, <1>2 DEF GoalsInv, Under, Offering, After, Staged, Out
<1>5. TargetInv' /\ NothingSentIsTrue'
  BY <1>1 DEF TargetInv, NothingSentIsTrue, Offering, After, Staged, Out
<1>6. StateInv'
  <2>1. \A t \in Topics : latest'[t] = Nothing \/ DOMAIN latest'[t] = Fields
    BY <1>1 DEF StateInv, Unmarked
  <2> QED BY <1>1, <1>2, <2>1 DEF StateInv
<1> QED BY <1>3, <1>4, <1>5, <1>6

LEMMA RefreshStep == IInv /\ (RefreshVision \/ RefreshPose) => IInv'
<1> SUFFICES ASSUME IInv, RefreshVision \/ RefreshPose PROVE IInv'
  OBVIOUS
<1>0. /\ pc \in {"refreshVision", "refreshPose"} /\ stage = 1
      /\ pc \in Under /\ pc \in After /\ pc \notin Staged /\ request \in Visual
  BY DEF RefreshVision, RefreshPose, IInv, PlaceInv, Under, After, Staged, Out
<1>1. Len(goals) = before
  BY <1>0, NothingYet DEF Staged
<1>2. CASE Returns("blocked")
  BY <1>1, <1>2, ReturnsStep
<1>3. CASE LimitFell
  BY <1>3, EndsStep DEF LimitFell, Silent
<1>4. CASE RefreshVision /\ ~Returns("blocked")
  <2>1. /\ pc' = "refreshPose" /\ Stays /\ target'.since /\ target'.content # Gone
        /\ UNCHANGED <<mode, request, confirmed, stage, outcome, before, preview>>
    <3>1. Fresh("vision", TRUE) /\ latest["vision"].content # Gone
          /\ target' = Sighting(latest["vision"])
      BY <1>4 DEF RefreshVision
    <3>2. target'.since = latest["vision"].since /\ target'.content = latest["vision"].content
      BY <3>1 DEF Sighting
    <3>3. target'.since
      BY <3>1, <3>2 DEF Fresh
    <3> QED BY <1>4, <3>1, <3>2, <3>3 DEF RefreshVision, Goes, Turns
  <2>2. TargetInv'
    BY <1>0, <2>1 DEF IInv, TargetInv, Offering, After, Staged, Out
  <2> QED BY <1>0, <2>1, <2>2, GoesStep DEF Under, After, Staged, Out
<1>5. CASE RefreshPose /\ ~Returns("blocked") /\ ~LimitFell
  <2>1. /\ pc = "refreshPose" /\ pc' = "stageCheck" /\ Stays /\ Distance(preview, target.content) <= MaxShift
        /\ UNCHANGED <<mode, request, confirmed, stage, outcome, before, preview, target>>
    BY <1>5 DEF RefreshPose, Near, Goes, Turns, Keeps
  <2>2. TargetInv'
    BY <1>0, <2>1 DEF IInv, TargetInv, Offering, After, Staged, Out
  <2> QED BY <1>0, <2>1, <2>2, GoesStep DEF Under, After, Staged, Out
<1> QED BY <1>2, <1>3, <1>4, <1>5

LEMMA StageCheckStep == IInv /\ StageCheck => IInv'
<1> SUFFICES ASSUME IInv, StageCheck PROVE IInv'
  OBVIOUS
<1>1. pc = "stageCheck" /\ pc \in Under \ Out
  BY DEF StageCheck, Under, After, Staged, Out
<1>2. CASE Goes("stageServer", "server") /\ Keeps
  BY <1>1, <1>2, OnStep DEF Under, Offering, After, Staged, Out
<1>3. CASE Returns(IF stage = 1 THEN "blocked" ELSE "failed")
  BY <1>1, <1>3, NothingYet, ReturnsStep DEF Silent
<1> QED BY <1>2, <1>3 DEF StageCheck

LEMMA CommandOfStage ==
  ASSUME IInv, pc \in Under
  PROVE  StageCommand \in Commands
<1>1. request \in Workflows /\ stage \in 1..Len(Stages[request])
  BY DEF IInv, PlaceInv
<1> QED BY <1>1, StageCount, ElementOfSeq DEF StageCommand

LEMMA SendStep == IInv /\ Send => IInv'
<1> SUFFICES ASSUME IInv, Send PROVE IInv'
  OBVIOUS
<1> USE DEF IInv
<1>1. /\ pc = "send" /\ pc' = "accept" /\ SendGoal(StageCommand)
      /\ UNCHANGED <<mode, status, latest, request, preview, target, confirmed, stage, outcome, before>>
  BY DEF Send, Keeps, storedVars
<1>2. goals' \in Seq(Goals) /\ Len(goals) \in Nat /\ Len(goals') = Len(goals) + 1
  <2>1. StageCommand \in Commands
    BY <1>1, CommandOfStage DEF Under, After, Staged
  <2> QED BY <1>1, <2>1, SentLast DEF GoalsInv
<1>3. PlaceInv' /\ TargetInv' /\ StateInv'
  BY <1>1 DEF PlaceInv, TargetInv, StateInv, Under, Offering, After, Staged, Out
<1>4. GoalsInv'
  BY <1>1, <1>2 DEF GoalsInv, Under, Offering, After, Staged, Out
<1>5. NothingSentIsTrue'
  BY <1>1 DEF PlaceInv, NothingSentIsTrue, Under, After, Staged, Silent
<1> QED BY <1>3, <1>4, <1>5

LEMMA AnswerStep == IInv /\ (Answer \/ Result) => IInv'
<1> SUFFICES ASSUME IInv, Answer \/ Result PROVE IInv'
  OBVIOUS
<1>0. pc \in {"accept", "result"} /\ pc \in Out /\ pc \in Under /\ pc \in After
  BY DEF Answer, Result, Under, After, Staged, Out
<1>1. ASSUME NEW what \in {"failed", "success"}, Returns(what) PROVE IInv'
  BY <1>1, ReturnsStep DEF Silent
<1>2. CASE Goes("result", "result") /\ Keeps
  BY <1>0, <1>2, OnStep DEF Under, Offering, After, Staged, Out
<1>3. CASE Success /\ GoesMarked("verify", "state") /\ Keeps
  <2>1. /\ pc' = "verify" /\ Marked /\ UNCHANGED <<goals, status>> /\ Current.phase = "succeeded"
        /\ UNCHANGED <<mode, request, confirmed, stage, outcome, before, preview, target>>
    BY <1>3 DEF GoesMarked, Turns, Keeps, Success
  <2>2. TargetInv'
    BY <1>0, <2>1 DEF IInv, TargetInv, Offering, After, Staged, Out
  <2> QED BY <1>0, <2>1, <2>2, GoesStep DEF Under, After, Staged, Out
<1> QED BY <1>1, <1>2, <1>3 DEF Answer, Result

LEMMA VerifyStep == IInv /\ Verify => IInv'
<1> SUFFICES ASSUME IInv, Verify PROVE IInv'
  OBVIOUS
<1> USE DEF IInv
<1>1. ASSUME NEW what \in {"failed", "success"}, Returns(what) PROVE IInv'
  BY <1>1, ReturnsStep DEF Silent
<1>2. CASE /\ stage < Len(Stages[request]) /\ Fresh("cartesian", TRUE) /\ Reached
           /\ stage' = stage + 1 /\ Goes("stageCheck", "status")
           /\ UNCHANGED <<mode, request, seen, preview, target, confirmed, outcome, before>>
  <2>1. pc = "verify" /\ pc' = "stageCheck" /\ UNCHANGED <<goals, status, latest>>
    BY <1>2 DEF Verify, Goes, Turns, Stays, storedVars
  <2>2. /\ request \in Workflows /\ stage \in Nat /\ stage >= 1 /\ stage < Len(Stages[request])
        /\ Len(Stages[request]) \in Nat
    BY <1>2, <2>1, StageCount DEF PlaceInv, Under, After, Staged, Out
  <2>3. PlaceInv'
    BY <1>2, <2>1, <2>2 DEF PlaceInv, Under, Offering, After, Staged, Out
  <2>4. GoalsInv'
    <3>1. Len(goals) \in Nat
      BY LenProperties DEF GoalsInv
    <3> QED BY <1>2, <2>1, <2>2, <3>1 DEF GoalsInv, Current, Under, After, Staged, Out
  <2>5. TargetInv' /\ NothingSentIsTrue'
    BY <1>2, <2>1 DEF TargetInv, NothingSentIsTrue, Offering, After, Staged, Out
  <2>6. StateInv'
    <3>1. latest["cartesian"].since /\ latest["cartesian"].content = Stages[request][stage].name
      BY <1>2 DEF Fresh, Reached, StageCommand
    <3>2. stage' - 1 = stage
      BY <1>2, <2>2
    <3>3. status # Nothing
      BY <2>1 DEF StateInv, After, Staged, Out
    <3> QED BY <1>2, <2>1, <3>1, <3>2, <3>3 DEF StateInv
  <2> QED BY <2>3, <2>4, <2>5, <2>6
<1> QED BY <1>1, <1>2 DEF Verify

LEMMA StepHolds == IInv /\ [Next]_vars => IInv'
<1> SUFFICES ASSUME IInv, [Next]_vars PROVE IInv'
  OBVIOUS
<1>1. CASE Next
  BY <1>1, AskStep, QuitStep, PreviewStep, OfferStep, ServerStep, ConfirmStep, RefreshStep,
     StageCheckStep, SendStep, AnswerStep, VerifyStep, SpinStep, TickStep, EnvironmentStep
  DEF Next, Proceeds
<1>2. CASE UNCHANGED vars
  BY <1>2 DEF vars, clientVars, storedVars, workflowVars, IInv, PlaceInv, GoalsInv, TargetInv, StateInv,
              NothingSentIsTrue, Current
<1> QED BY <1>1, <1>2

LEMMA Invariant == Spec => []IInv
  BY InitHolds, StepHolds, PTL DEF Spec

-----------------------------------------------------------------------------
(***************************************************************************)
(* Types.                                                                  *)
(***************************************************************************)
Outcomes == {"none", "success", "failed", "interrupted", "raised"} \cup Silent

LEMMA GoesTyped ==
  ASSUME ClientTypeOK, NEW to, NEW wait \in Waits \cup {"none"}, Goes(to, wait)
  PROVE  ClientTypeOK' /\ pc' = to
  BY ClientTypes, ClientTypesNext, TimeoutNat DEF Goes, Turns, Stays, queueVars, storedVars

LEMMA GoesMarkedTyped ==
  ASSUME ClientTypeOK, NEW to, NEW wait \in Waits \cup {"none"}, GoesMarked(to, wait)
  PROVE  ClientTypeOK' /\ pc' = to
  BY ClientTypes, ClientTypesNext, MarkedTyped, TimeoutNat DEF GoesMarked, Turns, queueVars

LEMMA KeepsTyped ==
  ASSUME TypeOK, ClientTypeOK', Keeps, pc' \in Under
  PROVE  TypeOK'
  BY DEF TypeOK, WorkflowTypeOK, Keeps, Under, Offering, After, Staged, Out

LEMMA EndsTyped ==
  ASSUME TypeOK, NEW to \in {"idle", "ended"}, NEW what \in Outcomes, Ends(to, what)
  PROVE  TypeOK'
<1>1. ClientTypeOK'
  BY ClientTypes, ClientTypesNext, MarkedTyped DEF Ends, Turns, TypeOK, queueVars
<1>2. WorkflowTypeOK'
  BY DEF Ends, Turns, TypeOK, WorkflowTypeOK, Outcomes
<1> QED BY <1>1, <1>2 DEF TypeOK

\* What the program reads of the camera is an object or none.
LEMMA SeenTyped ==
  ASSUME ClientTypeOK, NEW after, Fresh("vision", after)
  PROVE  /\ latest["vision"].content \in Contents["vision"]
         /\ Sighting(latest["vision"]) \in Sightings
<1>1. "vision" \in Topics
  BY WorkflowAssumption
<1>2. latest["vision"] \in Stored("vision")
  BY <1>1, ClientTypes DEF Fresh, Records
<1> QED BY <1>2 DEF Stored, Sighting, Sightings

LEMMA InitTyped == Init => TypeOK
<1> SUFFICES ASSUME Init PROVE TypeOK
  OBVIOUS
<1>1. ClientTypeOK
  BY ClientInitTyped DEF Init
<1>2. WorkflowTypeOK
  BY DEF Init, WorkflowTypeOK
<1> QED BY <1>1, <1>2 DEF TypeOK

LEMMA AskTyped ==
  ASSUME TypeOK, NEW workflow \in Workflows, Ask(workflow)
  PROVE  TypeOK'
<1>1. PICK to \in {"vision", "limit", "offer"}, wait \in {"none", "state"} :
        Goes(to, wait) \/ GoesMarked(to, wait)
  BY DEF Ask
<1>2. wait \in Waits \cup {"none"}
  BY DEF Waits
<1>3. ClientTypeOK' /\ pc' = to
  BY <1>1, <1>2, GoesTyped, GoesMarkedTyped DEF TypeOK
<1>4. Len(goals) \in Nat
  BY ClientTypes, LenProperties DEF TypeOK
<1> QED BY <1>3, <1>4 DEF TypeOK, WorkflowTypeOK, Ask

LEMMA PreviewTyped ==
  ASSUME TypeOK, SelectObject \/ MaximumSpeed \/ PreviewTarget
  PROVE  TypeOK'
<1> USE DEF TypeOK
<1>1. CASE Returns("blocked")
  BY <1>1, EndsTyped DEF Returns, Outcomes, Silent
<1>2. CASE LimitFell
  BY <1>2, EndsTyped DEF LimitFell, Outcomes
<1>3. CASE SelectObject /\ ~Returns("blocked")
  <2>1. seen' \in Contents["vision"]
    BY <1>3, SeenTyped DEF SelectObject
  <2>2. ClientTypeOK' /\ pc' \in {"limit", "pose"}
    BY <1>3, GoesTyped, GoesMarkedTyped DEF SelectObject, Waits
  <2> QED BY <1>3, <2>1, <2>2 DEF SelectObject, WorkflowTypeOK
<1>4. CASE MaximumSpeed /\ ~Returns("blocked")
  <2>1. ClientTypeOK' /\ pc' \in {"offer", "pose"} /\ Keeps
    BY <1>4, GoesTyped DEF MaximumSpeed, Waits
  <2> QED BY <2>1, KeepsTyped DEF Under, Offering
<1>5. CASE PreviewTarget /\ ~Returns("blocked") /\ ~LimitFell
  <2>1. preview' \in Contents["vision"] \cup {Nothing}
    BY <1>5, SeenTyped DEF PreviewTarget, Newest, WorkflowTypeOK
  <2>2. ClientTypeOK' /\ pc' = "offer"
    BY <1>5, GoesTyped DEF PreviewTarget
  <2> QED BY <1>5, <2>1, <2>2 DEF PreviewTarget, WorkflowTypeOK
<1> QED BY <1>1, <1>2, <1>3, <1>4, <1>5

LEMMA OfferTyped ==
  ASSUME TypeOK, Offer \/ PreviewOnly \/ Check \/ ServerFound \/ ServerMissing \/ Decline \/ StageCheck
  PROVE  TypeOK'
<1> USE DEF TypeOK
<1>1. ASSUME NEW what \in {"blocked", "dry run", "failed", "cancelled"}, Returns(what) PROVE TypeOK'
  BY <1>1, EndsTyped DEF Returns, Outcomes, Silent
<1>2. ASSUME NEW to \in {"check", "server", "confirm", "send", "stageServer"},
             NEW wait \in {"status", "server", "none"}, Goes(to, wait), Keeps
      PROVE  TypeOK'
  <2>1. wait \in Waits \cup {"none"} /\ to \in Under
    BY DEF Waits, Under, Offering, After, Staged
  <2>2. ClientTypeOK' /\ pc' = to
    BY <1>2, <2>1, GoesTyped
  <2> QED BY <1>2, <2>1, <2>2, KeepsTyped
<1>3. CASE Offer
  BY <1>1, <1>2, <1>3 DEF Offer, WorkflowTypeOK
<1>4. CASE ServerFound \/ ServerMissing
  BY <1>1, <1>2, <1>4 DEF ServerFound, ServerMissing
<1>5. CASE PreviewOnly \/ Check \/ Decline \/ StageCheck
  BY <1>1, <1>2, <1>5 DEF PreviewOnly, Check, Decline, StageCheck
<1> QED BY <1>3, <1>4, <1>5

LEMMA RefreshTyped ==
  ASSUME TypeOK, Confirm \/ RefreshVision \/ RefreshPose
  PROVE  TypeOK'
<1> USE DEF TypeOK
<1>1. CASE Returns("blocked")
  BY <1>1, EndsTyped DEF Returns, Outcomes, Silent
<1>2. CASE LimitFell
  BY <1>2, EndsTyped DEF LimitFell, Outcomes
<1>3. CASE Confirm
  <2>1. ClientTypeOK' /\ pc' \in {"refreshVision", "stageCheck"}
    BY <1>3, GoesMarkedTyped DEF Confirm, Waits
  <2> QED BY <1>3, <2>1 DEF Confirm, WorkflowTypeOK
<1>4. CASE RefreshVision /\ ~Returns("blocked")
  <2>1. target' \in Sightings
    BY <1>4, SeenTyped DEF RefreshVision
  <2>2. ClientTypeOK' /\ pc' = "refreshPose"
    BY <1>4, GoesTyped DEF RefreshVision, Waits
  <2> QED BY <1>4, <2>1, <2>2 DEF RefreshVision, WorkflowTypeOK
<1>5. CASE RefreshPose /\ ~Returns("blocked") /\ ~LimitFell
  <2>1. ClientTypeOK' /\ pc' = "stageCheck" /\ Keeps
    BY <1>5, GoesTyped DEF RefreshPose, Waits
  <2> QED BY <2>1, KeepsTyped DEF Under, After, Staged
<1> QED BY <1>1, <1>2, <1>3, <1>4, <1>5

LEMMA SendTyped ==
  ASSUME IInv, TypeOK, Send
  PROVE  TypeOK'
<1>1. pc = "send" /\ pc \in Under /\ SendGoal(StageCommand) /\ Keeps /\ pc' = "accept"
      /\ UNCHANGED <<gates, queueVars, storedVars>>
  BY DEF Send, Under, After, Staged
<1>2. goals' \in Seq(Goals)
  BY <1>1, CommandOfStage, SentLast, ClientTypes DEF TypeOK
<1>3. timer' \in Nat
  BY <1>1, ClientAssumption DEF SendGoal, Waits
<1>4. ClientTypeOK'
  BY <1>1, <1>2, <1>3, ClientTypes, ClientTypesNext DEF TypeOK, queueVars, storedVars
<1> QED BY <1>1, <1>4, KeepsTyped DEF Under, After, Staged, Out

LEMMA ResultTyped ==
  ASSUME TypeOK, Answer \/ Result \/ Verify
  PROVE  TypeOK'
<1> USE DEF TypeOK
<1>1. ASSUME NEW what \in {"failed", "success"}, Returns(what) PROVE TypeOK'
  BY <1>1, EndsTyped DEF Returns, Outcomes
<1>2. CASE Goes("result", "result") /\ Keeps
  BY <1>2, GoesTyped, KeepsTyped DEF Waits, Under, After, Staged, Out
<1>3. CASE GoesMarked("verify", "state") /\ Keeps
  BY <1>3, GoesMarkedTyped, KeepsTyped DEF Waits, Under, After, Staged, Out
<1>4. CASE /\ stage' = stage + 1 /\ Goes("stageCheck", "status")
           /\ UNCHANGED <<mode, request, seen, preview, target, confirmed, outcome, before>>
  <2>1. ClientTypeOK' /\ pc' = "stageCheck"
    BY <1>4, GoesTyped DEF Waits
  <2> QED BY <1>4, <2>1 DEF WorkflowTypeOK
<1> QED BY <1>1, <1>2, <1>3, <1>4 DEF Answer, Result, Verify

\* The steps that leave the program where it is.
LEMMA ElsewhereTyped ==
  ASSUME TypeOK, Environment \/ Spin \/ Tick
  PROVE  TypeOK'
<1> USE DEF TypeOK
<1>1. UNCHANGED workflowVars
  BY DEF Environment, Spin, Tick
<1>2. ClientTypeOK'
  <2>1. CASE Environment
    BY <2>1, DriverTyped DEF Environment
  <2>2. CASE Spin
    <3>1. (pc \in {"limit", "refreshVision", "refreshPose", "verify"}) \in BOOLEAN
      OBVIOUS
    <3> QED BY <2>2, <3>1, CallbacksTyped DEF Spin
  <2>3. CASE Tick
    BY <2>3, ElapseTyped DEF Tick
  <2> QED BY <2>1, <2>2, <2>3
<1> QED BY <1>1, <1>2 DEF WorkflowTypeOK, workflowVars

LEMMA StepTyped == IInv /\ TypeOK /\ [Next]_vars => TypeOK'
<1> SUFFICES ASSUME IInv, TypeOK, [Next]_vars PROVE TypeOK'
  OBVIOUS
<1>1. CASE Proceeds
  BY <1>1, PreviewTyped, OfferTyped, RefreshTyped, SendTyped, ResultTyped DEF Proceeds
<1>2. CASE (\E workflow \in Workflows : Ask(workflow)) \/ Confirm \/ Decline
  BY <1>2, AskTyped, RefreshTyped, OfferTyped
<1>3. CASE Quit \/ Interrupt
  BY <1>3, EndsTyped DEF Quit, Interrupt, Outcomes, TypeOK, WorkflowTypeOK
<1>4. CASE Environment \/ Spin \/ Tick
  BY <1>4, ElsewhereTyped
<1>5. CASE UNCHANGED vars
  BY <1>5, ClientTypes, ClientTypesNext
     DEF vars, clientVars, queueVars, storedVars, workflowVars, TypeOK, WorkflowTypeOK
<1> QED BY <1>1, <1>2, <1>3, <1>4, <1>5 DEF Next

\* Every reachable state of the assistant is well typed: what it has seen and aims at
\* are places the camera reported, and its queues and ages stay within their bounds.
THEOREM TypeCorrect == Spec => []TypeOK
<1>1. Init => TypeOK
  BY InitTyped
<1>2. IInv /\ TypeOK /\ [Next]_vars => TypeOK'
  BY StepTyped
<1> QED BY <1>1, <1>2, Invariant, PTL DEF Spec

-----------------------------------------------------------------------------
\* Every answer that means that nothing was sent is true, also when a later stage
\* cannot be sent (process_assistant_prompt and what it calls).
THEOREM NothingSent == Spec => []NothingSentIsTrue
  BY Invariant, PTL DEF IInv

\* Only Send adds a goal.
LEMMA OnlySendSends ==
  ASSUME IInv, [Next]_vars, ~Send
  PROVE  Len(goals') = Len(goals)
<1>1. CASE Environment
  BY <1>1, DriverAdvances DEF Environment, Advances, IInv, GoalsInv
<1>2. CASE Spin
  <2>1. PICK marked \in BOOLEAN : Callbacks(marked)
    <3>1. (pc \in {"limit", "refreshVision", "refreshPose", "verify"}) \in BOOLEAN
      OBVIOUS
    <3> QED BY <1>2, <3>1 DEF Spin
  <2> QED BY <2>1 DEF Callbacks, StatusCallback, StateCallback
<1>3. CASE Tick
  BY <1>3 DEF Tick, Elapse
<1>4. CASE (\E workflow \in Workflows : Ask(workflow)) \/ Quit \/ Interrupt \/ Decline \/ Confirm
  BY <1>4 DEF Ask, Quit, Interrupt, Decline, Confirm, Goes, GoesMarked, Stays, Ends, Returns
<1>5. CASE SelectObject \/ MaximumSpeed \/ PreviewTarget \/ Offer \/ PreviewOnly \/ Check
           \/ ServerFound \/ ServerMissing
  <2>1. CASE Offer
    <3>1. mode \in {"execute", "gated", "preview"}
      BY DEF IInv, PlaceInv
    <3> QED BY <2>1, <3>1 DEF Offer, Goes, Stays, Ends, Returns
  <2> QED BY <1>5, <2>1 DEF SelectObject, MaximumSpeed, PreviewTarget, PreviewOnly, Check, ServerFound,
             ServerMissing, Goes, GoesMarked, Stays, Ends, Returns, LimitFell
<1>6. CASE RefreshVision \/ RefreshPose \/ StageCheck \/ Answer \/ Result \/ Verify
  BY <1>6 DEF RefreshVision, RefreshPose, StageCheck, Answer, Result, Verify, Goes, GoesMarked,
              Stays, Ends, Returns, LimitFell
<1>7. CASE UNCHANGED vars
  BY <1>7 DEF vars, clientVars
<1> QED BY <1>1, <1>2, <1>3, <1>4, <1>5, <1>6, <1>7 DEF Next, Proceeds

LEMMA SendIsGuarded ==
  ASSUME IInv, [Next]_vars, Len(goals') > Len(goals)
  PROVE  pc = "send"
<1>1. Len(goals) \in Nat
  BY LenProperties DEF IInv, GoalsInv
<1>2. Send
  BY <1>1, OnlySendSends
<1> QED BY <1>2 DEF Send

\* A later stage of a pick is sent only after a state received after the end of the
\* one before it showed the arm at its target (_execute_cartesian_stage).
THEOREM StagesVerified == Spec => StageVerified
<1>1. IInv /\ [Next]_vars =>
        [Len(goals') > Len(goals) /\ stage > 1
           => /\ latest["cartesian"].since
              /\ latest["cartesian"].content = Stages[request][stage - 1].name]_vars
  <2>1. ASSUME IInv, [Next]_vars, Len(goals') > Len(goals), stage > 1
        PROVE  /\ latest["cartesian"].since
               /\ latest["cartesian"].content = Stages[request][stage - 1].name
    BY <2>1, SendIsGuarded DEF IInv, StateInv, Staged, Out
  <2> QED BY <2>1
<1> QED BY <1>1, Invariant, PTL DEF Spec, StageVerified

\* The object a visual command is sent to is in a batch received after the
\* confirmation and near its previewed place (_refresh_target_after_confirmation).
THEOREM NearThePreview == Spec => SentNearThePreview
<1>1. IInv /\ [Next]_vars =>
        [Len(goals') > Len(goals) /\ request \in Visual
           => /\ target.since
              /\ preview # Gone /\ target.content # Gone
              /\ Distance(preview, target.content) <= MaxShift]_vars
  <2>1. ASSUME IInv, [Next]_vars, Len(goals') > Len(goals), request \in Visual
        PROVE  /\ target.since
               /\ preview # Gone /\ target.content # Gone
               /\ Distance(preview, target.content) <= MaxShift
    BY <2>1, SendIsGuarded DEF IInv, TargetInv, After, Staged
  <2> QED BY <2>1
<1> QED BY <1>1, Invariant, PTL DEF Spec, SentNearThePreview

\* A pick or a drop is reported as done only if a state received after its end
\* shows the arm at the last target (_execute_cartesian_stage's caller).
THEOREM ReportedIsReached == Spec => ReachedWhenReported
<1>1. IInv /\ [Next]_vars =>
        [pc = "verify" /\ outcome' = "success" /\ request # "align"
           => Fresh("cartesian", TRUE) /\ Reached]_vars
  <2>1. ASSUME IInv, [Next]_vars, pc = "verify", outcome' = "success", request # "align"
        PROVE  Fresh("cartesian", TRUE) /\ Reached
    <3>1. outcome = "none"
      BY <2>1 DEF IInv, PlaceInv, Under, After, Staged, Out
    <3>2. Verify
      BY <2>1, <3>1 DEF Next, Proceeds, SelectObject, MaximumSpeed, PreviewTarget, Offer, PreviewOnly, Check,
         ServerFound, ServerMissing, RefreshVision, RefreshPose, StageCheck, Send, Answer, Result, Spin,
         Tick, Environment, Ask, Quit, Interrupt, Decline, Confirm, Ends, workflowVars, vars
    <3> QED BY <2>1, <3>1, <3>2 DEF Verify, Returns, Ends
  <2> QED BY <2>1
<1> QED BY <1>1, Invariant, PTL DEF Spec, ReachedWhenReported

-----------------------------------------------------------------------------
(***************************************************************************)
(* A workflow implements ConfirmedCommands.                                *)
(***************************************************************************)
Issued == [i \in DOMAIN goals |-> goals[i].command]
Done == {i \in DOMAIN goals : goals[i].phase = "succeeded"}
Offered == IF request = Nothing THEN <<>> ELSE Stages[request]
Step == IF request = Nothing THEN 0 ELSE Len(goals) - before

LEMMA OfferedNotEmpty ==
  ASSUME IInv, request # Nothing
  PROVE  Stages[request] # <<>> /\ Stages[request] \in Seq(Commands)
<1>1. request \in Workflows
  BY DEF IInv, PlaceInv
<1>2. Stages[request] \in Seq(Commands) /\ Len(Stages[request]) # 0
  BY <1>1, StageCount
<1> QED BY <1>2, EmptySeq

\* Nothing that ConfirmedCommands speaks of changes.
LEMMA Stutters ==
  ASSUME UNCHANGED <<request, confirmed, goals, before>>, outcome' = "success" <=> outcome = "success"
  PROVE  [Confirmed!Next]_(Confirmed!vars)
  BY DEF Confirmed!vars

\* The end of a request: a withdrawal, or a report after its last stage.
LEMMA EndsMapped ==
  ASSUME IInv, NEW to \in {"idle", "ended"}, NEW what, Ends(to, what),
         what = "success" => /\ pc \in Out /\ Current.phase = "succeeded"
                             /\ stage = Len(Stages[request])
  PROVE  [Confirmed!Next]_(Confirmed!vars)
<1>1. request' = Nothing /\ confirmed' = FALSE /\ outcome' = what /\ UNCHANGED goals
  BY DEF Ends
<1>2. CASE request = Nothing
  <2>1. ~confirmed /\ confirmed \in BOOLEAN /\ pc \notin Out
    BY <1>2 DEF IInv, PlaceInv, Under, After, Staged
  <2>2. Confirmed!Ask
    BY <1>1, <1>2, <2>1 DEF Confirmed!Ask
  <2> QED BY <2>2 DEF Confirmed!Next
<1>3. CASE request # Nothing /\ what # "success"
  <2>1. Stages[request] # <<>>
    BY <1>3, OfferedNotEmpty
  <2>2. Confirmed!Withdraw
    BY <1>1, <1>3, <2>1 DEF Confirmed!Withdraw, Confirmed!Close
  <2> QED BY <2>2 DEF Confirmed!Next
<1>4. CASE request # Nothing /\ what = "success"
  <2>1. Stages[request] # <<>>
    BY <1>4, OfferedNotEmpty
  <2>2. pc \in Out /\ pc \in Under /\ Current.phase = "succeeded" /\ stage = Len(Stages[request])
    BY <1>4 DEF Under, After, Staged
  <2>3. request \in Workflows /\ Len(Stages[request]) \in Nat /\ Len(Stages[request]) # 0
    BY <2>2, StageCount DEF IInv, PlaceInv
  <2>4. goals \in Seq(Goals) /\ before \in Nat /\ Len(goals) = before + stage
    BY <2>2 DEF IInv, GoalsInv
  <2>5. Len(Issued) = Len(goals) /\ DOMAIN goals = 1..Len(goals) /\ Len(goals) \in Nat
    BY <2>4, IssuedSeq DEF Issued
  <2>6. Len(goals) \in DOMAIN goals /\ Len(goals) - before = Len(Stages[request])
    BY <2>2, <2>3, <2>4, <2>5
  <2>7. Len(Issued) \in Done
    BY <2>2, <2>5, <2>6 DEF Done, Current
  <2>8. Confirmed!Report
    BY <1>1, <1>4, <2>1, <2>6, <2>7
    DEF Confirmed!Report, Confirmed!Close, Confirmed!LastSucceeded, Issued, Done
  <2> QED BY <2>8 DEF Confirmed!Next
<1> QED BY <1>2, <1>3, <1>4

LEMMA ReturnsMapped ==
  ASSUME IInv, NEW what, Returns(what), what # "success"
  PROVE  [Confirmed!Next]_(Confirmed!vars)
  BY EndsMapped DEF Returns

LEMMA AskMapped ==
  ASSUME IInv, NEW workflow \in Workflows, Ask(workflow)
  PROVE  [Confirmed!Next]_(Confirmed!vars)
<1>1. /\ pc = "idle" /\ request' = workflow /\ before' = Len(goals) /\ outcome' = "none"
      /\ UNCHANGED <<goals, confirmed>>
  BY DEF Ask, Goes, GoesMarked, Stays
<1>2. request = Nothing
  BY <1>1 DEF IInv, PlaceInv, Under, Offering, After, Staged, Out
<1>3. workflow # Nothing /\ Stages[workflow] \in Seq(Commands) /\ Len(Stages[workflow]) \in 1..3
  BY StageCount
<1>4. Stages[workflow] \in Confirmed!Offers
  <2>1. Stages[workflow] \in [1..Len(Stages[workflow]) -> Commands]
    BY <1>3, LenProperties
  <2> QED BY <1>3, <2>1 DEF Confirmed!Offers
<1>5. Len(goals) - before' = 0
  BY <1>1, LenProperties DEF IInv, GoalsInv
<1>6. Confirmed!Offer(Stages[workflow])
  BY <1>1, <1>2, <1>3, <1>5 DEF Confirmed!Offer
<1> QED BY <1>4, <1>6 DEF Confirmed!Next

LEMMA ConfirmMapped ==
  ASSUME IInv, Confirm
  PROVE  [Confirmed!Next]_(Confirmed!vars)
<1>1. pc = "confirm" /\ confirmed' = TRUE /\ UNCHANGED <<goals, request, outcome, before>>
  BY DEF Confirm, GoesMarked
<1>2. request # Nothing /\ ~confirmed
  BY <1>1 DEF IInv, PlaceInv, Under, Offering, After, Staged, Out
<1>3. Stages[request] # <<>>
  BY <1>2, OfferedNotEmpty
<1>4. Confirmed!Approve
  BY <1>1, <1>2, <1>3 DEF Confirmed!Approve
<1> QED BY <1>4 DEF Confirmed!Next

LEMMA SendMapped ==
  ASSUME IInv, Send
  PROVE  [Confirmed!Next]_(Confirmed!vars)
<1>1. /\ pc = "send" /\ pc \in Under /\ pc \in After /\ pc \in Staged \ Out
      /\ SendGoal(StageCommand) /\ UNCHANGED <<request, confirmed, stage, outcome, before>>
  BY DEF Send, Keeps, Under, After, Staged, Out
<1>2. /\ request # Nothing /\ request \in Workflows /\ confirmed
      /\ stage \in 1..Len(Stages[request]) /\ Len(Stages[request]) \in {1, 3}
      /\ Len(goals) + 1 = before + stage /\ before \in Nat
      /\ stage > 1 => Current.phase = "succeeded"
  BY <1>1, StageCount DEF IInv, PlaceInv, GoalsInv
<1>3. StageCommand \in Commands
  BY <1>1, CommandOfStage
<1>4. /\ goals \in Seq(Goals) /\ goals' \in Seq(Goals) /\ Len(goals) \in Nat
      /\ Len(goals') = Len(goals) + 1
      /\ \A i \in 1..Len(goals) : goals'[i] = goals[i]
      /\ goals'[Len(goals) + 1] = [command |-> StageCommand, phase |-> "requested"]
  BY <1>1, <1>3, SentLast DEF IInv, GoalsInv
<1>5. /\ Issued \in Seq(Commands) /\ Len(Issued) = Len(goals)
      /\ Issued' \in Seq(Commands) /\ Len(Issued') = Len(goals')
      /\ DOMAIN goals = 1..Len(goals) /\ DOMAIN goals' = 1..Len(goals')
  BY <1>4, IssuedSeq DEF Issued
<1>6. Issued' = Append(Issued, StageCommand)
  <2>1. /\ Append(Issued, StageCommand) \in Seq(Commands)
        /\ Len(Append(Issued, StageCommand)) = Len(goals')
        /\ \A i \in 1..Len(goals) : Append(Issued, StageCommand)[i] = Issued[i]
        /\ Append(Issued, StageCommand)[Len(goals) + 1] = StageCommand
    BY <1>3, <1>4, <1>5, AppendSeq
  <2>2. ASSUME NEW i \in 1..Len(Issued') PROVE Issued'[i] = Append(Issued, StageCommand)[i]
    <3>1. i \in 1..Len(goals) \/ i = Len(goals) + 1
      BY <1>4, <1>5, <2>2
    <3>2. i \in DOMAIN goals' /\ (i \in 1..Len(goals) => i \in DOMAIN goals)
      BY <1>5
    <3> QED BY <1>4, <2>1, <3>1, <3>2 DEF Issued
  <2> QED BY <1>5, <2>1, <2>2, SeqEqual
<1>7. Done' = Done
  BY <1>4, <1>5 DEF Done
<1>8. Step + 1 = stage /\ Step' = Step + 1 /\ Step < Len(Offered) /\ Offered[Step + 1] = StageCommand
  BY <1>1, <1>2, <1>4 DEF Step, Offered, StageCommand
<1>9. Step = 0 \/ Len(Issued) \in Done
  <2>1. CASE stage = 1
    BY <1>2, <1>4, <1>8, <2>1 DEF Step
  <2>2. CASE stage > 1
    <3>1. Len(goals) \in DOMAIN goals
      BY <1>2, <1>4, <1>5, <2>2
    <3> QED BY <1>2, <1>5, <2>2, <3>1 DEF Done, Current
  <2> QED BY <1>2, <2>1, <2>2
<1>10. Offered' = Offered
  BY <1>1 DEF Offered
<1>11. Confirmed!Issue
  BY <1>1, <1>2, <1>6, <1>7, <1>8, <1>9, <1>10
  DEF Confirmed!Issue, Confirmed!LastSucceeded, Offered, Issued, Done, Step
<1> QED BY <1>11 DEF Confirmed!Next

\* The driver's end of a goal is the only other step ConfirmedCommands sees.
LEMMA FinishMapped ==
  ASSUME IInv, NEW i \in DOMAIN goals, NEW phase \in Phases, goals[i].phase # "succeeded",
         goals' = [goals EXCEPT ![i].phase = phase],
         UNCHANGED <<request, confirmed, outcome, before>>
  PROVE  [Confirmed!Next]_(Confirmed!vars)
<1>1. /\ Advances /\ DOMAIN goals' = DOMAIN goals /\ goals'[i].phase = phase
      /\ \A j \in DOMAIN goals \ {i} : goals'[j] = goals[j]
  BY PhaseChange DEF IInv, GoalsInv
<1>2. DOMAIN goals = 1..Len(goals)
  BY IssuedSeq DEF IInv, GoalsInv
<1>3. Issued' = Issued /\ Len(goals') = Len(goals)
  <2>1. \A j \in DOMAIN goals : goals'[j].command = goals[j].command
    BY <1>1, <1>2 DEF Advances
  <2> QED BY <1>1, <2>1 DEF Issued, Advances
<1>4. CASE phase = "succeeded"
  <2>1. Done' = Done \cup {i} /\ i \notin Done
    BY <1>1, <1>4 DEF Done
  <2>2. DOMAIN Issued = DOMAIN goals
    BY DEF Issued
  <2>3. Confirmed!Succeed(i)
    BY <1>3, <2>1, <2>2 DEF Confirmed!Succeed, Issued, Done
  <2>4. i \in DOMAIN [j \in DOMAIN goals |-> goals[j].command]
    OBVIOUS
  <2> QED BY <2>3, <2>4 DEF Confirmed!Next
<1>5. CASE phase # "succeeded"
  <2>1. Done' = Done
    BY <1>1, <1>5 DEF Done
  <2> QED BY <1>3, <2>1 DEF Confirmed!vars, Issued, Done
<1> QED BY <1>4, <1>5

LEMMA EnvironmentMapped ==
  ASSUME IInv, Environment
  PROVE  [Confirmed!Next]_(Confirmed!vars)
<1>1. UNCHANGED <<request, confirmed, outcome, before>>
  BY DEF Environment, workflowVars
<1>2. DriverActs
  BY DEF Environment
<1>3. CASE (\E t \in Topics : Publishes(t)) \/ GatesChange
  BY <1>1, <1>3, Stutters DEF Publishes, GatesChange
<1>4. ASSUME NEW i \in DOMAIN goals,
             DriverAccepts(i) \/ DriverRejects(i) \/ DriverFinishes(i) \/ GoalLost(i)
      PROVE  [Confirmed!Next]_(Confirmed!vars)
  <2>1. PICK phase \in Phases : goals' = [goals EXCEPT ![i].phase = phase]
    BY <1>4 DEF DriverAccepts, DriverRejects, DriverFinishes, GoalLost, Phases
  <2>2. goals[i].phase # "succeeded"
    BY <1>4 DEF DriverAccepts, DriverRejects, DriverFinishes, GoalLost
  <2> QED BY <1>1, <2>1, <2>2, FinishMapped
<1> QED BY <1>2, <1>3, <1>4 DEF DriverActs


LEMMA StepMapped ==
  ASSUME IInv, [Next]_vars
  PROVE  [Confirmed!Next]_(Confirmed!vars)
<1>0. ASSUME NEW what \in Silent \cup {"failed"}, Returns(what) PROVE [Confirmed!Next]_(Confirmed!vars)
  BY <1>0, ReturnsMapped DEF Silent
<1>1. CASE LimitFell
  BY <1>1, EndsMapped DEF LimitFell
<1>2. ASSUME NEW workflow \in Workflows, Ask(workflow) PROVE [Confirmed!Next]_(Confirmed!vars)
  BY <1>2, AskMapped
<1>3. CASE Quit
  <2>1. pc = "idle" /\ Ends("ended", outcome)
    BY <1>3 DEF Quit
  <2>2. request = Nothing /\ confirmed = FALSE
    BY <2>1 DEF IInv, PlaceInv, Under, Offering, After, Staged, Out
  <2> QED BY <2>1, <2>2, Stutters DEF Ends
<1>4. CASE Interrupt
  BY <1>4, EndsMapped DEF Interrupt
<1>5. CASE Decline
  BY <1>0, <1>5 DEF Decline, Silent
<1>6. CASE Confirm
  BY <1>6, ConfirmMapped
<1>7. CASE SelectObject \/ MaximumSpeed \/ PreviewTarget \/ RefreshVision \/ RefreshPose
  <2>1. CASE Returns("blocked")
    BY <1>0, <2>1 DEF Silent
  <2>2. CASE ~Returns("blocked") /\ ~LimitFell
    <3>1. UNCHANGED <<request, confirmed, outcome, before, goals>>
      BY <1>7, <2>2 DEF SelectObject, MaximumSpeed, PreviewTarget, RefreshVision, RefreshPose, Keeps,
                        Goes, GoesMarked, Stays
    <3> QED BY <3>1, Stutters
  <2> QED BY <1>1, <2>1, <2>2
<1>8. CASE Offer \/ PreviewOnly
  <2>1. CASE \E what \in {"blocked", "dry run"} : Returns(what)
    BY <1>0, <2>1 DEF Silent
  <2>2. CASE ~ \E what \in {"blocked", "dry run"} : Returns(what)
    <3>1. Goes("check", "status") /\ Keeps
      BY <1>8, <2>2 DEF Offer, PreviewOnly, IInv, PlaceInv
    <3> QED BY <3>1, Stutters DEF Goes, Stays, Keeps
  <2> QED BY <2>1, <2>2
<1>9. CASE Check \/ ServerFound \/ ServerMissing \/ StageCheck
  <2>1. CASE \E what \in {"blocked", "failed"} : Returns(what)
    BY <1>0, <2>1 DEF Silent
  <2>2. CASE ~ \E what \in {"blocked", "failed"} : Returns(what)
    <3>1. UNCHANGED <<request, confirmed, outcome, before, goals>>
      BY <1>9, <2>2 DEF Check, ServerFound, ServerMissing, StageCheck, Keeps, Goes, Stays
    <3> QED BY <3>1, Stutters
  <2> QED BY <2>1, <2>2
<1>10. CASE Send
  BY <1>10, SendMapped
<1>11. CASE Answer
  <2>1. CASE Returns("failed")
    BY <1>0, <2>1
  <2>2. CASE Goes("result", "result") /\ Keeps
    BY <2>2, Stutters DEF Goes, Stays, Keeps
  <2> QED BY <1>11, <2>1, <2>2 DEF Answer
<1>12. CASE Result
  <2>1. CASE Returns("failed")
    BY <1>0, <2>1
  <2>2. CASE Success /\ request = "home" /\ Returns("success")
    <3>1. pc = "result" /\ pc \in Under /\ pc \in Out
      BY <1>12 DEF Result, Under, After, Staged, Out
    <3>2. request \in Workflows /\ Len(Stages[request]) = 1 /\ stage \in 1..Len(Stages[request])
      BY <2>2, <3>1, StageCount DEF IInv, PlaceInv
    <3>3. stage = Len(Stages[request])
      BY <3>2
    <3> QED BY <2>2, <3>1, <3>3, EndsMapped DEF Returns, Success
  <2>3. CASE GoesMarked("verify", "state") /\ Keeps
    BY <2>3, Stutters DEF GoesMarked, Keeps
  <2> QED BY <1>12, <2>1, <2>2, <2>3 DEF Result
<1>13. CASE Verify
  <2>1. pc = "verify" /\ pc \in Under /\ pc \in Out /\ Current.phase = "succeeded"
    BY <1>13 DEF Verify, IInv, GoalsInv, Under, After, Staged, Out
  <2>2. CASE Returns("failed")
    BY <1>0, <2>2
  <2>3. CASE Returns("success") /\ (request = "align" \/ stage = Len(Stages[request]))
    <3>1. request \in Workflows /\ stage \in 1..Len(Stages[request])
      BY <2>1 DEF IInv, PlaceInv
    <3>2. request = "align" => Len(Stages[request]) = 1
      BY <3>1, StageCount
    <3>3. stage = Len(Stages[request])
      <4>1. CASE request = "align"
        <5>1. stage \in 1..1
          BY <3>1, <3>2, <4>1
        <5> QED BY <3>2, <4>1, <5>1
      <4> QED BY <2>3, <4>1
    <3> QED BY <2>1, <2>3, <3>3, EndsMapped DEF Returns
  <2>4. CASE Goes("stageCheck", "status") /\ UNCHANGED <<request, confirmed, outcome, before>>
    BY <2>4, Stutters DEF Goes, Stays
  <2> QED BY <1>13, <2>2, <2>3, <2>4 DEF Verify
<1>14. CASE Spin
  <2>1. PICK marked \in BOOLEAN : Callbacks(marked)
    <3>1. (pc \in {"limit", "refreshVision", "refreshPose", "verify"}) \in BOOLEAN
      OBVIOUS
    <3> QED BY <1>14, <3>1 DEF Spin
  <2>2. UNCHANGED goals
    BY <2>1 DEF Callbacks, StatusCallback, StateCallback
  <2> QED BY <1>14, <2>2, Stutters DEF Spin, workflowVars
<1>15. CASE Tick
  BY <1>15, Stutters DEF Tick, Elapse, workflowVars
<1>16. CASE Environment
  BY <1>16, EnvironmentMapped
<1>17. CASE UNCHANGED vars
  BY <1>17, Stutters DEF vars, clientVars, workflowVars
<1> QED BY <1>2, <1>3, <1>4, <1>5, <1>6, <1>7, <1>8, <1>9, <1>10, <1>11, <1>12, <1>13, <1>14, <1>15,
           <1>16, <1>17 DEF Next, Proceeds

\* Whatever is lost, late or interleaved, a workflow sends its stages in order, once,
\* after its confirmation and only while every one before has succeeded, and is
\* reported as done only after the last (_process_pick_prompt and its relatives).
THEOREM WorkflowImplementsConfirmed == Spec => ConfirmedSpec
<1>1. Init => Confirmed!Init
  BY DEF Init, ClientInit, Confirmed!Init
<1>2. IInv /\ [Next]_vars => [Confirmed!Next]_(Confirmed!vars)
  BY StepMapped
<1> QED BY <1>1, <1>2, Invariant, PTL DEF Spec, ConfirmedSpec, Confirmed!Spec

-----------------------------------------------------------------------------
(***************************************************************************)
(* The launch of an example program.                                       *)
(***************************************************************************)
\* Where a child can be alive, where SIGINT can be ignored, and what a wait left.
ForegroundInv ==
  /\ Alive => place \in (Inside \ {"opening"}) \cup {"ended"}
  /\ Alive /\ place = "restoring" => leaving
  /\ Alive /\ place = "restored" => leaving
  /\ handler = "ignore" => place \in {"waiting", "restoring", "restored"}
  /\ leaving => place \in {"restoring", "restored", "ended"}
  /\ settings = "changed" => place \in (Inside \ {"opening"}) \cup {"ended"}
  /\ place = "restored" /\ ~leaving => settings = "own"

\* A child is started only after a second look at the graph.
StandingInv ==
  place \in {"opening", "starting"} => Conflicts[program] \cap standing = {}

ExampleInv == ExampleTypeOK /\ ForegroundInv /\ ChildHearsCtrlC /\ StandingInv

LEMMA ExampleInitHolds == ExampleInit => ExampleInv
<1> SUFFICES ASSUME ExampleInit PROVE ExampleInv
  OBVIOUS
<1>1. ExampleTypeOK
  BY DEF ExampleInit, ExampleTypeOK, Inside, NoChild
<1>2. ForegroundInv
  BY DEF ExampleInit, ForegroundInv, Inside, NoChild, Alive
<1>3. ChildHearsCtrlC
  BY DEF ExampleInit, ChildHearsCtrlC, NoChild, Alive
<1>4. StandingInv
  BY DEF ExampleInit, StandingInv
<1> QED BY <1>1, <1>2, <1>3, <1>4 DEF ExampleInv

LEMMA ExampleStepHolds == ExampleInv /\ [ExampleNext]_exampleVars => ExampleInv'
<1> SUFFICES ASSUME ExampleInv, [ExampleNext]_exampleVars PROVE ExampleInv'
  OBVIOUS
<1> USE ExamplesAssumption
    DEF ExampleInv, ExampleTypeOK, ForegroundInv, ChildHearsCtrlC, StandingInv, Inside, Alive
<1>1. ASSUME NEW p \in Programs, AskExample(p) PROVE ExampleInv'
  BY <1>1 DEF AskExample, processVars, graphVars
<1>2. CASE Preflight
  BY <1>2 DEF Preflight, Refused, processVars, graphVars
<1>3. CASE ConfirmExample
  BY <1>3 DEF ConfirmExample, Refused, processVars
<1>4. CASE Recheck
  BY <1>4 DEF Recheck, Refused, processVars, graphVars
<1>5. CASE Unable
  BY <1>5 DEF Unable, Refused, processVars, graphVars
<1>6. CASE Open
  BY <1>6 DEF Open, NoChild, graphVars
<1>7. CASE Fork
  BY <1>7 DEF Fork, NoChild, graphVars
<1>8. CASE PopenReturns
  BY <1>8 DEF PopenReturns, graphVars
<1>9. CASE PopenFails
  BY <1>9 DEF PopenFails, NoChild, graphVars
<1>10. CASE Ignore
  BY <1>10 DEF Ignore, graphVars
<1>11. CASE Wait
  BY <1>11 DEF Wait, processVars, graphVars
<1>12. CASE RestoreTerminal
  BY <1>12 DEF RestoreTerminal, graphVars
<1>13. CASE RestoreHandler
  BY <1>13 DEF RestoreHandler, graphVars
<1>14. CASE ChildRuns
  BY <1>14 DEF ChildRuns, graphVars
<1>15. CASE ChildChangesTerminal
  BY <1>15 DEF ChildChangesTerminal, graphVars
<1>16. CASE ChildEnds
  BY <1>16 DEF ChildEnds, graphVars
<1>17. CASE CtrlC
  <2>1. CASE handler = "raise" /\ place # "ended"
    BY <1>17, <2>1 DEF CtrlC, ChildHears, Raised, graphVars
  <2>2. CASE ~(handler = "raise" /\ place # "ended")
    BY <1>17, <2>2 DEF CtrlC, ChildHears, graphVars
  <2> QED BY <2>1, <2>2
<1>18. ASSUME NEW n \in Nodes, NodeStarts(n) PROVE ExampleInv'
  BY <1>18 DEF NodeStarts, processVars
<1>19. ASSUME NEW n \in Nodes, NodeEnds(n) PROVE ExampleInv'
  BY <1>19 DEF NodeEnds, processVars
<1>20. ASSUME NEW n \in Nodes, Discovers(n) PROVE ExampleInv'
  BY <1>20 DEF Discovers, processVars
<1>21. CASE UNCHANGED exampleVars
  BY <1>21 DEF exampleVars, processVars, graphVars
<1> QED
  BY <1>1, <1>2, <1>3, <1>4, <1>5, <1>6, <1>7, <1>8, <1>9, <1>10, <1>11, <1>12, <1>13,
     <1>14, <1>15, <1>16, <1>17, <1>18, <1>19, <1>20, <1>21 DEF ExampleNext, Foreground

LEMMA ExampleInvariant == ExampleSpec => []ExampleInv
  BY ExampleInitHolds, ExampleStepHolds, PTL DEF ExampleSpec

-----------------------------------------------------------------------------
\* Every reachable state is well typed, and SIGINT is ignored inside
\* run_foreground only.
THEOREM ExampleTypeCorrect == ExampleSpec => []ExampleTypeOK
  BY ExampleInvariant, PTL DEF ExampleInv

\* The assistant takes prompts only alone, with its own terminal and its own
\* Ctrl-C: a child that is left behind is left by an assistant that ends.
THEOREM AloneAgain == ExampleSpec => []AloneAtThePrompt
<1>1. ExampleInv => AloneAtThePrompt
  BY DEF ExampleInv, ExampleTypeOK, ForegroundInv, AloneAtThePrompt, Inside, Alive
<1> QED BY <1>1, ExampleInvariant, PTL

\* No example inherits an ignored SIGINT.
THEOREM ChildInterruptible == ExampleSpec => []ChildHearsCtrlC
  BY ExampleInvariant, PTL DEF ExampleInv

\* No example is started beside a conflicting node that was running and known
\* when the operator confirmed.
THEOREM ConflictsBlock == ExampleSpec => StandingConflictsBlock
<1>1. ExampleInv /\ [ExampleNext]_exampleVars
        => [child' # child /\ child'.at = "forked" => Conflicts[program] \cap standing = {}]_exampleVars
  <2> SUFFICES ASSUME ExampleInv, ExampleNext, child' # child, child'.at = "forked"
               PROVE  Conflicts[program] \cap standing = {}
    OBVIOUS
  <2>1. place = "starting"
    BY DEF ExampleInv, ExampleTypeOK, ForegroundInv, ExampleNext, Foreground, AskExample, Preflight, ConfirmExample, Recheck, Unable, Open,
           Fork, PopenReturns, PopenFails, Ignore, Wait, RestoreTerminal, RestoreHandler, ChildRuns,
           ChildChangesTerminal, ChildEnds, CtrlC, ChildHears, NodeStarts, NodeEnds, Discovers,
           NoChild, processVars, graphVars
  <2> QED BY <2>1 DEF ExampleInv, StandingInv
<1> QED BY <1>1, ExampleInvariant, PTL DEF ExampleSpec, StandingConflictsBlock
=============================================================================
