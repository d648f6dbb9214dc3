---------------------------- MODULE ClientProofs ----------------------------
(***************************************************************************)
(* Lemmas about PlannerClient that the proofs about every program built on *)
(* it use: what each of the client's steps does to its queues, records and *)
(* goals, for any topics, ages, commands and timeouts.                     *)
(***************************************************************************)
EXTENDS PlannerClient, SequenceTheorems, TLAPS

Goals == [command : Commands, phase : Phases]
Records(t) == Stored(t) \cup {Nothing}
Queues(t) == {q \in Seq(Contents[t]) : Len(q) <= QueueDepth}

-----------------------------------------------------------------------------
(***************************************************************************)
(* The client's queues and records.                                        *)
(***************************************************************************)
LEMMA AppendSeq ==
  ASSUME NEW S, NEW seq \in Seq(S), NEW e \in S
  PROVE  /\ Append(seq, e) \in Seq(S) /\ Len(seq) \in Nat
         /\ Len(Append(seq, e)) = Len(seq) + 1
         /\ \A i \in 1..Len(seq) : Append(seq, e)[i] = seq[i]
         /\ Append(seq, e)[Len(seq) + 1] = e
         /\ Append(seq, e) # <<>>
         /\ Tail(Append(seq, e)) \in Seq(S)
         /\ Len(Tail(Append(seq, e))) = Len(seq)
<1>1. /\ Append(seq, e) \in Seq(S)
      /\ Len(Append(seq, e)) = Len(seq) + 1
      /\ \A i \in 1..Len(seq) : Append(seq, e)[i] = seq[i]
      /\ Append(seq, e)[Len(seq) + 1] = e
  BY LenProperties
<1>2. Len(seq) \in Nat
  BY LenProperties
<1>3. Append(seq, e) # <<>>
  BY <1>1, <1>2, EmptySeq
<1> QED BY <1>1, <1>2, <1>3, HeadTailProperties

\* A full subscription drops its oldest message.
LEMMA KeptTyped ==
  ASSUME ClientTypeOK, NEW t \in Topics, NEW message \in Contents[t]
  PROVE  Kept(Append(mail[t], message)) \in Queues(t)
<1>1. mail[t] \in Seq(Contents[t]) /\ Len(mail[t]) <= QueueDepth /\ Len(mail[t]) \in Nat
  BY LenProperties DEF ClientTypeOK
<1>2. QueueDepth \in Nat \ {0}
  BY ClientAssumption
<1> DEFINE queue == Append(mail[t], message)
<1>3. /\ queue \in Seq(Contents[t]) /\ Len(queue) = Len(mail[t]) + 1
      /\ Tail(queue) \in Seq(Contents[t]) /\ Len(Tail(queue)) = Len(mail[t])
  <2> DEFINE S == Contents[t]
  <2>1. mail[t] \in Seq(S) /\ message \in S
    BY <1>1
  <2> HIDE DEF S
  <2>2. /\ queue \in Seq(S) /\ Len(queue) = Len(mail[t]) + 1
        /\ Tail(queue) \in Seq(S) /\ Len(Tail(queue)) = Len(mail[t])
    BY <2>1, AppendSeq
  <2> QED BY <2>2 DEF S
<1> HIDE DEF queue
<1>4. Kept(queue) \in Queues(t)
  BY <1>1, <1>2, <1>3 DEF Kept, Queues
<1> QED BY <1>4 DEF queue

LEMMA UnmarkedTyped ==
  ASSUME NEW t \in Topics
  PROVE  \A r \in Records(t) : Unmarked(r) \in Records(t)
  BY DEF Records, Stored, Unmarked

\* ClientTypeOK topic by topic.
LEMMA ClientTypes ==
  ClientTypeOK <=>
    /\ DOMAIN mail = Topics /\ DOMAIN latest = Topics
    /\ \A t \in Topics : mail[t] \in Queues(t) /\ latest[t] \in Records(t)
    /\ gates \in Statuses /\ notice \in Statuses \cup {Nothing} /\ status \in Statuses \cup {Nothing}
    /\ goals \in Seq(Goals) /\ timer \in Nat
  BY DEF ClientTypeOK, Queues, Records, Goals

LEMMA ClientTypesNext ==
  ClientTypeOK' <=>
    /\ DOMAIN mail' = Topics /\ DOMAIN latest' = Topics
    /\ \A t \in Topics : mail'[t] \in Queues(t) /\ latest'[t] \in Records(t)
    /\ gates' \in Statuses /\ notice' \in Statuses \cup {Nothing} /\ status' \in Statuses \cup {Nothing}
    /\ goals' \in Seq(Goals) /\ timer' \in Nat
  BY DEF ClientTypeOK, Queues, Records, Goals

LEMMA ClientInitTyped == ClientInit => ClientTypeOK
<1> SUFFICES ASSUME ClientInit PROVE ClientTypeOK
  OBVIOUS
<1>1. \A t \in Topics : mail[t] \in Queues(t)
  <2>1. \A t \in Topics : <<>> \in Seq(Contents[t]) /\ Len(<<>>) = 0
    BY EmptySeq
  <2>2. 0 <= QueueDepth
    BY ClientAssumption
  <2>3. \A t \in Topics : <<>> \in Queues(t)
    BY <2>1, <2>2 DEF Queues
  <2> QED BY <2>3 DEF ClientInit
<1>2. goals \in Seq(Goals)
  BY EmptySeq DEF ClientInit
<1> QED BY <1>1, <1>2, ClientTypes DEF ClientInit, Records

-----------------------------------------------------------------------------
(***************************************************************************)
(* The client's steps.                                                     *)
(***************************************************************************)
\* What happens to the goals between two sends.
Advances ==
  /\ goals' \in Seq(Goals) /\ Len(goals') = Len(goals)
  /\ \A i \in 1..Len(goals) :
       /\ goals'[i].command = goals[i].command
       /\ goals[i].phase = "succeeded" => goals'[i].phase = "succeeded"

LEMMA PhaseChange ==
  ASSUME goals \in Seq(Goals), NEW i \in DOMAIN goals, NEW phase \in Phases,
         goals[i].phase # "succeeded",
         goals' = [goals EXCEPT ![i].phase = phase]
  PROVE  /\ Advances
         /\ DOMAIN goals' = DOMAIN goals
         /\ goals'[i].phase = phase
         /\ \A j \in DOMAIN goals \ {i} : goals'[j] = goals[j]
<1>1. goals \in Seq(Goals) /\ Len(goals) \in Nat /\ DOMAIN goals = 1..Len(goals)
  BY LenProperties
<1>2. goals[i] \in Goals
  BY <1>1, ElementOfSeq
<1> DEFINE changed == [goals[i] EXCEPT !.phase = phase]
<1>3. changed \in Goals /\ changed.command = goals[i].command /\ changed.phase = phase
  BY <1>2 DEF Goals
<1>4. goals' = [goals EXCEPT ![i] = changed]
  OBVIOUS
<1> HIDE DEF changed
<1>5. /\ goals' \in Seq(Goals) /\ Len(goals') = Len(goals)
      /\ \A j \in 1..Len(goals) : goals'[j] = IF j = i THEN changed ELSE goals[j]
  BY <1>1, <1>3, <1>4, ExceptSeq
<1>6. DOMAIN goals' = DOMAIN goals
  BY <1>1, <1>5, LenProperties
<1> QED BY <1>1, <1>3, <1>5, <1>6 DEF Advances

\* The driver changes the goals' phases and what the subscriptions hold.
LEMMA DriverAdvances ==
  ASSUME goals \in Seq(Goals), DriverActs
  PROVE  Advances /\ UNCHANGED <<status, latest, timer>>
<1>0. ASSUME UNCHANGED goals PROVE Advances
  BY <1>0 DEF Advances
<1>1. ASSUME NEW t \in Topics, Publishes(t)
      PROVE  Advances /\ UNCHANGED <<status, latest, timer>>
  BY <1>0, <1>1 DEF Publishes, storedVars
<1>2. CASE GatesChange
  BY <1>0, <1>2 DEF GatesChange, storedVars
<1>3. ASSUME NEW i \in DOMAIN goals,
             DriverAccepts(i) \/ DriverRejects(i) \/ DriverFinishes(i) \/ GoalLost(i)
      PROVE  Advances /\ UNCHANGED <<status, latest, timer>>
  <2>1. PICK phase \in Phases : goals' = [goals EXCEPT ![i].phase = phase]
    BY <1>3 DEF DriverAccepts, DriverRejects, DriverFinishes, GoalLost, Phases
  <2>2. goals[i].phase # "succeeded" /\ UNCHANGED <<status, latest, timer>>
    BY <1>3 DEF DriverAccepts, DriverRejects, DriverFinishes, GoalLost, storedVars
  <2> QED BY <2>1, <2>2, PhaseChange
<1> QED BY <1>1, <1>2, <1>3 DEF DriverActs

LEMMA MarkedTyped ==
  ASSUME ClientTypeOK, Marked
  PROVE  DOMAIN latest' = Topics /\ \A t \in Topics : latest'[t] \in Records(t)
<1>1. \A t \in Topics : latest[t] \in Records(t)
  BY ClientTypes
<1> QED BY <1>1, UnmarkedTyped DEF Marked

LEMMA PublishesTyped ==
  ASSUME ClientTypeOK, NEW t \in Topics, Publishes(t)
  PROVE  ClientTypeOK' /\ UNCHANGED <<status, goals, timer>>
<1>1. PICK c \in Contents[t] : mail' = [mail EXCEPT ![t] = Kept(Append(mail[t], c))]
  BY DEF Publishes
<1>2. Kept(Append(mail[t], c)) \in Queues(t)
  BY KeptTyped
<1> QED BY <1>1, <1>2, ClientTypes, ClientTypesNext DEF Publishes, storedVars

LEMMA DriverTyped ==
  ASSUME ClientTypeOK, DriverActs
  PROVE  ClientTypeOK' /\ Advances /\ UNCHANGED <<status, timer>>
<1>0. Advances /\ UNCHANGED <<status, latest, timer>>
  BY DriverAdvances, ClientTypes
<1>1. ASSUME NEW t \in Topics, Publishes(t) PROVE ClientTypeOK'
  BY <1>1, PublishesTyped
<1>2. ASSUME GatesChange PROVE ClientTypeOK'
  BY <1>2, ClientTypes, ClientTypesNext DEF GatesChange, storedVars
<1>3. ASSUME NEW i \in DOMAIN goals,
             DriverAccepts(i) \/ DriverRejects(i) \/ DriverFinishes(i) \/ GoalLost(i)
      PROVE  ClientTypeOK'
  <2>1. UNCHANGED <<gates, queueVars, storedVars, timer>>
    BY <1>3 DEF DriverAccepts, DriverRejects, DriverFinishes, GoalLost
  <2> QED BY <1>0, <2>1, ClientTypes, ClientTypesNext DEF Advances, queueVars, storedVars
<1> QED BY <1>0, <1>1, <1>2, <1>3 DEF DriverActs

LEMMA CallbacksTyped ==
  ASSUME ClientTypeOK, NEW marked \in BOOLEAN, Callbacks(marked)
  PROVE  ClientTypeOK' /\ UNCHANGED <<goals, timer, gates>>
<1>1. CASE StatusCallback
  BY <1>1, ClientTypes, ClientTypesNext DEF StatusCallback
<1>2. ASSUME NEW t \in Topics, StateCallback(t, marked)
      PROVE  ClientTypeOK' /\ UNCHANGED <<goals, timer, gates>>
  <2>1. /\ mail[t] \in Seq(Contents[t]) /\ Len(mail[t]) <= QueueDepth /\ Len(mail[t]) \in Nat
        /\ mail[t] # <<>>
    BY <1>2, LenProperties DEF ClientTypeOK, StateCallback
  <2>2. /\ Head(mail[t]) \in Contents[t] /\ Tail(mail[t]) \in Seq(Contents[t])
        /\ Len(Tail(mail[t])) = Len(mail[t]) - 1
    BY <2>1, HeadTailProperties
  <2>3. Tail(mail[t]) \in Queues(t)
    BY <2>1, <2>2, ClientAssumption DEF Queues
  <2>4. MaxAge[t] \in Nat
    BY ClientAssumption
  <2>5. [content |-> Head(mail[t]), age |-> 0, since |-> marked] \in Records(t)
    BY <2>2, <2>4 DEF Records, Stored
  <2> QED BY <1>2, <2>3, <2>5, ClientTypes, ClientTypesNext DEF StateCallback
<1> QED BY <1>1, <1>2 DEF Callbacks

LEMMA ElapseTyped ==
  ASSUME ClientTypeOK, Elapse
  PROVE  ClientTypeOK'
<1>1. ASSUME NEW t \in Topics PROVE latest'[t] \in Records(t)
  <2>1. MaxAge[t] \in Nat /\ latest[t] \in Records(t)
    BY ClientAssumption, ClientTypes
  <2>2. CASE latest[t] = Nothing
    BY <2>2 DEF Elapse, Records
  <2>3. CASE latest[t] # Nothing
    <3>1. latest[t] \in Stored(t)
      BY <2>1, <2>3 DEF Records
    <3>2. latest[t].age \in 0..MaxAge[t] + 1
      BY <3>1 DEF Stored
    <3>3. Lower(latest[t].age + 1, MaxAge[t] + 1) \in 0..MaxAge[t] + 1
      BY <2>1, <3>2 DEF Lower
    <3>4. [latest[t] EXCEPT !.age = Lower(latest[t].age + 1, MaxAge[t] + 1)] \in Stored(t)
      BY <3>1, <3>3 DEF Stored
    <3> QED BY <2>3, <3>4 DEF Elapse, Records
  <2> QED BY <2>2, <2>3
<1>2. timer' \in Nat
  BY ClientTypes DEF Elapse
<1>3. DOMAIN latest' = Topics
  BY DEF Elapse
<1> QED BY <1>1, <1>2, <1>3, ClientTypes, ClientTypesNext DEF Elapse, queueVars

LEMMA TimeoutNat ==
  ASSUME NEW w \in Waits \cup {"none"}
  PROVE  (IF w = "none" THEN 0 ELSE Timeouts[w]) \in Nat
  BY ClientAssumption DEF Waits

\* The last goal after it was appended.
LEMMA SentLast ==
  ASSUME goals \in Seq(Goals), NEW command \in Commands, SendGoal(command)
  PROVE  /\ goals' \in Seq(Goals) /\ Len(goals) \in Nat /\ Len(goals') = Len(goals) + 1
         /\ \A i \in 1..Len(goals) : goals'[i] = goals[i]
         /\ goals'[Len(goals) + 1] = [command |-> command, phase |-> "requested"]
         /\ Current' = [command |-> command, phase |-> "requested"]
<1>1. [command |-> command, phase |-> "requested"] \in Goals
  BY DEF Goals, Phases
<1> QED BY <1>1, AppendSeq DEF SendGoal, Current

\* The commands sent, in order.
LEMMA IssuedSeq ==
  ASSUME NEW queue \in Seq(Goals)
  PROVE  /\ [i \in DOMAIN queue |-> queue[i].command] \in Seq(Commands)
         /\ Len([i \in DOMAIN queue |-> queue[i].command]) = Len(queue)
         /\ DOMAIN queue = 1..Len(queue) /\ Len(queue) \in Nat
<1> DEFINE commands == [i \in DOMAIN queue |-> queue[i].command]
<1>1. Len(queue) \in Nat /\ DOMAIN queue = 1..Len(queue)
  BY LenProperties
<1>2. \A i \in 1..Len(queue) : queue[i] \in Goals
  BY <1>1, ElementOfSeq
<1>3. commands \in [1..Len(queue) -> Commands]
  BY <1>1, <1>2 DEF Goals
<1>4. commands \in Seq(Commands)
  BY <1>1, <1>3, SeqDef
<1>5. DOMAIN commands = 1..Len(queue)
  BY <1>1
<1>6. Len(commands) = Len(queue)
  BY <1>1, <1>4, <1>5, LenProperties
<1> QED BY <1>1, <1>4, <1>6
=============================================================================
