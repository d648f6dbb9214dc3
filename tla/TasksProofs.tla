----------------------------- MODULE TasksProofs -----------------------------
(***************************************************************************)
(* Theorems about MappdkTasks, for any set of tasks that share the         *)
(* registers and any set of moves.                                         *)
(***************************************************************************)
EXTENDS MappdkTasks, TLAPS

\* What a task executes goes with the statement it is at.
CommandInv ==
  \A t \in Tasks :
    /\ pc[t] \in {"vel", "acc", "cnt", "reach", "target", "call", "moving"} => command[t].kind = "move"
    /\ At(t, "put") => command[t].kind = "set"
    /\ pc[t] \in {"program", "running", "holding"} => command[t].kind = "program"
    /\ pc[t] \in {"isTrue", "putTrue", "isFalse", "putFalse"} => command[t].kind = "get"

\* A task finds in the registers what it has written so far and nobody has since.
WrittenInv ==
  \A t \in Tasks :
    /\ pc[t] \in {"acc", "cnt", "reach", "target", "call"} /\ "vel" \notin disturbed[t]
         => numbers["vel"] = command[t].move["vel"]
    /\ pc[t] \in {"cnt", "reach", "target", "call"} /\ "acc" \notin disturbed[t]
         => numbers["acc"] = command[t].move["acc"]
    /\ pc[t] \in {"reach", "target", "call"} /\ "cnt" \notin disturbed[t]
         => numbers["cnt"] = command[t].move["cnt"]
    /\ At(t, "call") /\ "target" \notin disturbed[t]
         => position = command[t].move["target"]

\* Undisturbed, the output is still what the first test found.
TestedInv ==
  \A t \in Tasks : "output" \notin disturbed[t] =>
    /\ At(t, "putTrue") => output = TRUE
    /\ pc[t] \in {"isFalse", "putFalse"} => output = FALSE

\* One program at a time holds the motion group.
GroupInv ==
  \A t, u \in Tasks :
    pc[t] \in {"moving", "holding"} /\ pc[u] \in {"moving", "holding"} => t = u

IInv ==
  /\ TypeOK /\ CommandInv /\ WrittenInv /\ TestedInv /\ GroupInv
  /\ MovesAsCommanded /\ UndisturbedAnswer

-----------------------------------------------------------------------------
LEMMA CommandFields ==
  ASSUME NEW c \in Commands
  PROVE  /\ c.kind \in {"move", "set", "get", "program"}
         /\ c.kind = "move" => c.move \in Moves
  BY DEF Commands

\* A move's settings are values of its settings.
LEMMA MoveFields ==
  ASSUME NEW m \in Moves
  PROVE  /\ \A s \in Settings : m[s] \in Values(s)
         /\ m.vel = m["vel"] /\ m.acc = m["acc"] /\ m.cnt = m["cnt"] /\ m.target = m["target"]
  BY DEF Values

LEMMA InitHolds == Init => IInv
<1> SUFFICES ASSUME Init PROVE IInv
  OBVIOUS
<1>1. TypeOK
  <2>1. PICK m \in Moves : numbers = [r \in Registers |-> m[r]]
    BY DEF Init
  <2>2. \A r \in Registers : numbers[r] \in Values(r)
    BY <2>1, MoveFields DEF Settings
  <2>3. DOMAIN numbers = Registers
    BY <2>1
  <2>4. motion = NoMove
    BY DEF Init
  <2>5. command \in [Tasks -> Commands]
    BY DEF Init, Commands
  <2> QED BY <2>2, <2>3, <2>4, <2>5 DEF Init, TypeOK, Answers
<1>2. CommandInv /\ WrittenInv /\ TestedInv /\ GroupInv
  BY DEF Init, CommandInv, WrittenInv, TestedInv, GroupInv, At
<1>3. MovesAsCommanded /\ UndisturbedAnswer
  BY DEF Init, MovesAsCommanded, UndisturbedAnswer, At
<1> QED BY <1>1, <1>2, <1>3 DEF IInv
-----------------------------------------------------------------------------
(***************************************************************************)
(* Each action preserves the invariant.                                    *)
(***************************************************************************)
LEMMA ReadStep ==
  ASSUME IInv, NEW t \in Tasks, Read(t)
  PROVE  IInv'
<1> USE DEF IInv, Read, At, Goto
<1>a. PICK c \in Commands : /\ command' = [command EXCEPT ![t] = c]
                            /\ Goto(t, CASE c.kind = "move" -> "vel"
                                         [] c.kind = "set" -> "put"
                                         [] c.kind = "get" -> "isTrue"
                                         [] c.kind = "program" -> "program")
  OBVIOUS
<1>b. c.kind \in {"move", "set", "get", "program"}
  BY CommandFields
<1> USE <1>a, <1>b
<1>1. TypeOK'
  BY CommandFields, MoveFields DEF TypeOK, CommandInv, Answers, Settings, Shared, Registers, Positions, Commands
<1>2. CommandInv'
  BY DEF TypeOK, CommandInv, Registers
<1>3. WrittenInv'
  BY DEF TypeOK, CommandInv, WrittenInv, Settings, Registers
<1>4. TestedInv'
  BY DEF TypeOK, CommandInv, TestedInv, Settings, Registers
<1>5. GroupInv'
  BY DEF TypeOK, GroupInv, GroupHeld, Registers
<1>6. MovesAsCommanded'
  BY DEF TypeOK, CommandInv, MovesAsCommanded, Settings, Registers
<1>7. UndisturbedAnswer'
  BY DEF TypeOK, CommandInv, TestedInv, UndisturbedAnswer, Settings, Registers
<1> QED BY <1>1, <1>2, <1>3, <1>4, <1>5, <1>6, <1>7

LEMMA PutNumberStep ==
  ASSUME IInv, NEW t \in Tasks, NEW r \in Registers, PutNumber(t, r)
  PROVE  IInv'
<1> USE DEF IInv, PutNumber, At, Goto, After, Writes, Uses
<1>1. TypeOK'
  BY CommandFields, MoveFields DEF TypeOK, CommandInv, Answers, Settings, Shared, Registers, Positions, Commands
<1>2. CommandInv'
  BY DEF TypeOK, CommandInv, Registers
<1>3. WrittenInv'
  <2>1. CASE r = "vel"
    BY <2>1 DEF TypeOK, CommandInv, WrittenInv, Settings, Registers
  <2>2. CASE r = "acc"
    BY <2>2 DEF TypeOK, CommandInv, WrittenInv, Settings, Registers
  <2>3. CASE r = "cnt"
    BY <2>3 DEF TypeOK, CommandInv, WrittenInv, Settings, Registers
  <2> QED BY <2>1, <2>2, <2>3 DEF Registers
<1>4. TestedInv'
  BY DEF TypeOK, CommandInv, TestedInv, Settings, Registers
<1>5. GroupInv'
  BY DEF TypeOK, GroupInv, GroupHeld, Registers
<1>6. MovesAsCommanded'
  BY DEF TypeOK, CommandInv, MovesAsCommanded, Settings, Registers
<1>7. UndisturbedAnswer'
  BY DEF TypeOK, CommandInv, TestedInv, UndisturbedAnswer, Settings, Registers
<1> QED BY <1>1, <1>2, <1>3, <1>4, <1>5, <1>6, <1>7

LEMMA ReachableStep ==
  ASSUME IInv, NEW t \in Tasks, Reachable(t)
  PROVE  IInv'
<1> USE DEF IInv, Reachable, At, Goto
<1>1. TypeOK'
  BY CommandFields, MoveFields DEF TypeOK, CommandInv, Answers, Settings, Shared, Registers, Positions, Commands
<1>2. CommandInv'
  BY DEF TypeOK, CommandInv, Registers
<1>3. WrittenInv'
  BY DEF TypeOK, CommandInv, WrittenInv, Settings, Registers
<1>4. TestedInv'
  BY DEF TypeOK, CommandInv, TestedInv, Settings, Registers
<1>5. GroupInv'
  BY DEF TypeOK, GroupInv, GroupHeld, Registers
<1>6. MovesAsCommanded'
  BY DEF TypeOK, CommandInv, MovesAsCommanded, Settings, Registers
<1>7. UndisturbedAnswer'
  BY DEF TypeOK, CommandInv, TestedInv, UndisturbedAnswer, Settings, Registers
<1> QED BY <1>1, <1>2, <1>3, <1>4, <1>5, <1>6, <1>7

LEMMA PutPositionStep ==
  ASSUME IInv, NEW t \in Tasks, PutPosition(t)
  PROVE  IInv'
<1> USE DEF IInv, PutPosition, At, Goto, Writes, Uses
<1>1. TypeOK'
  BY CommandFields, MoveFields DEF TypeOK, CommandInv, Answers, Settings, Shared, Registers, Positions, Commands
<1>2. CommandInv'
  BY DEF TypeOK, CommandInv, Registers
<1>3. WrittenInv'
  BY DEF TypeOK, CommandInv, WrittenInv, Settings, Registers
<1>4. TestedInv'
  BY DEF TypeOK, CommandInv, TestedInv, Settings, Registers
<1>5. GroupInv'
  BY DEF TypeOK, GroupInv, GroupHeld, Registers
<1>6. MovesAsCommanded'
  BY DEF TypeOK, CommandInv, MovesAsCommanded, Settings, Registers
<1>7. UndisturbedAnswer'
  BY DEF TypeOK, CommandInv, TestedInv, UndisturbedAnswer, Settings, Registers
<1> QED BY <1>1, <1>2, <1>3, <1>4, <1>5, <1>6, <1>7

LEMMA RefuseStep ==
  ASSUME IInv, NEW t \in Tasks, Refuse(t)
  PROVE  IInv'
<1> USE DEF IInv, Refuse, At, Goto, Respond
<1>1. TypeOK'
  BY CommandFields, MoveFields DEF TypeOK, CommandInv, Answers, Settings, Shared, Registers, Positions, Commands
<1>2. CommandInv'
  BY DEF TypeOK, CommandInv, Registers
<1>3. WrittenInv'
  BY DEF TypeOK, CommandInv, WrittenInv, Settings, Registers
<1>4. TestedInv'
  BY DEF TypeOK, CommandInv, TestedInv, Settings, Registers
<1>5. GroupInv'
  BY DEF TypeOK, GroupInv, GroupHeld, Registers
<1>6. MovesAsCommanded'
  BY DEF TypeOK, CommandInv, MovesAsCommanded, Settings, Registers
<1>7. UndisturbedAnswer'
  BY DEF TypeOK, CommandInv, TestedInv, UndisturbedAnswer, Settings, Registers
<1> QED BY <1>1, <1>2, <1>3, <1>4, <1>5, <1>6, <1>7

LEMMA CallMoveStep ==
  ASSUME IInv, NEW t \in Tasks, CallMove(t)
  PROVE  IInv'
<1> USE DEF IInv, CallMove, At, Goto
<1>1. TypeOK'
  BY CommandFields, MoveFields DEF TypeOK, CommandInv, Answers, Settings, Shared, Registers, Positions, Commands
<1>2. CommandInv'
  BY DEF TypeOK, CommandInv, Registers
<1>3. WrittenInv'
  BY DEF TypeOK, CommandInv, WrittenInv, Settings, Registers
<1>4. TestedInv'
  BY DEF TypeOK, CommandInv, TestedInv, Settings, Registers
<1>5. GroupInv'
  BY DEF TypeOK, GroupInv, GroupHeld, Registers
<1>6. MovesAsCommanded'
  <2>1. \A s \in Settings \ disturbed[t] : motion'[s] = command[t].move[s]
    BY DEF WrittenInv, Settings, Registers
  <2>2. \A u \in Tasks \ {t} : pc'[u] # "moving"
    BY DEF TypeOK, GroupHeld
  <2> QED BY <2>1, <2>2 DEF MovesAsCommanded
<1>7. UndisturbedAnswer'
  BY DEF TypeOK, CommandInv, TestedInv, UndisturbedAnswer, Settings, Registers
<1> QED BY <1>1, <1>2, <1>3, <1>4, <1>5, <1>6, <1>7

LEMMA CallAbortedStep ==
  ASSUME IInv, NEW t \in Tasks, CallAborted(t)
  PROVE  IInv'
<1> USE DEF IInv, CallAborted, At, Goto
<1>1. TypeOK'
  BY CommandFields, MoveFields DEF TypeOK, CommandInv, Answers, Settings, Shared, Registers, Positions, Commands
<1>2. CommandInv'
  BY DEF TypeOK, CommandInv, Registers
<1>3. WrittenInv'
  BY DEF TypeOK, CommandInv, WrittenInv, Settings, Registers
<1>4. TestedInv'
  BY DEF TypeOK, CommandInv, TestedInv, Settings, Registers
<1>5. GroupInv'
  BY DEF TypeOK, GroupInv, GroupHeld, Registers
<1>6. MovesAsCommanded'
  BY DEF TypeOK, CommandInv, MovesAsCommanded, Settings, Registers
<1>7. UndisturbedAnswer'
  BY DEF TypeOK, CommandInv, TestedInv, UndisturbedAnswer, Settings, Registers
<1> QED BY <1>1, <1>2, <1>3, <1>4, <1>5, <1>6, <1>7

LEMMA MoveEndsStep ==
  ASSUME IInv, NEW t \in Tasks, MoveEnds(t)
  PROVE  IInv'
<1> USE DEF IInv, MoveEnds, At, Goto, Respond
<1>1. TypeOK'
  BY CommandFields, MoveFields DEF TypeOK, CommandInv, Answers, Settings, Shared, Registers, Positions, Commands
<1>2. CommandInv'
  BY DEF TypeOK, CommandInv, Registers
<1>3. WrittenInv'
  BY DEF TypeOK, CommandInv, WrittenInv, Settings, Registers
<1>4. TestedInv'
  BY DEF TypeOK, CommandInv, TestedInv, Settings, Registers
<1>5. GroupInv'
  BY DEF TypeOK, GroupInv, GroupHeld, Registers
<1>6. MovesAsCommanded'
  BY DEF TypeOK, GroupInv, MovesAsCommanded
<1>7. UndisturbedAnswer'
  BY DEF TypeOK, CommandInv, TestedInv, UndisturbedAnswer, Settings, Registers
<1> QED BY <1>1, <1>2, <1>3, <1>4, <1>5, <1>6, <1>7

LEMMA CallProgramStep ==
  ASSUME IInv, NEW t \in Tasks, CallProgram(t)
  PROVE  IInv'
<1> USE DEF IInv, CallProgram, At, Goto
<1>1. TypeOK'
  BY CommandFields, MoveFields DEF TypeOK, CommandInv, Answers, Settings, Shared, Registers, Positions, Commands
<1>2. CommandInv'
  BY DEF TypeOK, CommandInv, Registers
<1>3. WrittenInv'
  BY DEF TypeOK, CommandInv, WrittenInv, Settings, Registers
<1>4. TestedInv'
  BY DEF TypeOK, CommandInv, TestedInv, Settings, Registers
<1>5. GroupInv'
  BY DEF TypeOK, GroupInv, GroupHeld, Registers
<1>6. MovesAsCommanded'
  BY DEF TypeOK, CommandInv, MovesAsCommanded, Settings, Registers
<1>7. UndisturbedAnswer'
  BY DEF TypeOK, CommandInv, TestedInv, UndisturbedAnswer, Settings, Registers
<1> QED BY <1>1, <1>2, <1>3, <1>4, <1>5, <1>6, <1>7

LEMMA ProgramWritesStep ==
  ASSUME IInv, NEW t \in Tasks, ProgramWrites(t)
  PROVE  IInv'
<1> USE DEF IInv, ProgramWrites, At, Goto, Writes, Uses
<1>1. TypeOK'
  BY CommandFields, MoveFields DEF TypeOK, CommandInv, Answers, Settings, Shared, Registers, Positions, Commands
<1>2. CommandInv'
  BY DEF TypeOK, CommandInv, Registers
<1>3. WrittenInv'
  BY DEF TypeOK, CommandInv, WrittenInv, Settings, Registers
<1>4. TestedInv'
  BY DEF TypeOK, CommandInv, TestedInv, Settings, Registers
<1>5. GroupInv'
  BY DEF TypeOK, GroupInv, GroupHeld, Registers
<1>6. MovesAsCommanded'
  BY DEF TypeOK, CommandInv, MovesAsCommanded, Settings, Registers
<1>7. UndisturbedAnswer'
  BY DEF TypeOK, CommandInv, TestedInv, UndisturbedAnswer, Settings, Registers
<1> QED BY <1>1, <1>2, <1>3, <1>4, <1>5, <1>6, <1>7

LEMMA ProgramEndsStep ==
  ASSUME IInv, NEW t \in Tasks, ProgramEnds(t)
  PROVE  IInv'
<1> USE DEF IInv, ProgramEnds, At, Goto, Respond
<1>1. TypeOK'
  BY CommandFields, MoveFields DEF TypeOK, CommandInv, Answers, Settings, Shared, Registers, Positions, Commands
<1>2. CommandInv'
  BY DEF TypeOK, CommandInv, Registers
<1>3. WrittenInv'
  BY DEF TypeOK, CommandInv, WrittenInv, Settings, Registers
<1>4. TestedInv'
  BY DEF TypeOK, CommandInv, TestedInv, Settings, Registers
<1>5. GroupInv'
  BY DEF TypeOK, GroupInv, GroupHeld, Registers
<1>6. MovesAsCommanded'
  BY DEF TypeOK, CommandInv, MovesAsCommanded, Settings, Registers
<1>7. UndisturbedAnswer'
  BY DEF TypeOK, CommandInv, TestedInv, UndisturbedAnswer, Settings, Registers
<1> QED BY <1>1, <1>2, <1>3, <1>4, <1>5, <1>6, <1>7

LEMMA PutOutputStep ==
  ASSUME IInv, NEW t \in Tasks, PutOutput(t)
  PROVE  IInv'
<1> USE DEF IInv, PutOutput, At, Goto, Respond, Writes, Uses
<1>1. TypeOK'
  BY CommandFields, MoveFields DEF TypeOK, CommandInv, Answers, Settings, Shared, Registers, Positions, Commands
<1>2. CommandInv'
  BY DEF TypeOK, CommandInv, Registers
<1>3. WrittenInv'
  BY DEF TypeOK, CommandInv, WrittenInv, Settings, Registers
<1>4. TestedInv'
  BY DEF TypeOK, CommandInv, TestedInv, Settings, Registers
<1>5. GroupInv'
  BY DEF TypeOK, GroupInv, GroupHeld, Registers
<1>6. MovesAsCommanded'
  BY DEF TypeOK, CommandInv, MovesAsCommanded, Settings, Registers
<1>7. UndisturbedAnswer'
  BY DEF TypeOK, CommandInv, TestedInv, UndisturbedAnswer, Settings, Registers
<1> QED BY <1>1, <1>2, <1>3, <1>4, <1>5, <1>6, <1>7

LEMMA WrongValueStep ==
  ASSUME IInv, NEW t \in Tasks, WrongValue(t)
  PROVE  IInv'
<1> USE DEF IInv, WrongValue, At, Goto, Respond
<1>1. TypeOK'
  BY CommandFields, MoveFields DEF TypeOK, CommandInv, Answers, Settings, Shared, Registers, Positions, Commands
<1>2. CommandInv'
  BY DEF TypeOK, CommandInv, Registers
<1>3. WrittenInv'
  BY DEF TypeOK, CommandInv, WrittenInv, Settings, Registers
<1>4. TestedInv'
  BY DEF TypeOK, CommandInv, TestedInv, Settings, Registers
<1>5. GroupInv'
  BY DEF TypeOK, GroupInv, GroupHeld, Registers
<1>6. MovesAsCommanded'
  BY DEF TypeOK, CommandInv, MovesAsCommanded, Settings, Registers
<1>7. UndisturbedAnswer'
  BY DEF TypeOK, CommandInv, TestedInv, UndisturbedAnswer, Settings, Registers
<1> QED BY <1>1, <1>2, <1>3, <1>4, <1>5, <1>6, <1>7

LEMMA TestOutputStep ==
  ASSUME IInv, NEW t \in Tasks, TestOutput(t)
  PROVE  IInv'
<1> USE DEF IInv, TestOutput, At, Goto, Respond
<1>1. TypeOK'
  BY CommandFields, MoveFields DEF TypeOK, CommandInv, Answers, Settings, Shared, Registers, Positions, Commands
<1>2. CommandInv'
  BY DEF TypeOK, CommandInv, Registers
<1>3. WrittenInv'
  BY DEF TypeOK, CommandInv, WrittenInv, Settings, Registers
<1>4. TestedInv'
  BY DEF TypeOK, CommandInv, TestedInv, Settings, Registers
<1>5. GroupInv'
  BY DEF TypeOK, GroupInv, GroupHeld, Registers
<1>6. MovesAsCommanded'
  BY DEF TypeOK, CommandInv, MovesAsCommanded, Settings, Registers
<1>7. UndisturbedAnswer'
  BY DEF TypeOK, CommandInv, TestedInv, UndisturbedAnswer, Settings, Registers
<1> QED BY <1>1, <1>2, <1>3, <1>4, <1>5, <1>6, <1>7

LEMMA PutBackStep ==
  ASSUME IInv, NEW t \in Tasks, PutBack(t)
  PROVE  IInv'
<1> USE DEF IInv, PutBack, At, Goto, Respond, Writes, Uses
<1>1. TypeOK'
  BY CommandFields, MoveFields DEF TypeOK, CommandInv, Answers, Settings, Shared, Registers, Positions, Commands
<1>2. CommandInv'
  BY DEF TypeOK, CommandInv, Registers
<1>3. WrittenInv'
  BY DEF TypeOK, CommandInv, WrittenInv, Settings, Registers
<1>4. TestedInv'
  BY DEF TypeOK, CommandInv, TestedInv, Settings, Registers
<1>5. GroupInv'
  BY DEF TypeOK, GroupInv, GroupHeld, Registers
<1>6. MovesAsCommanded'
  BY DEF TypeOK, CommandInv, MovesAsCommanded, Settings, Registers
<1>7. UndisturbedAnswer'
  BY DEF TypeOK, CommandInv, TestedInv, UndisturbedAnswer, Settings, Registers
<1> QED BY <1>1, <1>2, <1>3, <1>4, <1>5, <1>6, <1>7

-----------------------------------------------------------------------------
LEMMA StepHolds == IInv /\ [Next]_vars => IInv'
<1> SUFFICES ASSUME IInv, [Next]_vars PROVE IInv'
  OBVIOUS
<1>1. CASE Next
  BY <1>1, ReadStep, PutNumberStep, ReachableStep, PutPositionStep, RefuseStep, CallMoveStep,
     CallAbortedStep, MoveEndsStep, CallProgramStep, ProgramWritesStep, ProgramEndsStep,
     PutOutputStep, WrongValueStep, TestOutputStep, PutBackStep
  DEF Next
<1>2. CASE UNCHANGED vars
  BY <1>2 DEF vars, IInv, TypeOK, CommandInv, WrittenInv, TestedInv, GroupInv, MovesAsCommanded,
              UndisturbedAnswer, At, Uses
<1> QED BY <1>1, <1>2

LEMMA Invariant == Spec => []IInv
  BY InitHolds, StepHolds, PTL DEF Spec

\* Every reachable state of the tasks is well typed: each register holds a value
\* some move has for it.
THEOREM TypeCorrect == Spec => []TypeOK
  BY Invariant, PTL DEF IInv

\* A motion is planned with every setting of its command that no other task has
\* written since, however many tasks and programs write the registers.
THEOREM UndisturbedMoves == Spec => []MovesAsCommanded
  BY Invariant, PTL DEF IInv

\* A query that no other task wrote an output during answers with its value.
THEOREM UndisturbedQueries == Spec => []UndisturbedAnswer
  BY Invariant, PTL DEF IInv
=============================================================================
