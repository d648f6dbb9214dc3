----------------------------- MODULE MappdkTasks -----------------------------
(***************************************************************************)
(* What the KAREL tasks share.  MAPPDK_SERVER and MAPPDK_LOGGER listen on  *)
(* two ports and run the same HANDLE_CMD, on the same registers and the    *)
(* same outputs of the controller, one statement at a time each.           *)
(*                                                                         *)
(* A move is its four settings; the text they come in is parsed without    *)
(* touching anything shared.  The commands that only read the arm          *)
(* (curpos, curjpos, ins_pwr) or only set a system variable (setsysvar)    *)
(* share none of this and are left out.                                    *)
(***************************************************************************)
EXTENDS Naturals

CONSTANTS
  Tasks,   \* MAPPDK_SERVER, MAPPDK_LOGGER
  Moves,   \* moves a client sends: records with the fields Settings names
  NoMove   \* the move of a command that is not one

Registers == {"vel", "acc", "cnt"}
Settings == Registers \cup {"target"}
Shared == Settings \cup {"output"}

Values(setting) == {m[setting] : m \in Moves}

ASSUME MovesAssumption ==
  /\ \A m \in Moves : m = [s \in Settings |-> m[s]]
  /\ NoMove \notin Moves
  /\ Moves # {}

VARIABLES
  pc,         \* the statement each task is at
  command,    \* the command each task executes
  numbers,    \* R[81], R[82], R[83]
  position,   \* PR[81]
  output,     \* one digital output
  motion,     \* what the motion under way was planned with; NoMove: there is none
  answer,     \* the response each task has written last
  disturbed   \* history: what another task has written since the command was read, or
              \* since the task itself wrote it

vars == <<pc, command, numbers, position, output, motion, answer, disturbed>>

\* movej and movep differ in what their settings mean; setrdo, setdout, getrdo
\* and getdout in the outputs they are about; a value that is neither true nor false is
\* "wrong".
Commands ==
       [kind : {"move"}, move : Moves, value : {"none"}]
  \cup [kind : {"set"}, move : {NoMove}, value : {"true", "false", "wrong"}]
  \cup [kind : {"get", "program"}, move : {NoMove}, value : {"none"}]

Positions == Values("target")

Answers == {"none", "0:success", "0:1", "0:0", "1:error"}

TypeOK ==
  /\ pc \in [Tasks -> {"read", "vel", "acc", "cnt", "reach", "target", "call", "moving",
                       "program", "running", "holding", "put", "isTrue", "putTrue", "isFalse", "putFalse", "aborted"}]
  /\ command \in [Tasks -> Commands]
  /\ \A r \in Registers : numbers[r] \in Values(r)
  /\ DOMAIN numbers = Registers
  /\ position \in Positions
  /\ output \in BOOLEAN
  /\ motion # NoMove => DOMAIN motion = Settings /\ \A s \in Settings : motion[s] \in Values(s)
  /\ answer \in [Tasks -> Answers]
  /\ disturbed \in [Tasks -> SUBSET Shared]

\* The registers hold what earlier commands, or people, left there.
Init ==
  /\ pc = [t \in Tasks |-> "read"]
  /\ command = [t \in Tasks |-> [kind |-> "get", move |-> NoMove, value |-> "none"]]
  /\ \E m \in Moves : numbers = [r \in Registers |-> m[r]]
  /\ position \in Positions
  /\ output \in BOOLEAN
  /\ motion = NoMove
  /\ answer = [t \in Tasks |-> "none"]
  /\ disturbed = [t \in Tasks |-> {}]

-----------------------------------------------------------------------------
At(t, statement) == pc[t] = statement
Goto(t, statement) == pc' = [pc EXCEPT ![t] = statement]

Respond(t, response) ==
  /\ Goto(t, "read")
  /\ answer' = [answer EXCEPT ![t] = response]

\* What the command a task executes, or executed last, goes by.
Uses(u) == CASE command[u].kind = "move" -> Settings
             [] command[u].kind = "get" -> {"output"}
             [] OTHER -> {}

\* Task t has written one of the things all tasks share.
Writes(t, shared) ==
  disturbed' = [u \in Tasks |-> IF u = t THEN disturbed[u] \ {shared}
                                ELSE disturbed[u] \cup ({shared} \cap Uses(u))]

\* READ, HANDLE_CMD.
Read(t) ==
  /\ At(t, "read")
  /\ \E c \in Commands :
       /\ command' = [command EXCEPT ![t] = c]
       /\ Goto(t, CASE c.kind = "move" -> "vel"
                    [] c.kind = "set" -> "put"
                    [] c.kind = "get" -> "isTrue"
                    [] c.kind = "program" -> "program")
  /\ answer' = [answer EXCEPT ![t] = "none"]
  /\ disturbed' = [disturbed EXCEPT ![t] = {}]
  /\ UNCHANGED <<numbers, position, output, motion>>

After(register) == CASE register = "vel" -> "acc" [] register = "acc" -> "cnt" [] register = "cnt" -> "reach"

\* Mutant: the acceleration is left as it was.
PutNumberButAcceleration(t, register) ==
  /\ At(t, register)
  /\ Goto(t, After(register))
  /\ numbers' = IF register = "acc" THEN numbers ELSE [numbers EXCEPT ![register] = command[t].move[register]]
  /\ Writes(t, register)
  /\ UNCHANGED <<command, position, output, motion, answer>>

\* SET_INT_REG of R[81], R[82] and R[83].
PutNumber(t, register) ==
  /\ At(t, register)
  /\ Goto(t, After(register))
  /\ numbers' = [numbers EXCEPT ![register] = command[t].move[register]]
  /\ Writes(t, register)
  /\ UNCHANGED <<command, position, output, motion, answer>>

Reachable(t) ==
  /\ At(t, "reach")
  /\ Goto(t, "target")
  /\ UNCHANGED <<command, numbers, position, output, motion, answer, disturbed>>

\* SET_JPOS_REG or SET_POS_REG of PR[81].
PutPosition(t) ==
  /\ At(t, "target")
  /\ Goto(t, "call")
  /\ position' = command[t].move.target
  /\ Writes(t, "target")
  /\ UNCHANGED <<command, numbers, output, motion, answer>>

\* A register is not set, the values are no position, or it is not reachable.
Refuse(t) ==
  /\ pc[t] \in Registers \cup {"reach", "target"}
  /\ Respond(t, "1:error")
  /\ UNCHANGED <<command, numbers, position, output, motion, disturbed>>

GroupHeld == \E t \in Tasks : At(t, "moving") \/ At(t, "holding")

\* CALL_PROGLIN: the program's one line reads the registers when its motion is
\* planned, and holds the motion group until the arm is there.
CallMove(t) ==
  /\ At(t, "call")
  /\ ~GroupHeld
  /\ Goto(t, "moving")
  /\ motion' = [s \in Settings |-> IF s = "target" THEN position ELSE numbers[s]]
  /\ UNCHANGED <<command, numbers, position, output, answer, disturbed>>

\* The other task holds the group: the controller refuses to run the program, and
\* the task that called it ends.
CallAborted(t) ==
  /\ At(t, "call") \/ At(t, "program")
  /\ GroupHeld
  /\ Goto(t, "aborted")
  /\ UNCHANGED <<command, numbers, position, output, motion, answer, disturbed>>

MoveEnds(t) ==
  /\ At(t, "moving")
  /\ Respond(t, "0:success")
  /\ motion' = NoMove
  /\ UNCHANGED <<command, numbers, position, output, disturbed>>

-----------------------------------------------------------------------------
\* MAPPDKCALL: CALL_PROGLIN of a program of the controller's, which may need the
\* motion group.
CallProgram(t) ==
  /\ At(t, "program")
  /\ \/ Goto(t, "running")
     \/ ~GroupHeld /\ Goto(t, "holding")
  /\ UNCHANGED <<command, numbers, position, output, motion, answer, disturbed>>

\* What the program does is its own affair: it may write any register and output;
\* the motions are its own while it holds the group.
ProgramWrites(t) ==
  /\ At(t, "running") \/ At(t, "holding")
  /\ \/ /\ \E r \in Registers : \E v \in Values(r) : /\ numbers' = [numbers EXCEPT ![r] = v]
                                                    /\ Writes(t, r)
        /\ UNCHANGED <<position, output>>
     \/ /\ position' \in Values("target") /\ Writes(t, "target")
        /\ UNCHANGED <<numbers, output>>
     \/ /\ output' \in BOOLEAN /\ Writes(t, "output")
        /\ UNCHANGED <<numbers, position>>
  /\ UNCHANGED <<pc, command, motion, answer>>

ProgramEnds(t) ==
  /\ At(t, "running") \/ At(t, "holding")
  /\ Respond(t, "0:success")
  /\ UNCHANGED <<command, numbers, position, output, motion, disturbed>>

-----------------------------------------------------------------------------
\* SET_RDO, SET_DOUT.
PutOutput(t) ==
  /\ At(t, "put")
  /\ command[t].value # "wrong"
  /\ output' = (command[t].value = "true")
  /\ Respond(t, "0:success")
  /\ Writes(t, "output")
  /\ UNCHANGED <<command, numbers, position, motion>>

WrongValue(t) ==
  /\ At(t, "put")
  /\ command[t].value = "wrong"
  /\ Respond(t, "1:error")
  /\ UNCHANGED <<command, numbers, position, output, motion, disturbed>>

\* GET_RDO, GET_DOUT: each of the two tests is a statement, and the value found is
\* assigned to the output before it is reported.
TestOutput(t) ==
  /\ \/ /\ At(t, "isTrue")
        /\ Goto(t, IF output THEN "putTrue" ELSE "isFalse")
        /\ UNCHANGED answer
     \/ /\ At(t, "isFalse")
        /\ IF ~output THEN Goto(t, "putFalse") /\ UNCHANGED answer ELSE Respond(t, "1:error")
  /\ UNCHANGED <<command, numbers, position, output, motion, disturbed>>

PutBack(t) ==
  /\ \/ At(t, "putTrue") /\ output' = TRUE /\ Respond(t, "0:1")
     \/ At(t, "putFalse") /\ output' = FALSE /\ Respond(t, "0:0")
  /\ Writes(t, "output")
  /\ UNCHANGED <<command, numbers, position, motion>>

Next ==
  \E t \in Tasks :
    \/ Read(t)
    \/ \E r \in Registers : PutNumber(t, r)
    \/ Reachable(t) \/ PutPosition(t) \/ Refuse(t)
    \/ CallMove(t) \/ CallAborted(t) \/ MoveEnds(t)
    \/ CallProgram(t) \/ ProgramWrites(t) \/ ProgramEnds(t)
    \/ PutOutput(t) \/ WrongValue(t) \/ TestOutput(t) \/ PutBack(t)

Spec == Init /\ [][Next]_vars

-----------------------------------------------------------------------------
(***************************************************************************)
(* Properties.                                                             *)
(***************************************************************************)
\* A motion is planned with every setting of its command that no other task, and no
\* program another task runs, has written since: an interleaving spoils the settings
\* it touches and no others, and nothing is left over from an earlier command.
MovesAsCommanded ==
  \A t \in Tasks : At(t, "moving") =>
    \A s \in Settings \ disturbed[t] : motion[s] = command[t].move[s]

\* A query during which no other task wrote an output answers with the value the
\* output has.
UndisturbedAnswer ==
  \A t \in Tasks :
    At(t, "read") /\ command[t].kind = "get" /\ answer[t] # "none" /\ "output" \notin disturbed[t]
      => answer[t] = IF output THEN "0:1" ELSE "0:0"

\* "Gets digital out": no statement of a query changes an output.
QueriesOnlyRead ==
  [][\A t \in Tasks : command[t].kind = "get" /\ pc'[t] # pc[t] => output' = output]_vars
=============================================================================
