------------------------------ MODULE Transport ------------------------------
(***************************************************************************)
(* FanucpyTransport: the one TCP client of the MAPPDK server, shared by    *)
(* the driver's two threads under one lock.                                *)
(*                                                                         *)
(* A transport method is an operation: a plan of commands sent one at a    *)
(* time, each waiting for the next reply on the socket, with the lock held *)
(* from its first command to its last reply.  Time is abstracted: a wait   *)
(* may end by its socket timeout at any moment.  What the code does then   *)
(* depends on the operation: a motion resets the session, the recovery     *)
(* probe reconnects, and every other method raises and keeps the socket.   *)
(***************************************************************************)
EXTENDS MappdkServer

CONSTANTS
  RecycleAfterProgram   \* recycle_connection_after_program

ASSUME RecycleAssumption == RecycleAfterProgram \in BOOLEAN

VARIABLES
  connected,   \* FanucpyTransport._connected
  lock,        \* the thread holding FanucpyTransport._lock, or "free"
  op,          \* the operation of the lock holder
  todo,        \* its commands still to be answered
  awaiting,    \* Head(todo) has been sent
  read,        \* per thread: the position it read last
  ret,         \* per thread: what its last operation returned
  abandoned,   \* history: how many replies, not a motion's, were given up on this socket
  dispatched,  \* history: effects sent for the present owner of the driver
  unbacked,    \* history: an effect was taken as done on a reply not its own
  unverified   \* history: no state read since a program's session recycling

clientVars == <<connected, lock, op, todo, awaiting, read, ret,
                abandoned, dispatched, unbacked, unverified>>
transportVars == <<serverVars, clientVars>>

Threads == {"worker", "executor"}

\* The jog reads the pose it starts from and sends the move under one lock.
JogPlanFromLastPose == <<"move">>   \* mutant: starts from the pose read last
JogPlan == <<"curpos", "move">>

\* read_state, move_cartesian, jog_cartesian, move_joint, call_program*, the
\* register and output writes, the register, output and power reads, and the
\* state probe of the session recycling.  Connecting sends no command.
Plan == [poll     |-> <<"curjpos", "curpos">>,
         absolute |-> <<"move">>,
         jog      |-> JogPlan,
         waypoint |-> <<"move", "curjpos">>,
         program  |-> <<"call">>,
         write    |-> <<"write">>,
         read     |-> <<"read">>,
         probe    |-> <<"curjpos", "curpos">>,
         none     |-> <<>>,
         connect  |-> <<>>,
         recycle  |-> <<>>]

Operations == DOMAIN Plan

ClientTypeOK ==
  /\ connected \in BOOLEAN
  /\ lock \in Threads \cup {"free"}
  /\ op \in Operations
  /\ todo \in Seq(Kinds)
  /\ awaiting \in BOOLEAN
  /\ read \in [Threads -> Positions \cup {NoPosition}]
  /\ ret \in [Threads -> {"none", "ok", "unready", "error"}]
  /\ abandoned \in Nat
  /\ dispatched \in Nat
  /\ unbacked \in BOOLEAN
  /\ unverified \in BOOLEAN

ClientInit ==
  /\ connected = FALSE
  /\ lock = "free"
  /\ op = "none"
  /\ todo = <<>>
  /\ awaiting = FALSE
  /\ read = [t \in Threads |-> NoPosition]
  /\ ret = [t \in Threads |-> "none"]
  /\ abandoned = 0
  /\ dispatched = 0
  /\ unbacked = FALSE
  /\ unverified = FALSE

-----------------------------------------------------------------------------
(***************************************************************************)
(* Effects shared by the actions.                                          *)
(***************************************************************************)

\* Mutant: the robot object is dropped and its socket left open.
ForgetSocket ==
  /\ connected' = FALSE
  /\ UNCHANGED linked
  /\ replies' = <<>>
  /\ abandoned' = 0

\* _disconnect_unlocked: close the socket and forget the robot object.
CloseSocket ==
  /\ connected' = FALSE
  /\ linked' = FALSE
  /\ replies' = <<>>
  /\ abandoned' = 0

\* The operation ends and "with self._lock" is left.
Leave(result) ==
  /\ ret' = [ret EXCEPT ![lock] = result]
  /\ lock' = "free"
  /\ op' = "none"
  /\ todo' = <<>>
  /\ awaiting' = FALSE

\* The operation goes on, under the lock, as operation o with plan p.
GoOn(o, p) ==
  /\ op' = o
  /\ todo' = p
  /\ awaiting' = FALSE
  /\ UNCHANGED <<lock, ret>>

\* An exception after which the session is reset: an OSError during a motion.
ResetsNever(atSocket) == FALSE      \* mutant: no reset after a motion timeout
Resets(atSocket) == atSocket /\ Head(todo) = "move"

\* An exception while Head(todo) is executed; atSocket says it is an OSError,
\* rest is what is left to receive, givenUp that the answer may still come.
\* The probe's handler closes and retries, _run_motion_unlocked resets the
\* session on an OSError, and everything else lets it pass with the socket open.
Raise(atSocket, rest, givenUp) ==
  CASE op = "probe"                     -> CloseSocket /\ GoOn("recycle", <<>>)
    [] op # "probe" /\ Resets(atSocket) -> CloseSocket /\ Leave("error")
    [] OTHER                            -> /\ replies' = rest
                                           /\ abandoned' = IF givenUp /\ Head(todo) # "move"
                                                           THEN abandoned + 1 ELSE abandoned
                                           /\ Leave("error")
                                           /\ UNCHANGED <<connected, linked>>

-----------------------------------------------------------------------------
\* A method takes the lock; _require_robot raises when there is no session.
Begin(t, o) ==
  /\ lock = "free"
  /\ IF connected
     THEN /\ lock' = t
          /\ op' = o
          /\ todo' = Plan[o]
          /\ UNCHANGED ret
     ELSE /\ ret' = [ret EXCEPT ![t] = "error"]
          /\ UNCHANGED <<lock, op, todo>>
  /\ UNCHANGED <<serverVars, connected, awaiting, read, abandoned, dispatched,
                 unbacked, unverified>>

\* connect(): returns at once when a session is open.
BeginConnect(t) ==
  /\ lock = "free"
  /\ IF connected
     THEN ret' = [ret EXCEPT ![t] = "ok"] /\ UNCHANGED <<lock, op>>
     ELSE lock' = t /\ op' = "connect" /\ UNCHANGED ret
  /\ UNCHANGED <<serverVars, connected, todo, awaiting, read, abandoned,
                 dispatched, unbacked, unverified>>

\* disconnect(): safe to call at any time.
Disconnect ==
  /\ lock = "free"
  /\ CloseSocket
  /\ UNCHANGED <<peer, inbuf, running, acted, pos, lock, op, todo, awaiting,
                 read, ret, dispatched, unbacked, unverified>>

\* What the recycling does with its new session: it reads the state.
RunAgain == GoOn("program", Plan["program"])   \* mutant: it repeats the call
Probe == GoOn("probe", Plan["probe"])

\* robot.connect() returns with the server's greeting, after the server has
\* accepted the socket in OPEN_COMM.
ConnectOk ==
  /\ op \in {"connect", "recycle"}
  /\ peer = "listening"
  /\ peer' = "serving"
  /\ linked' = TRUE
  /\ connected' = TRUE
  /\ IF op = "connect" THEN Leave("ok") ELSE Probe
  /\ UNCHANGED <<inbuf, running, replies, acted, pos, read, abandoned,
                 dispatched, unbacked, unverified>>

\* Refused, timed out, or no greeting in time.  The recycling loop tries again.
ConnectFails ==
  /\ op = "connect"
  /\ Leave("error")
  /\ UNCHANGED <<serverVars, connected, read, abandoned, dispatched, unbacked,
                 unverified>>

\* send_cmd: sendall, then wait in recv.
Send ==
  /\ todo # <<>>
  /\ ~awaiting
  /\ awaiting' = TRUE
  /\ inbuf' = IF linked THEN Append(inbuf, Head(todo)) ELSE inbuf
  /\ acted' = FALSE
  /\ dispatched' = IF Head(todo) \in Effects THEN dispatched + 1 ELSE dispatched
  /\ UNCHANGED <<peer, linked, running, replies, pos, connected, lock, op, todo,
                 read, ret, abandoned, unbacked, unverified>>

\* What the callers of send_cmd accept as an answer: a move, a program call and
\* a write only look at the code; the others parse the text.  A curjpos text
\* holds "none" entries, which is no Cartesian value; a curpos text may or may
\* not pass for joint values.
Parses(asked, r) ==
  IF ~r.ok THEN {FALSE}
  ELSE CASE asked \in Effects                                -> {TRUE}
         [] asked = r.kind                                   -> {TRUE}
         [] asked = "curjpos" /\ r.kind = "curpos"           -> BOOLEAN
         [] OTHER                                            -> {FALSE}

\* The answer is taken.  The last answer of a plan ends the operation; a program's
\* answer starts the recycling of the session instead.
Accept(asked, r) ==
  /\ read' = IF r.kind \in StateQueries THEN [read EXCEPT ![lock] = r.pos] ELSE read
  /\ unbacked' = (unbacked \/ (asked \in Effects /\ ~acted))
  /\ IF op = "program" /\ RecycleAfterProgram
     THEN /\ CloseSocket
          /\ GoOn("recycle", <<>>)
          /\ unverified' = TRUE
     ELSE /\ replies' = Tail(replies)
          /\ UNCHANGED <<connected, linked, abandoned>>
          /\ IF Tail(todo) = <<>> THEN Leave("ok") ELSE GoOn(op, Tail(todo))
          /\ unverified' = (unverified /\ ~(op \in {"poll", "probe"} /\ Tail(todo) = <<>>))

\* recv returns the oldest reply, whichever command it answers.
Receive ==
  /\ awaiting
  /\ replies # <<>>
  /\ \E fits \in Parses(Head(todo), Head(replies)) :
       IF fits
       THEN Accept(Head(todo), Head(replies))
       ELSE Raise(FALSE, Tail(replies), FALSE) /\ UNCHANGED <<read, unbacked, unverified>>
  /\ UNCHANGED <<peer, inbuf, running, acted, pos, dispatched>>

\* No reply comes.  On a live link the socket timeout expires, an OSError; on a
\* dead one send or recv raises an OSError, or recv returns nothing to parse.
WaitFails ==
  /\ awaiting
  /\ replies = <<>>
  /\ \E atSocket \in IF linked THEN {TRUE} ELSE BOOLEAN : Raise(atSocket, <<>>, linked)
  /\ UNCHANGED <<peer, inbuf, running, acted, pos, read, dispatched, unbacked,
                 unverified>>

\* Mutant: the recycling goes on until the controller is back.
RecycleForever == op = "recycle" /\ FALSE /\ UNCHANGED transportVars

\* The deadline of the recycling passes: the program is reported as run, with
\* no session.
RecycleDeadline ==
  /\ op = "recycle"
  /\ Leave("unready")
  /\ UNCHANGED <<serverVars, connected, read, abandoned, dispatched, unbacked,
                 unverified>>

\* KeyboardInterrupt in thread t: "except Exception" does not see it, "with"
\* releases the lock and the socket stays as it is.  What was owned is given up.
Interrupt(t) ==
  /\ IF lock = t
     THEN /\ Leave("none")
          /\ abandoned' = IF awaiting THEN abandoned + 1 ELSE abandoned
     ELSE /\ ret' = [ret EXCEPT ![t] = "none"]
          /\ UNCHANGED <<lock, op, todo, awaiting, abandoned>>
  /\ dispatched' = 0
  /\ unbacked' = FALSE
  /\ read' = [read EXCEPT ![t] = NoPosition]
  /\ UNCHANGED <<serverVars, connected, unverified>>

\* The steps of the thread that holds the lock.
HolderNext ==
  \/ ConnectOk
  \/ ConnectFails
  \/ Send
  \/ Receive
  \/ WaitFails
  \/ RecycleDeadline
=============================================================================
