---------------------------- MODULE MappdkServer ----------------------------
(***************************************************************************)
(* The controller side of the MAPPDK socket: the KAREL task MAPPDK_SERVER. *)
(*                                                                         *)
(* One task listens on S8:, serves one client at a time and runs one       *)
(* command at a time: READ, HANDLE_CMD, WRITE.  Commands carry no number   *)
(* and replies name no command, so a client can match the two only by      *)
(* counting.  The module keeps the two byte streams as sequences and       *)
(* abstracts a command to its kind and a reply to its kind, its code and,  *)
(* for the state queries, the position it reports.                         *)
(*                                                                         *)
(* The actions that send, receive, connect and close belong to the client  *)
(* (module Transport), which extends this one.                             *)
(***************************************************************************)
EXTENDS Naturals, Sequences

CONSTANTS
  Positions,   \* arm positions the properties need to tell apart
  NoPosition   \* no position has been read

ASSUME PositionsAssumption == NoPosition \notin Positions

VARIABLES
  peer,        \* where the server task is: waiting in MSG_CONNECT, serving
               \* an open socket, or open but no longer answering
  linked,      \* the server's open socket is the client's current one
  inbuf,       \* commands received and not yet READ
  running,     \* the command HANDLE_CMD is executing, as a sequence of <= 1
  replies,     \* replies written and not yet received by the client
  acted,       \* history: the command sent last has been completed with code 0
  pos          \* where the arm is

serverVars == <<peer, linked, inbuf, running, replies, acted, pos>>

\* Commands by what they do.  "curjpos" and "curpos" report the position;
\* "move" is movej or movep; "call" is mappdkcall; "write" stands for setrdo,
\* setdout and setreg*, "read" for getrdo, getdout, getreg and ins_pwr.
StateQueries == {"curjpos", "curpos"}
Effects      == {"move", "call", "write"}
Kinds        == StateQueries \cup Effects \cup {"read"}

Moving(k) == k \in {"move", "call"}

Reply == [kind : Kinds, ok : BOOLEAN, pos : Positions]

ServerTypeOK ==
  /\ peer \in {"listening", "serving", "mute"}
  /\ linked \in BOOLEAN
  /\ inbuf \in Seq(Kinds)
  /\ running \in Seq(Kinds)
  /\ replies \in Seq(Reply)
  /\ acted \in BOOLEAN
  /\ pos \in Positions

ServerInit ==
  /\ peer = "listening"
  /\ linked = FALSE
  /\ inbuf = <<>>
  /\ running = <<>>
  /\ replies = <<>>
  /\ acted = FALSE
  /\ pos \in Positions

-----------------------------------------------------------------------------
\* READ comm_file(cmd): the task takes the next command.
ServerRead ==
  /\ peer = "serving"
  /\ running = <<>>
  /\ inbuf # <<>>
  /\ running' = <<Head(inbuf)>>
  /\ inbuf' = Tail(inbuf)
  /\ UNCHANGED <<peer, linked, replies, acted, pos>>

\* HANDLE_CMD returns and its response is written.  A response written to a
\* socket the client has closed is lost.  A move that answers 1:... was refused
\* before MAPPDK_MOVE was called; a program can fail after it has moved the arm.
ServerFinish ==
  /\ peer = "serving"
  /\ running # <<>>
  /\ LET k == Head(running) IN
     \E ok \in BOOLEAN :
       /\ pos' \in IF Moving(k) /\ (ok \/ k = "call") THEN Positions ELSE {pos}
       /\ replies' = IF linked
                     THEN Append(replies, [kind |-> k, ok |-> ok, pos |-> pos])
                     ELSE replies
       /\ acted' = IF inbuf = <<>> THEN ok ELSE acted
       \* Some builds stop servicing a socket after mappdkcall.
       /\ peer' \in IF k = "call" THEN {"serving", "mute"} ELSE {"serving"}
  /\ running' = <<>>
  /\ UNCHANGED <<linked, inbuf>>

\* The task finds its client gone: READ leaves cmd uninitialised, CLOSE_COMM,
\* and OPEN_COMM waits for the next client.  Commands received before the
\* client closed may have been read first (ServerRead) or are discarded.
ServerReopen ==
  /\ peer # "listening"
  /\ ~linked
  /\ running = <<>>
  /\ peer' = "listening"
  /\ inbuf' = <<>>
  /\ UNCHANGED <<linked, running, replies, acted, pos>>

\* Controller power cycle or network loss: the session dies, a motion stops
\* wherever the arm then is, and the client is not told.
ServerCrash ==
  /\ peer # "listening"
  /\ peer' = "listening"
  /\ linked' = FALSE
  /\ inbuf' = <<>>
  /\ running' = <<>>
  /\ replies' \in {replies, <<>>}
  /\ pos' \in IF running # <<>> /\ Moving(Head(running)) THEN Positions ELSE {pos}
  /\ UNCHANGED acted

ServerNext == ServerRead \/ ServerFinish \/ ServerReopen \/ ServerCrash
=============================================================================
