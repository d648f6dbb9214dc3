---------------------------- MODULE DriverProofs ----------------------------
(***************************************************************************)
(* What holds of Driver for every set of positions, every choice of gates  *)
(* and every bound.                                                        *)
(***************************************************************************)
EXTENDS Driver, SequenceTheorems, TLAPS

-----------------------------------------------------------------------------
(***************************************************************************)
(* Type correctness.                                                       *)
(***************************************************************************)

LEMMA OperationNames ==
  Operations = {"poll", "absolute", "jog", "waypoint", "program", "write",
                "read", "probe", "none", "connect", "recycle"}
  BY DEF Operations, Plan

LEMMA Plans ==
  /\ Plan["poll"] = <<"curjpos", "curpos">>
  /\ Plan["absolute"] = <<"move">>
  /\ Plan["jog"] = <<"curpos", "move">>
  /\ Plan["waypoint"] = <<"move", "curjpos">>
  /\ Plan["program"] = <<"call">>
  /\ Plan["write"] = <<"write">>
  /\ Plan["read"] = <<"read">>
  /\ Plan["probe"] = <<"curjpos", "curpos">>
  /\ Plan["none"] = <<>>
  /\ Plan["connect"] = <<>>
  /\ Plan["recycle"] = <<>>
  BY DEF Plan, JogPlan

\* Every operation's plan is a sequence of commands.
LEMMA PlanTyped == ASSUME NEW o \in Operations PROVE Plan[o] \in Seq(Kinds)
<1>1. \A k \in Kinds : <<k>> \in Seq(Kinds)
  OBVIOUS
<1>2. \A k, l \in Kinds : <<k, l>> \in Seq(Kinds)
  OBVIOUS
<1>3. <<>> \in Seq(Kinds)
  OBVIOUS
<1>4. {"curjpos", "curpos", "move", "call", "write", "read"} \subseteq Kinds
  BY DEF Kinds, StateQueries, Effects
<1>5. QED
  BY <1>1, <1>2, <1>3, <1>4, OperationNames, Plans

LEMMA MethodTyped == \A k \in Requests : Method(k) \in Operations
  BY OperationNames DEF Method, Requests, Goals

LEMMA InitTyped == Init => TypeOK
<1> SUFFICES ASSUME Init PROVE TypeOK
  OBVIOUS
<1>1. ServerTypeOK
  BY EmptySeq DEF Init, ServerInit, ServerTypeOK
<1>2. ClientTypeOK
  BY EmptySeq, OperationNames DEF Init, ClientInit, ClientTypeOK, Threads
<1>3. QED
  BY <1>1, <1>2 DEF Init, TypeOK, NodeTypeOK, Nothing, Request

LEMMA ServerNextTyped ==
  ASSUME ServerTypeOK, ServerNext PROVE ServerTypeOK'
<1>1. CASE ServerRead
  BY <1>1 DEF ServerTypeOK, ServerRead
<1>2. CASE ServerFinish
  <2>1. Head(running) \in Kinds
    BY <1>2 DEF ServerTypeOK, ServerFinish
  <2>2. PICK ok \in BOOLEAN :
          /\ pos' \in IF Moving(Head(running)) /\ (ok \/ Head(running) = "call")
                      THEN Positions ELSE {pos}
          /\ replies' = IF linked
                        THEN Append(replies, [kind |-> Head(running), ok |-> ok, pos |-> pos])
                        ELSE replies
          /\ acted' = IF inbuf = <<>> THEN ok ELSE acted
          /\ peer' \in IF Head(running) = "call" THEN {"serving", "mute"} ELSE {"serving"}
    BY <1>2 DEF ServerFinish
  <2>3. [kind |-> Head(running), ok |-> ok, pos |-> pos] \in Reply
    BY <2>1, <2>2 DEF Reply, ServerTypeOK
  <2>4. replies' \in Seq(Reply)
    <3>1. replies \in Seq(Reply)
      BY DEF ServerTypeOK
    <3>2. Append(replies, [kind |-> Head(running), ok |-> ok, pos |-> pos]) \in Seq(Reply)
      BY <2>3, <3>1, AppendProperties
    <3>3. QED
      BY <2>2, <3>1, <3>2
  <2>5. QED
    BY <1>2, <2>2, <2>4 DEF ServerTypeOK, ServerFinish
<1>3. CASE ServerReopen
  BY <1>3 DEF ServerTypeOK, ServerReopen
<1>4. CASE ServerCrash
  BY <1>4, EmptySeq DEF ServerTypeOK, ServerCrash
<1>5. QED
  BY <1>1, <1>2, <1>3, <1>4 DEF ServerNext

\* What the parts of a step leave typed: the session variables and the
\* variables of the lock holder.
SessionTypeOK ==
  /\ connected \in BOOLEAN
  /\ linked \in BOOLEAN
  /\ replies \in Seq(Reply)
  /\ abandoned \in Nat

HolderTypeOK ==
  /\ lock \in Threads \cup {"free"}
  /\ op \in Operations
  /\ todo \in Seq(Kinds)
  /\ awaiting \in BOOLEAN
  /\ ret \in [Threads -> {"none", "ok", "unready", "error"}]

LEMMA CloseSocketTyped == CloseSocket => SessionTypeOK'
<1>1. 0 \in Nat /\ <<>> \in Seq(Reply)
  BY EmptySeq
<1> QED BY <1>1, Zenon DEF CloseSocket, SessionTypeOK

LEMMA LeaveTyped ==
  ASSUME HolderTypeOK, NEW result \in {"none", "ok", "unready", "error"},
         Leave(result)
  PROVE  HolderTypeOK'
  BY EmptySeq, OperationNames DEF HolderTypeOK, Leave

LEMMA GoOnTyped ==
  ASSUME HolderTypeOK, NEW o \in Operations, NEW p \in Seq(Kinds), GoOn(o, p)
  PROVE  HolderTypeOK'
  BY DEF HolderTypeOK, GoOn

LEMMA RaiseTyped ==
  ASSUME SessionTypeOK, HolderTypeOK, NEW atSocket \in BOOLEAN,
         NEW rest \in Seq(Reply), NEW givenUp \in BOOLEAN,
         Raise(atSocket, rest, givenUp)
  PROVE  SessionTypeOK' /\ HolderTypeOK'
<1>1. "recycle" \in Operations /\ <<>> \in Seq(Kinds)
  BY OperationNames, EmptySeq
<1>2. CASE op = "probe"
  BY <1>1, <1>2, CloseSocketTyped, GoOnTyped DEF Raise
<1>3. CASE op # "probe" /\ Resets(atSocket)
  BY <1>3, CloseSocketTyped, LeaveTyped DEF Raise
<1>4. CASE op # "probe" /\ ~Resets(atSocket)
  <2>1. /\ replies' = rest
        /\ abandoned' = IF givenUp /\ Head(todo) # "move" THEN abandoned + 1 ELSE abandoned
        /\ Leave("error")
        /\ UNCHANGED <<connected, linked>>
    BY <1>4 DEF Raise
  <2>2. QED
    BY <2>1, LeaveTyped DEF SessionTypeOK
<1>5. QED
  BY <1>2, <1>3, <1>4

LEMMA AcceptTyped ==
  ASSUME TypeOK, awaiting, todo # <<>>, replies # <<>>,
         Accept(Head(todo), Head(replies))
  PROVE  /\ SessionTypeOK'
         /\ HolderTypeOK'
         /\ read' \in [Threads -> Positions \cup {NoPosition}]
         /\ unbacked' \in BOOLEAN
         /\ unverified' \in BOOLEAN
<1>1. SessionTypeOK /\ HolderTypeOK
  BY DEF TypeOK, ServerTypeOK, ClientTypeOK, SessionTypeOK, HolderTypeOK
<1>2. /\ Head(replies) \in Reply
      /\ Tail(replies) \in Seq(Reply)
      /\ Tail(todo) \in Seq(Kinds)
  BY HeadTailProperties DEF TypeOK, ServerTypeOK, ClientTypeOK
<1>3. read' \in [Threads -> Positions \cup {NoPosition}]
  BY <1>2 DEF TypeOK, ClientTypeOK, Accept, Reply
<1>4. unbacked' \in BOOLEAN /\ unverified' \in BOOLEAN
  BY DEF TypeOK, ClientTypeOK, ServerTypeOK, Accept
<1>5. CASE op = "program" /\ RecycleAfterProgram
  <2>1. "recycle" \in Operations /\ <<>> \in Seq(Kinds)
    BY OperationNames, EmptySeq
  <2>2. CloseSocket /\ GoOn("recycle", <<>>)
    BY <1>5 DEF Accept
  <2>3. QED
    BY <1>1, <1>3, <1>4, <2>1, <2>2, CloseSocketTyped, GoOnTyped
<1>6. CASE ~(op = "program" /\ RecycleAfterProgram)
  <2>1. /\ replies' = Tail(replies)
        /\ UNCHANGED <<connected, linked, abandoned>>
        /\ IF Tail(todo) = <<>> THEN Leave("ok") ELSE GoOn(op, Tail(todo))
    BY <1>6 DEF Accept
  <2>2. SessionTypeOK'
    BY <1>1, <1>2, <2>1 DEF SessionTypeOK
  <2>3. HolderTypeOK'
    BY <1>1, <1>2, <2>1, LeaveTyped, GoOnTyped DEF HolderTypeOK
  <2>4. QED
    BY <1>3, <1>4, <2>2, <2>3
<1>7. QED
  BY <1>5, <1>6

\* A reply is awaited only for a command, and only the lock holder has an operation.
Paced ==
  /\ awaiting => todo # <<>>
  /\ lock = "free" => op = "none" /\ todo = <<>>

\* TypeOK is inductive once it is known that replies are awaited as above, and that a running trajectory has a point left to command.
TypeInv ==
  /\ TypeOK
  /\ Paced
  /\ task = "trajectory" /\ epc \in {"check", "enter", "inside"} => left > 0

LEMMA BeginTyped ==
  ASSUME TypeInv, NEW t \in Threads, NEW o \in Operations, Begin(t, o)
  PROVE  ServerTypeOK' /\ ClientTypeOK' /\ Paced'
<1>1. Plan[o] \in Seq(Kinds)
  BY PlanTyped
<1>2. ServerTypeOK'
  BY DEF TypeInv, TypeOK, Begin, serverVars, ServerTypeOK
<1>3. ClientTypeOK'
  BY <1>1 DEF TypeInv, TypeOK, Begin, serverVars, ClientTypeOK
<1>4. QED
  BY <1>2, <1>3 DEF TypeInv, TypeOK, ClientTypeOK, Begin, Paced, Threads

\* The steps of the lock holder.
LEMMA HolderNextTyped ==
  ASSUME TypeInv, HolderNext
  PROVE  ServerTypeOK' /\ ClientTypeOK' /\ Paced'
<1>1. SessionTypeOK /\ HolderTypeOK /\ Paced
  BY DEF TypeInv, TypeOK, ServerTypeOK, ClientTypeOK, SessionTypeOK, HolderTypeOK
<1>2. CASE ConnectOk
  <2>1. HolderTypeOK' /\ Paced'
    <3>1. CASE op = "connect"
      BY <1>1, <1>2, <3>1, LeaveTyped DEF ConnectOk, Leave, Paced
    <3>2. CASE op # "connect"
      <4>1. "probe" \in Operations /\ Plan["probe"] \in Seq(Kinds)
        BY OperationNames, PlanTyped
      <4>2. QED
        BY <1>1, <1>2, <3>2, <4>1, GoOnTyped DEF ConnectOk, Probe, GoOn, Paced, TypeInv
    <3>3. QED
      BY <3>1, <3>2
  <2>2. QED
    BY <1>2, <2>1 DEF ConnectOk, TypeInv, TypeOK, ServerTypeOK, ClientTypeOK, HolderTypeOK
<1>3. CASE ConnectFails
  <2>1. HolderTypeOK' /\ Paced'
    BY <1>1, <1>3, LeaveTyped DEF ConnectFails, Leave, Paced
  <2>2. QED
    BY <1>3, <2>1 DEF ConnectFails, TypeInv, TypeOK, ServerTypeOK, ClientTypeOK,
       HolderTypeOK, serverVars
<1>4. CASE Send
  <2>1. Head(todo) \in Kinds
    BY <1>1, <1>4, HeadTailProperties DEF Send, HolderTypeOK
  <2>2. inbuf' \in Seq(Kinds)
    BY <1>4, <2>1, AppendProperties DEF Send, TypeInv, TypeOK, ServerTypeOK
  <2>3. ServerTypeOK'
    BY <1>4, <2>2 DEF Send, TypeInv, TypeOK, ServerTypeOK
  <2>4. dispatched' \in Nat
    BY <1>4 DEF Send, TypeInv, TypeOK, ClientTypeOK
  <2>5. ClientTypeOK'
    BY <1>4, <2>4 DEF Send, TypeInv, TypeOK, ClientTypeOK
  <2>6. Paced'
    BY <1>1, <1>4 DEF Send, Paced
  <2>7. QED
    BY <2>3, <2>5, <2>6
<1>5. CASE Receive
  <2>1. /\ todo # <<>>
        /\ replies # <<>>
        /\ Tail(replies) \in Seq(Reply)
    BY <1>1, <1>5, HeadTailProperties DEF Receive, Paced, SessionTypeOK
  <2>2. CASE Accept(Head(todo), Head(replies))
    <3>1. /\ SessionTypeOK'
          /\ HolderTypeOK'
          /\ read' \in [Threads -> Positions \cup {NoPosition}]
          /\ unbacked' \in BOOLEAN
          /\ unverified' \in BOOLEAN
      BY <1>5, <2>1, <2>2, AcceptTyped DEF Receive, TypeInv
    <3>2. Paced'
      BY <1>1, <2>1, <2>2, <1>5 DEF Accept, Leave, GoOn, Paced, Receive
    <3>3. QED
      BY <1>5, <3>1, <3>2 DEF Receive, TypeInv, TypeOK, ServerTypeOK, ClientTypeOK,
         SessionTypeOK, HolderTypeOK
  <2>3. CASE Raise(FALSE, Tail(replies), FALSE) /\ UNCHANGED <<read, unbacked, unverified>>
    <3>1. SessionTypeOK' /\ HolderTypeOK'
      BY <1>1, <2>1, <2>3, RaiseTyped
    <3>2. Paced'
      BY <1>1, <2>1, <2>3, <1>5 DEF Raise, Leave, GoOn, Paced
    <3>3. QED
      BY <1>5, <2>3, <3>1, <3>2 DEF Receive, TypeInv, TypeOK, ServerTypeOK, ClientTypeOK,
         SessionTypeOK, HolderTypeOK
  <2>4. QED
    BY <1>5, <2>2, <2>3 DEF Receive
<1>6. CASE WaitFails
  <2>1. PICK atSocket \in BOOLEAN : Raise(atSocket, <<>>, linked)
    BY <1>6 DEF WaitFails
  <2>2. linked \in BOOLEAN /\ <<>> \in Seq(Reply)
    BY <1>1, EmptySeq DEF SessionTypeOK
  <2>3. SessionTypeOK' /\ HolderTypeOK'
    BY <1>1, <2>1, <2>2, RaiseTyped
  <2>4. Paced'
    BY <1>1, <1>6, <2>1 DEF WaitFails, Raise, Leave, GoOn, Paced
  <2>5. QED
    BY <1>6, <2>3, <2>4 DEF WaitFails, TypeInv, TypeOK, ServerTypeOK, ClientTypeOK,
       SessionTypeOK, HolderTypeOK
<1>7. CASE RecycleDeadline
  <2>1. HolderTypeOK' /\ Paced'
    BY <1>1, <1>7, LeaveTyped DEF RecycleDeadline, Leave, Paced
  <2>2. QED
    BY <1>7, <2>1 DEF RecycleDeadline, TypeInv, TypeOK, ServerTypeOK, ClientTypeOK,
       HolderTypeOK, serverVars
<1>8. QED
  BY <1>2, <1>3, <1>4, <1>5, <1>6, <1>7 DEF HolderNext

LEMMA BeginConnectTyped ==
  ASSUME TypeInv, NEW t \in Threads, BeginConnect(t)
  PROVE  ServerTypeOK' /\ ClientTypeOK' /\ Paced'
<1>1. ServerTypeOK'
  BY DEF TypeInv, TypeOK, BeginConnect, serverVars, ServerTypeOK
<1>2. ClientTypeOK'
  BY OperationNames DEF TypeInv, TypeOK, BeginConnect, serverVars, ClientTypeOK
<1>3. QED
  BY <1>1, <1>2 DEF TypeInv, TypeOK, ClientTypeOK, BeginConnect, Paced, Threads

LEMMA DisconnectTyped ==
  ASSUME TypeInv, Disconnect
  PROVE  ServerTypeOK' /\ ClientTypeOK' /\ Paced'
<1>1. SessionTypeOK'
  BY CloseSocketTyped DEF Disconnect
<1>2. QED
  BY <1>1 DEF TypeInv, TypeOK, Disconnect, ServerTypeOK, ClientTypeOK, SessionTypeOK, Paced

LEMMA WorkerGotTyped ==
  ASSUME TypeInv, NEW result, WorkerGot(result)
  PROVE  ServerTypeOK' /\ ClientTypeOK' /\ Paced'
<1>1. ServerTypeOK'
  BY DEF TypeInv, TypeOK, WorkerGot, serverVars, ServerTypeOK
<1>2. ClientTypeOK'
  BY DEF TypeInv, TypeOK, WorkerGot, serverVars, ClientTypeOK
<1>3. QED
  BY <1>1, <1>2 DEF TypeInv, WorkerGot, Paced

LEMMA TransportUnchangedTyped ==
  ASSUME TypeInv, UNCHANGED transportVars
  PROVE  ServerTypeOK' /\ ClientTypeOK' /\ Paced'
  BY DEF TypeInv, TypeOK, transportVars, serverVars, clientVars, ServerTypeOK,
     ClientTypeOK, Paced

LEMMA WorkerGoesTyped ==
  ASSUME TypeInv, NEW from, NEW to, WorkerGoes(from, to),
         to \in {"loop", "connect", "connecting", "failed", "poll", "reading",
                "publish", "leave", "backoff", "final", "done"},
         cache' \in Positions \cup {NoPosition},
         ServerTypeOK' /\ ClientTypeOK' /\ Paced'
  PROVE  TypeInv'
<1>1. NodeTypeOK'
  BY DEF TypeInv, TypeOK, NodeTypeOK, WorkerGoes
<1>2. QED
  BY <1>1 DEF TypeInv, TypeOK, NodeTypeOK, WorkerGoes

LEMMA WorkerNextTyped == ASSUME TypeInv, WorkerNext PROVE TypeInv'
<1>1. cache \in Positions \cup {NoPosition} /\ "worker" \in Threads
  BY DEF TypeInv, TypeOK, NodeTypeOK, Threads
<1>2. CASE WorkerLoop
  <2>1. ServerTypeOK' /\ ClientTypeOK' /\ Paced'
    BY <1>2, TransportUnchangedTyped DEF WorkerLoop
  <2>2. QED
    BY <1>1, <1>2, <2>1, WorkerGoesTyped DEF WorkerLoop
<1>3. CASE WorkerConnect
  BY <1>1, <1>3, WorkerGoesTyped, BeginConnectTyped DEF WorkerConnect
<1>4. CASE WorkerNoDependency
  BY <1>1, <1>4, WorkerGoesTyped, TransportUnchangedTyped DEF WorkerNoDependency
<1>5. CASE WorkerConnected
  BY <1>1, <1>5, WorkerGoesTyped, WorkerGotTyped DEF WorkerConnected
<1>6. CASE WorkerNotConnected
  BY <1>1, <1>6, WorkerGoesTyped, WorkerGotTyped DEF WorkerNotConnected
<1>7. CASE WorkerGiveUp
  BY <1>1, <1>7, WorkerGoesTyped, DisconnectTyped DEF WorkerGiveUp
<1>8. CASE WorkerPoll
  <2>1. "poll" \in Operations
    BY OperationNames
  <2>2. CASE stop
    BY <1>1, <1>8, <2>2, WorkerGoesTyped, TransportUnchangedTyped DEF WorkerPoll
  <2>3. CASE ~stop
    BY <1>1, <1>8, <2>1, <2>3, WorkerGoesTyped, BeginTyped DEF WorkerPoll
  <2>4. QED
    BY <2>2, <2>3
<1>9. CASE WorkerHasState
  BY <1>1, <1>9, WorkerGoesTyped, WorkerGotTyped DEF WorkerHasState
<1>10. CASE WorkerPublish
  <2>1. ServerTypeOK' /\ ClientTypeOK' /\ Paced'
    BY <1>10 DEF WorkerPublish, TypeInv, TypeOK, serverVars, ServerTypeOK, ClientTypeOK, Paced
  <2>2. cache' \in Positions \cup {NoPosition}
    BY <1>1, <1>10 DEF WorkerPublish, TypeInv, TypeOK, ClientTypeOK
  <2>3. QED
    BY <1>10, <2>1, <2>2, WorkerGoesTyped DEF WorkerPublish
<1>11. CASE WorkerReadFails
  BY <1>1, <1>11, WorkerGoesTyped, WorkerGotTyped DEF WorkerReadFails
<1>12. CASE WorkerLeave
  BY <1>1, <1>12, WorkerGoesTyped, DisconnectTyped DEF WorkerLeave
<1>13. CASE WorkerBackoff
  BY <1>1, <1>13, WorkerGoesTyped, TransportUnchangedTyped DEF WorkerBackoff
<1>14. CASE WorkerFinal
  BY <1>1, <1>14, WorkerGoesTyped, DisconnectTyped DEF WorkerFinal
<1>15. QED
  BY <1>2, <1>3, <1>4, <1>5, <1>6, <1>7, <1>8, <1>9, <1>10, <1>11, <1>12,
     <1>13, <1>14 DEF WorkerNext

LEMMA ExecutorNextTyped == ASSUME TypeInv, ExecutorNext PROVE TypeInv'
<1>1. NodeTypeOK /\ TypeOK /\ Paced
  BY DEF TypeInv, TypeOK, NodeTypeOK
<1>2. SUFFICES ServerTypeOK' /\ ClientTypeOK' /\ Paced' /\ NodeTypeOK'
                 /\ (task' = "trajectory" /\ epc' \in {"check", "enter", "inside"} => left' > 0)
  BY DEF TypeInv, TypeOK, NodeTypeOK
<1>3. CASE Take
  BY <1>1, <1>3, TransportUnchangedTyped DEF Take, NodeTypeOK, TypeInv
<1>4. CASE AcceptGoal
  BY <1>1, <1>4, TransportUnchangedTyped
     DEF AcceptGoal, NodeTypeOK, TypeInv, Nothing, Request
<1>5. CASE Reject
  BY <1>1, <1>5, TransportUnchangedTyped DEF Reject, NodeTypeOK, TypeInv, Nothing, Request
<1>6. CASE AcceptWrite
  BY <1>1, <1>6, TransportUnchangedTyped
     DEF AcceptWrite, NodeTypeOK, TypeInv, Nothing, Request, Requests
<1>7. CASE AcceptRead
  BY <1>1, <1>7, TransportUnchangedTyped
     DEF AcceptRead, NodeTypeOK, TypeInv, Nothing, Request, Requests
<1>8. CASE StartGoal
  <2>1. CASE goal = "trajectory"
    <3>1. PICK n \in 0 .. MaxWaypoints :
            /\ left' = n
            /\ epc' = IF Runs(n) THEN "check" ELSE "finish"
            /\ verdict' = CASE Runs(n)       -> "none"
                            [] cache # start -> "failure"
                            [] OTHER         -> "success"
      BY <1>8, <2>1 DEF StartGoal
    <3>2. verdict' \in {"none", "success", "failure"}
      BY <3>1
    <3>3. n \in Nat
      BY DriverAssumption
    <3>4. QED
      BY <1>1, <1>8, <2>1, <3>1, <3>2, <3>3, TransportUnchangedTyped
         DEF StartGoal, NodeTypeOK, TypeInv, Runs, Requests
  <2>2. CASE goal # "trajectory"
    BY <1>1, <1>8, <2>2, TransportUnchangedTyped DEF StartGoal, NodeTypeOK, TypeInv, Requests
  <2>3. QED
    BY <2>1, <2>2
<1>9. CASE Check
  BY <1>1, <1>9, TransportUnchangedTyped DEF Check, NodeTypeOK, TypeInv
<1>10. CASE Enter
  <2>1. Method(task) \in Operations
    BY <1>1, OperationNames, MethodTyped DEF NodeTypeOK, Method
  <2>2. ServerTypeOK' /\ ClientTypeOK' /\ Paced'
    BY <1>10, <2>1, BeginTyped DEF Enter, Threads
  <2>3. QED
    BY <1>1, <1>10, <2>2 DEF Enter, NodeTypeOK, TypeInv
<1>11. CASE Return
  <2>1. ServerTypeOK' /\ ClientTypeOK' /\ Paced'
    BY <1>1, <1>11 DEF Return, TypeOK, serverVars, ServerTypeOK, ClientTypeOK, Paced
  <2>2. CASE ret["executor"] = "error"
    BY <1>1, <1>11, <2>1, <2>2 DEF Return, NodeTypeOK, TypeInv
  <2>3. CASE ret["executor"] # "error"
    <3>1. cache' \in Positions \cup {NoPosition}
      <4>1. read["executor"] \in Positions \cup {NoPosition}
        BY <1>1 DEF TypeOK, ClientTypeOK, Threads
      <4>2. QED
        BY <1>1, <1>11, <2>3, <4>1 DEF Return, NodeTypeOK
    <3>2. CASE task = "trajectory"
      <4>1. PICK within \in BOOLEAN :
              /\ left' = left - 1
              /\ epc' = IF within /\ left > 1 THEN "check" ELSE "finish"
              /\ verdict' = CASE ~within              -> "failure"
                              [] within /\ left = 1   -> "success"
                              [] OTHER                -> "none"
        BY <1>11, <2>3, <3>2 DEF Return
      <4>2. left > 0 /\ left \in Nat
        BY <1>1, <1>11, <3>2 DEF Return, TypeInv, NodeTypeOK
      <4>3. verdict' \in {"none", "success", "failure"}
        BY <4>1
      <4>4. epc' \in {"check", "finish"} /\ left' \in Nat /\ (epc' = "check" => left' > 0)
        BY <4>1, <4>2
      <4>5. QED
        BY <1>1, <1>11, <2>1, <3>1, <4>3, <4>4 DEF Return, NodeTypeOK
    <3>3. CASE task # "trajectory"
      BY <1>1, <1>11, <2>1, <2>3, <3>1, <3>3 DEF Return, NodeTypeOK
    <3>4. QED
      BY <3>2, <3>3
  <2>4. QED
    BY <2>2, <2>3
<1>12. CASE Finish
  <2>1. ServerTypeOK' /\ ClientTypeOK' /\ Paced'
    BY <1>1, <1>12 DEF Finish, TypeOK, serverVars, ServerTypeOK, ClientTypeOK, Paced
  <2>2. QED
    BY <1>1, <1>12, <2>1 DEF Finish, NodeTypeOK
<1>13. CASE Joined
  BY <1>1, <1>13, TransportUnchangedTyped DEF Joined, NodeTypeOK
<1>14. QED
  BY <1>3, <1>4, <1>5, <1>6, <1>7, <1>8, <1>9, <1>10, <1>11, <1>12, <1>13
     DEF ExecutorNext

LEMMA ShutdownTyped == ASSUME TypeInv, Shutdown PROVE TypeInv'
<1>1. SessionTypeOK /\ HolderTypeOK /\ NodeTypeOK /\ TypeOK /\ Paced
  BY DEF TypeInv, TypeOK, ServerTypeOK, ClientTypeOK, SessionTypeOK, HolderTypeOK, NodeTypeOK
<1>2. NodeTypeOK' /\ epc' = "joining"
  BY <1>1 DEF Shutdown, NodeTypeOK
<1>3. ServerTypeOK'
  BY <1>1 DEF Shutdown, Interrupt, TypeOK, serverVars, ServerTypeOK
<1>4. HolderTypeOK' /\ Paced' /\ abandoned' \in Nat
  <2>1. CASE lock = "executor"
    <3>1. Leave("none") /\ abandoned' = IF awaiting THEN abandoned + 1 ELSE abandoned
      BY <2>1 DEF Shutdown, Interrupt
    <3>2. abandoned' \in Nat
      BY <1>1, <3>1 DEF SessionTypeOK
    <3> QED BY <1>1, <3>1, <3>2, LeaveTyped DEF Leave, Paced
  <2>2. CASE lock # "executor"
    BY <1>1, <2>2 DEF Shutdown, Interrupt, HolderTypeOK, Paced, SessionTypeOK
  <2>3. QED
    BY <2>1, <2>2
<1>5. ClientTypeOK'
  BY <1>1, <1>4 DEF Shutdown, Interrupt, TypeOK, ClientTypeOK, HolderTypeOK
<1>6. QED
  BY <1>2, <1>3, <1>4, <1>5 DEF TypeInv, TypeOK, NodeTypeOK

LEMMA NextTyped == TypeInv /\ [Next]_vars => TypeInv'
<1> SUFFICES ASSUME TypeInv, [Next]_vars PROVE TypeInv'
  OBVIOUS
<1>1. NodeTypeOK /\ TypeOK /\ Paced
  BY DEF TypeInv, TypeOK, NodeTypeOK
<1>2. CASE WorkerNext
  BY <1>2, WorkerNextTyped
<1>3. CASE ExecutorNext
  BY <1>3, ExecutorNextTyped
<1>4. CASE InTransport
  BY <1>1, <1>4, HolderNextTyped DEF InTransport, nodeVars, TypeInv, TypeOK, NodeTypeOK
<1>5. CASE OnController
  BY <1>1, <1>5, ServerNextTyped
     DEF OnController, clientVars, nodeVars, TypeInv, TypeOK, ClientTypeOK, NodeTypeOK, Paced
<1>6. ASSUME NEW k \in Requests, Arrive(k) PROVE TypeInv'
  BY <1>1, <1>6, TransportUnchangedTyped DEF Arrive, NodeTypeOK, TypeInv, TypeOK, Request
<1>7. CASE Shutdown
  BY <1>7, ShutdownTyped
<1>8. CASE UNCHANGED vars
  BY <1>1, <1>8 DEF vars, serverVars, clientVars, nodeVars, TypeInv, TypeOK, ServerTypeOK,
     ClientTypeOK, NodeTypeOK, Paced
<1>9. QED
  BY <1>2, <1>3, <1>4, <1>5, <1>6, <1>7, <1>8 DEF Next, Stopped

\* Every variable of the driver, the transport and the controller keeps to the
\* values it was meant for, in every interleaving and whatever the bounds.
THEOREM TypeCorrect == Spec => []TypeOK
<1>1. Init => TypeInv
  <2> SUFFICES ASSUME Init PROVE TypeInv
    OBVIOUS
  <2>1. TypeOK
    BY InitTyped
  <2>2. QED
    BY <2>1 DEF Init, ClientInit, TypeInv, Paced
<1>2. TypeInv => TypeOK
  BY DEF TypeInv
<1>3. QED
  BY <1>1, <1>2, NextTyped, PTL DEF Spec

-----------------------------------------------------------------------------
(***************************************************************************)
(* The reservation.                                                        *)
(***************************************************************************)

\* A callback that is between requests runs nothing.
ReservationInv ==
  /\ ReservationMatchesOwner
  /\ epc \in {"idle", "decide", "joining", "done"} => task = "none"
  /\ epc \in {"check", "enter", "inside", "finish"} => task # "none"

LEMMA ReservationKept ==
  ASSUME TypeInv, ReservationInv, UNCHANGED <<epc, goal, task, reserved>>
  PROVE  ReservationInv'
  BY DEF ReservationInv, ReservationMatchesOwner

LEMMA WorkerLeavesExecutor ==
  ASSUME WorkerNext
  PROVE  UNCHANGED <<installed, epc, waiting, goal, task, left, start, verdict,
                     reserved, stop, requests>>
  BY DEF WorkerNext, WorkerGoes, WorkerLoop, WorkerConnect, WorkerNoDependency,
     WorkerConnected, WorkerNotConnected, WorkerGiveUp, WorkerPoll, WorkerHasState,
     WorkerPublish, WorkerReadFails, WorkerLeave, WorkerBackoff, WorkerFinal

LEMMA ReservationInductive ==
  TypeInv /\ ReservationInv /\ [Next]_vars => ReservationInv'
<1> SUFFICES ASSUME TypeInv, ReservationInv, [Next]_vars PROVE ReservationInv'
  OBVIOUS
<1>1. CASE WorkerNext
  BY <1>1, WorkerLeavesExecutor, ReservationKept
<1>2. CASE ExecutorNext
  <2>1. CASE Take
    BY <2>1 DEF Take, ReservationInv, ReservationMatchesOwner
  <2>2. CASE AcceptGoal
    BY <2>2 DEF AcceptGoal, TryReserve, ReservationInv, ReservationMatchesOwner, Goals
  <2>3. CASE Reject
    BY <2>3 DEF Reject, ReservationInv, ReservationMatchesOwner
  <2>4. CASE AcceptWrite
    BY <2>4 DEF AcceptWrite, TryReserve, ReservationInv, ReservationMatchesOwner, Reserving
  <2>5. CASE AcceptRead
    BY <2>5 DEF AcceptRead, ReservationInv, ReservationMatchesOwner, Reserving, Goals
  <2>6. CASE StartGoal
    BY <2>6 DEF StartGoal, ReservationInv, ReservationMatchesOwner, Reserving, TypeInv,
       TypeOK, NodeTypeOK
  <2>7. CASE Check
    BY <2>7 DEF Check, ReservationInv, ReservationMatchesOwner
  <2>8. CASE Enter
    BY <2>8 DEF Enter, ReservationInv, ReservationMatchesOwner
  <2>9. CASE Return
    BY <2>9 DEF Return, ReservationInv, ReservationMatchesOwner
  <2>10. CASE Finish
    BY <2>10 DEF Finish, ReservationInv, ReservationMatchesOwner, Reserving, Goals
  <2>11. CASE Joined
    BY <2>11 DEF Joined, ReservationInv, ReservationMatchesOwner
  <2>12. QED
    BY <1>2, <2>1, <2>2, <2>3, <2>4, <2>5, <2>6, <2>7, <2>8, <2>9, <2>10, <2>11
       DEF ExecutorNext
<1>3. CASE InTransport \/ OnController \/ UNCHANGED vars
  BY <1>3, ReservationKept DEF InTransport, OnController, vars, nodeVars
<1>4. ASSUME NEW k \in Requests, Arrive(k) PROVE ReservationInv'
  BY <1>4, ReservationKept DEF Arrive
<1>5. CASE Shutdown
  BY <1>5 DEF Shutdown, ReservationInv, ReservationMatchesOwner, Reserving, Goals
<1>6. QED
  BY <1>1, <1>2, <1>3, <1>4, <1>5 DEF Next, Stopped

\* The reservation flag is set exactly while one accepted goal or one reserving
\* callback owns the controller: no path of the callbacks loses or doubles it.
THEOREM ReservationCorrect == Spec => []ReservationMatchesOwner
<1>1. Init => TypeInv /\ ReservationInv
  BY InitTyped DEF Init, ClientInit, TypeInv, Paced, ReservationInv,
     ReservationMatchesOwner, Reserving, Goals
<1>2. ReservationInv => ReservationMatchesOwner
  BY DEF ReservationInv
<1>3. QED
  BY <1>1, <1>2, NextTyped, ReservationInductive, PTL DEF Spec

-----------------------------------------------------------------------------
(***************************************************************************)
(* The lock: what its holder is doing.                                     *)
(***************************************************************************)

\* What may be left of the plan of operation o.
Remaining(o) ==
  CASE o \in {"poll", "probe"} -> {<<"curjpos", "curpos">>, <<"curpos">>}
    [] o = "absolute"          -> {<<"move">>}
    [] o = "jog"               -> {<<"curpos", "move">>, <<"move">>}
    [] o = "waypoint"          -> {<<"move", "curjpos">>, <<"curjpos">>}
    [] o = "program"           -> {<<"call">>}
    [] o = "write"             -> {<<"write">>}
    [] o = "read"              -> {<<"read">>}
    [] OTHER                   -> {<<>>}

LockInv ==
  /\ todo \in Remaining(op)
  /\ lock = "worker" => \/ wpc = "connecting" /\ op = "connect"
                        \/ wpc = "reading" /\ op = "poll"
  /\ lock = "executor" => /\ epc = "inside"
                          /\ ret["executor"] = "none"
                          /\ \/ op = Method(task)
                             \/ task = "program" /\ op \in {"recycle", "probe"}
  /\ epc # "inside" => ret["executor"] = "none"
  /\ lock = "worker" \/ wpc \notin {"connecting", "reading"} => ret["worker"] = "none"

LEMMA RemainingPlan == \A o \in Operations : Plan[o] \in Remaining(o)
  BY OperationNames, Plans DEF Remaining

LEMMA RemainingTail ==
  ASSUME NEW o \in Operations, NEW p \in Remaining(o), Tail(p) # <<>>, p # <<>>
  PROVE  Tail(p) \in Remaining(o)
<1>1. /\ Tail(<<"curjpos", "curpos">>) = <<"curpos">>
      /\ Tail(<<"curpos", "move">>) = <<"move">>
      /\ Tail(<<"move", "curjpos">>) = <<"curjpos">>
      /\ \A k : Tail(<<k>>) = <<>>
  OBVIOUS
<1>2. QED
  BY <1>1, OperationNames DEF Remaining

LEMMA NothingRemains == <<>> \in Remaining("none") /\ <<>> \in Remaining("recycle")
  BY DEF Remaining

LEMMA LeaveKeepsLockInv ==
  ASSUME TypeInv, LockInv, NEW result \in {"ok", "unready", "error"}, Leave(result),
         lock # "free", UNCHANGED nodeVars
  PROVE  LockInv'
<1>1. todo' \in Remaining(op')
  BY NothingRemains DEF Leave
<1>2. lock \in Threads /\ ret \in [Threads -> {"none", "ok", "unready", "error"}]
  BY DEF TypeInv, TypeOK, ClientTypeOK
<1>3. QED
  BY <1>1, <1>2 DEF LockInv, Leave, nodeVars, Threads

LEMMA GoOnKeepsLockInv ==
  ASSUME TypeInv, LockInv, NEW o \in Operations, NEW p \in Remaining(o), GoOn(o, p),
         lock # "free", UNCHANGED nodeVars,
         \/ o = op
         \/ o \in {"recycle", "probe"} /\ op \in {"program", "recycle", "probe"}
  PROVE  LockInv'
<1>1. todo' \in Remaining(op')
  BY DEF GoOn
<1>2. op \in {"program", "recycle", "probe"} => lock = "executor" /\ task = "program"
  BY DEF TypeInv, TypeOK, ClientTypeOK, Threads, LockInv, Method, NodeTypeOK, Requests, Goals
<1>3. CASE o = op
  BY <1>1, <1>3 DEF LockInv, GoOn, nodeVars
<1>4. CASE o \in {"recycle", "probe"} /\ op \in {"program", "recycle", "probe"}
  BY <1>1, <1>2, <1>4 DEF LockInv, GoOn, nodeVars
<1>5. QED
  BY <1>3, <1>4

LEMMA RaiseKeepsLockInv ==
  ASSUME TypeInv, LockInv, NEW atSocket, NEW rest, NEW givenUp,
         Raise(atSocket, rest, givenUp), lock # "free", UNCHANGED nodeVars
  PROVE  LockInv'
<1>1. CASE op = "probe"
  BY <1>1, NothingRemains, OperationNames, GoOnKeepsLockInv DEF Raise
<1>2. CASE op # "probe"
  BY <1>2, LeaveKeepsLockInv DEF Raise
<1>3. QED
  BY <1>1, <1>2

LEMMA HolderKeepsLockInv ==
  ASSUME TypeInv, LockInv, InTransport PROVE LockInv'
<1>1. UNCHANGED nodeVars /\ Paced
  BY DEF InTransport, TypeInv
<1>2. CASE ConnectOk
  <2>1. lock # "free"
    BY <1>1, <1>2 DEF ConnectOk, Paced
  <2>2. CASE op = "connect"
    BY <1>1, <1>2, <2>1, <2>2, LeaveKeepsLockInv DEF ConnectOk
  <2>3. CASE op = "recycle"
    BY <1>1, <1>2, <2>1, <2>3, GoOnKeepsLockInv, OperationNames, RemainingPlan DEF ConnectOk, Probe
  <2>4. QED
    BY <1>2, <2>2, <2>3 DEF ConnectOk
<1>3. CASE ConnectFails \/ RecycleDeadline
  BY <1>1, <1>3, LeaveKeepsLockInv DEF ConnectFails, RecycleDeadline, Paced
<1>4. CASE Send
  BY <1>1, <1>4 DEF Send, LockInv, nodeVars
<1>5. CASE Receive
  <2>1. lock # "free" /\ todo # <<>> /\ op \in Operations /\ todo \in Remaining(op)
    BY <1>1, <1>5 DEF Receive, Paced, TypeInv, TypeOK, ClientTypeOK, LockInv
  <2>2. CASE Accept(Head(todo), Head(replies))
    <3>1. CASE op = "program" /\ RecycleAfterProgram
      BY <1>1, <2>1, <2>2, <3>1, NothingRemains, OperationNames, GoOnKeepsLockInv DEF Accept
    <3>2. CASE ~(op = "program" /\ RecycleAfterProgram) /\ Tail(todo) = <<>>
      BY <1>1, <2>1, <2>2, <3>2, LeaveKeepsLockInv DEF Accept
    <3>3. CASE ~(op = "program" /\ RecycleAfterProgram) /\ Tail(todo) # <<>>
      BY <1>1, <2>1, <2>2, <3>3, GoOnKeepsLockInv, RemainingTail DEF Accept
    <3>4. QED
      BY <3>1, <3>2, <3>3
  <2>3. CASE Raise(FALSE, Tail(replies), FALSE)
    BY <1>1, <2>1, <2>3, RaiseKeepsLockInv
  <2>4. QED
    BY <1>5, <2>2, <2>3 DEF Receive
<1>6. CASE WaitFails
  BY <1>1, <1>6, RaiseKeepsLockInv DEF WaitFails, Paced
<1>7. QED
  BY <1>2, <1>3, <1>4, <1>5, <1>6 DEF InTransport, HolderNext

LEMMA WorkerKeepsLockInv ==
  ASSUME TypeInv, LockInv, WorkerNext PROVE LockInv'
<1>1. /\ lock \in Threads \cup {"free"}
      /\ ret \in [Threads -> {"none", "ok", "unready", "error"}]
      /\ Paced
  BY DEF TypeInv, TypeOK, ClientTypeOK
<1>2. /\ UNCHANGED <<epc, task>>
      /\ "poll" \in Operations
  BY WorkerLeavesExecutor, OperationNames
<1>3. CASE WorkerLoop \/ WorkerNoDependency \/ WorkerBackoff
  BY <1>2, <1>3 DEF WorkerLoop, WorkerNoDependency, WorkerBackoff, WorkerGoes, LockInv,
     transportVars, clientVars
<1>4. CASE WorkerConnect
  <2>1. todo' \in Remaining(op')
    BY <1>1, <1>4 DEF WorkerConnect, BeginConnect, Remaining, Paced, LockInv
  <2>2. QED
    BY <1>1, <1>2, <1>4, <2>1 DEF WorkerConnect, BeginConnect, WorkerGoes, LockInv, Threads
<1>5. CASE WorkerConnected \/ WorkerNotConnected \/ WorkerHasState \/ WorkerReadFails
  BY <1>1, <1>2, <1>5 DEF WorkerConnected, WorkerNotConnected, WorkerHasState,
     WorkerReadFails, WorkerGot, WorkerGoes, LockInv, Threads
<1>6. CASE WorkerGiveUp \/ WorkerLeave \/ WorkerFinal
  BY <1>1, <1>2, <1>6 DEF WorkerGiveUp, WorkerLeave, WorkerFinal, Disconnect, WorkerGoes,
     LockInv
<1>7. CASE WorkerPublish
  BY <1>2, <1>7 DEF WorkerPublish, WorkerGoes, LockInv
<1>8. CASE WorkerPoll
  <2>1. CASE stop
    BY <1>2, <1>8, <2>1 DEF WorkerPoll, WorkerGoes, LockInv, transportVars, clientVars
  <2>2. CASE ~stop
    <3>1. todo' \in Remaining(op')
      BY <1>2, <1>8, <2>2, RemainingPlan DEF WorkerPoll, Begin, LockInv
    <3>2. QED
      BY <1>1, <1>2, <1>8, <2>2, <3>1 DEF WorkerPoll, Begin, WorkerGoes, LockInv, Threads
  <2>3. QED
    BY <2>1, <2>2
<1>9. QED
  BY <1>3, <1>4, <1>5, <1>6, <1>7, <1>8 DEF WorkerNext

LEMMA ExecutorKeepsLockInv ==
  ASSUME TypeInv, ReservationInv, LockInv, ExecutorNext PROVE LockInv'
<1>1. /\ lock \in Threads \cup {"free"}
      /\ ret \in [Threads -> {"none", "ok", "unready", "error"}]
  BY DEF TypeInv, TypeOK, ClientTypeOK
<1>2. CASE Take \/ AcceptGoal \/ Reject \/ Joined
  BY <1>2 DEF Take, AcceptGoal, Reject, Joined, LockInv, transportVars, clientVars
<1>3. CASE AcceptWrite \/ AcceptRead \/ StartGoal \/ Check
  BY <1>3 DEF AcceptWrite, AcceptRead, StartGoal, Check, LockInv, transportVars, clientVars
<1>4. CASE Enter
  <2>1. Method(task) \in Operations
    BY OperationNames, MethodTyped DEF TypeInv, TypeOK, NodeTypeOK, Method
  <2>2. todo' \in Remaining(op')
    BY <1>4, <2>1, RemainingPlan DEF Enter, Begin, LockInv
  <2>3. QED
    BY <1>1, <1>4, <2>2 DEF Enter, Begin, LockInv, Threads
<1>5. CASE Return
  BY <1>1, <1>5 DEF Return, LockInv, Threads
<1>6. CASE Finish
  BY <1>6 DEF Finish, LockInv
<1>7. QED
  BY <1>2, <1>3, <1>4, <1>5, <1>6 DEF ExecutorNext

LEMMA LockInductive ==
  TypeInv /\ ReservationInv /\ LockInv /\ [Next]_vars => LockInv'
<1> SUFFICES ASSUME TypeInv, ReservationInv, LockInv, [Next]_vars PROVE LockInv'
  OBVIOUS
<1>1. ASSUME NEW k \in Requests, Arrive(k) PROVE LockInv'
  BY <1>1 DEF Arrive, LockInv, transportVars, clientVars
<1>2. CASE OnController \/ UNCHANGED vars
  BY <1>2 DEF OnController, vars, clientVars, nodeVars, LockInv
<1>3. CASE Shutdown
  <2>1. /\ lock \in Threads \cup {"free"}
        /\ ret \in [Threads -> {"none", "ok", "unready", "error"}]
    BY DEF TypeInv, TypeOK, ClientTypeOK
  <2>2. CASE lock = "executor"
    BY <1>3, <2>1, <2>2, NothingRemains DEF Shutdown, Interrupt, Leave, LockInv, Threads
  <2>3. CASE lock # "executor"
    BY <1>3, <2>1, <2>3 DEF Shutdown, Interrupt, LockInv, Threads
  <2>4. QED
    BY <2>2, <2>3
<1>4. QED
  BY <1>1, <1>2, <1>3, HolderKeepsLockInv, WorkerKeepsLockInv, ExecutorKeepsLockInv
     DEF Next, Stopped

-----------------------------------------------------------------------------
(***************************************************************************)
(* The budget of effects.                                                  *)
(***************************************************************************)

\* The operation under way has an effect still to send.
Unsent ==
  \/ todo = <<"curpos", "move">>
  \/ todo # <<>> /\ Head(todo) \in Effects /\ ~awaiting

\* The effects sent for the owner and those it may still send are within its
\* limit.
BudgetInv ==
  /\ task \in {"none", "read"} => dispatched = 0
  /\ task # "trajectory" =>
       (epc \in {"check", "enter"} \/ (epc = "inside" /\ Unsent) => dispatched = 0)
  /\ task = "trajectory" =>
       /\ epc \in {"check", "enter"} => dispatched + left <= MaxWaypoints
       /\ epc = "inside" => dispatched + left <= MaxWaypoints + (IF Unsent THEN 0 ELSE 1)

\* Only a reserving callback of the executor sends effects.
LEMMA UnsentOwner ==
  ASSUME TypeInv, LockInv, Unsent
  PROVE  /\ lock = "executor"
         /\ epc = "inside"
         /\ task \in Reserving
         /\ op = Method(task)
<1>1. /\ todo \in Remaining(op) /\ op \in Operations
      /\ lock \in Threads \cup {"free"}
      /\ task \in Requests \cup {"none"}
      /\ Paced
  BY DEF TypeInv, TypeOK, ClientTypeOK, NodeTypeOK, LockInv
<1>2. op \in {"absolute", "jog", "waypoint", "program", "write"}
  BY <1>1, OperationNames DEF Remaining, Unsent, Effects
<1>3. lock = "executor" /\ epc = "inside"
  BY <1>1, <1>2 DEF LockInv, Threads, Paced
<1>4. op = Method(task)
  BY <1>2, <1>3 DEF LockInv
<1>5. task \in Reserving
  BY <1>1, <1>2, <1>4 DEF Method, Requests, Reserving, Goals
<1>6. QED
  BY <1>3, <1>4, <1>5

LEMMA BudgetKept ==
  ASSUME TypeInv, BudgetInv, UNCHANGED <<epc, task, left, dispatched>>, Unsent' => Unsent
  PROVE  BudgetInv'
<1>1. left \in Nat /\ dispatched \in Nat /\ MaxWaypoints \in Nat
  BY DriverAssumption DEF TypeInv, TypeOK, NodeTypeOK, ClientTypeOK
<1>2. CASE task = "trajectory"
  BY <1>1, <1>2 DEF BudgetInv
<1>3. CASE task # "trajectory"
  BY <1>3 DEF BudgetInv
<1>4. QED
  BY <1>2, <1>3

LEMMA HolderKeepsBudget ==
  ASSUME TypeInv, ReservationInv, LockInv, BudgetInv, InTransport PROVE BudgetInv'
<1>1. UNCHANGED <<epc, task, left>> /\ Paced /\ todo \in Remaining(op) /\ op \in Operations
  BY DEF InTransport, nodeVars, TypeInv, LockInv, TypeOK, ClientTypeOK
<1>2. CASE todo' = <<>>
  <2>1. ~Unsent'
    BY <1>2 DEF Unsent
  <2>2. CASE Send
    BY <1>2, <2>2 DEF Send
  <2>3. CASE ~Send
    <3>1. dispatched' = dispatched
      BY <2>3 DEF InTransport, HolderNext, ConnectOk, ConnectFails, Receive, WaitFails,
         RecycleDeadline
    <3>2. QED
      BY <1>1, <2>1, <3>1, BudgetKept
  <2>4. QED
    BY <2>2, <2>3
<1>3. CASE Send
  <2>1. CASE Head(todo) \in Effects
    <3>1. Unsent /\ dispatched' = dispatched + 1 /\ awaiting' /\ todo' = todo
      BY <1>3, <2>1 DEF Send, Unsent
    <3>2. lock = "executor" /\ epc = "inside" /\ task \in Reserving /\ op = Method(task)
      BY <3>1, UnsentOwner
    <3>3. ~Unsent'
      <4>1. todo # <<"curpos", "move">>
        BY <2>1 DEF Effects
      <4>2. QED
        BY <3>1, <4>1 DEF Unsent
    <3>4. left \in Nat /\ dispatched \in Nat /\ MaxWaypoints \in Nat
      BY DriverAssumption DEF TypeInv, TypeOK, NodeTypeOK, ClientTypeOK
    <3>5. QED
      BY <1>1, <3>1, <3>2, <3>3, <3>4 DEF BudgetInv, Reserving, Goals
  <2>2. CASE Head(todo) \notin Effects
    BY <1>1, <1>3, <2>2, BudgetKept DEF Send, Unsent
  <2>3. QED
    BY <2>1, <2>2
<1>4. CASE Receive /\ todo' # <<>>
  <2>1. dispatched' = dispatched /\ Accept(Head(todo), Head(replies)) /\ todo' = Tail(todo)
    BY <1>4 DEF Receive, Accept, Raise, Leave, GoOn
  <2>2. Unsent' => todo = <<"curpos", "move">>
    BY <1>1, <1>4, <2>1, OperationNames DEF Remaining, Unsent, Effects
  <2>3. QED
    BY <1>1, <2>1, <2>2, BudgetKept DEF Unsent
<1>5. CASE ConnectOk /\ todo' # <<>>
  <2>1. dispatched' = dispatched /\ todo' = <<"curjpos", "curpos">>
    BY <1>5, Plans DEF ConnectOk, Probe, GoOn, Leave
  <2>2. ~Unsent'
    BY <2>1 DEF Unsent, Effects
  <2>3. QED
    BY <1>1, <2>1, <2>2, BudgetKept
<1>6. ConnectFails \/ RecycleDeadline => todo' = <<>>
  BY DEF ConnectFails, RecycleDeadline, Leave
<1>7. ASSUME WaitFails PROVE todo' = <<>>
  <2>1. PICK atSocket : Raise(atSocket, <<>>, linked)
    BY <1>7 DEF WaitFails
  <2>2. CASE op = "probe"
    BY <2>1, <2>2 DEF Raise, GoOn
  <2>3. CASE op # "probe"
    BY <2>1, <2>3 DEF Raise, Leave
  <2>4. QED
    BY <2>2, <2>3
<1>8. QED
  BY <1>2, <1>3, <1>4, <1>5, <1>6, <1>7 DEF InTransport, HolderNext

LEMMA BudgetInductive ==
  TypeInv /\ ReservationInv /\ LockInv /\ BudgetInv /\ [Next]_vars => BudgetInv'
<1> SUFFICES ASSUME TypeInv, ReservationInv, LockInv, BudgetInv, [Next]_vars
             PROVE  BudgetInv'
  OBVIOUS
<1>1. /\ left \in Nat /\ dispatched \in Nat /\ MaxWaypoints \in Nat
      /\ task \in Requests \cup {"none"}
      /\ Paced
  BY DriverAssumption DEF TypeInv, TypeOK, NodeTypeOK, ClientTypeOK
<1>2. CASE InTransport
  BY <1>2, HolderKeepsBudget
<1>3. CASE WorkerNext
  <2>1. UNCHANGED <<epc, task, left, dispatched>>
    BY <1>3, WorkerLeavesExecutor DEF WorkerNext, WorkerLoop, WorkerConnect, WorkerNoDependency,
       WorkerConnected, WorkerNotConnected, WorkerGiveUp, WorkerPoll, WorkerHasState,
       WorkerPublish, WorkerReadFails, WorkerLeave, WorkerBackoff, WorkerFinal,
       transportVars, clientVars, BeginConnect, Begin, WorkerGot, Disconnect
  <2>2. todo' \in {todo, Plan["poll"]} /\ awaiting' = awaiting
    BY <1>3 DEF WorkerNext, WorkerLoop, WorkerConnect, WorkerNoDependency,
       WorkerConnected, WorkerNotConnected, WorkerGiveUp, WorkerPoll, WorkerHasState,
       WorkerPublish, WorkerReadFails, WorkerLeave, WorkerBackoff, WorkerFinal,
       transportVars, clientVars, BeginConnect, Begin, WorkerGot, Disconnect
  <2>3. Unsent' => Unsent
    BY <2>2, Plans DEF Unsent, Effects
  <2>4. QED
    BY <2>1, <2>3, BudgetKept
<1>4. CASE ExecutorNext
  <2>1. CASE Take \/ AcceptGoal \/ Reject \/ AcceptWrite \/ AcceptRead \/ Joined
    BY <1>1, <2>1 DEF Take, AcceptGoal, Reject, AcceptWrite, AcceptRead, Joined, BudgetInv,
       ReservationInv, transportVars, clientVars
  <2>2. CASE StartGoal
    <3>1. dispatched = 0 /\ dispatched' = 0 /\ epc' \in {"check", "finish"}
      BY <2>2 DEF StartGoal, ReservationInv, BudgetInv, transportVars, clientVars
    <3>2. task' = "trajectory" => left' \in 0 .. MaxWaypoints
      BY <2>2 DEF StartGoal
    <3>3. QED
      BY <1>1, <3>1, <3>2 DEF BudgetInv
  <2>3. CASE Check
    BY <1>1, <2>3 DEF Check, BudgetInv, transportVars, clientVars
  <2>4. CASE Enter
    <3>1. /\ epc = "enter" /\ epc' = "inside"
          /\ UNCHANGED <<task, left, dispatched>>
      BY <2>4 DEF Enter, Begin
    <3>2. task = "none" => FALSE
      BY <3>1 DEF ReservationInv
    <3>3. QED
      BY <1>1, <3>1, <3>2 DEF BudgetInv
  <2>5. CASE Return
    <3>1. /\ epc = "inside" /\ epc' \in {"check", "finish"}
          /\ UNCHANGED <<task, dispatched>>
          /\ epc' = "check" => task = "trajectory" /\ left' = left - 1
      BY <2>5 DEF Return
    <3>2. QED
      BY <1>1, <3>1 DEF BudgetInv
  <2>6. CASE Finish
    BY <1>1, <2>6 DEF Finish, BudgetInv
  <2>7. QED
    BY <1>4, <2>1, <2>2, <2>3, <2>4, <2>5, <2>6 DEF ExecutorNext
<1>5. CASE OnController \/ UNCHANGED vars
  BY <1>5, BudgetKept DEF OnController, vars, clientVars, nodeVars, Unsent
<1>6. ASSUME NEW k \in Requests, Arrive(k) PROVE BudgetInv'
  BY <1>6, BudgetKept DEF Arrive, transportVars, clientVars, Unsent
<1>7. CASE Shutdown
  BY <1>1, <1>7 DEF Shutdown, Interrupt, BudgetInv
<1>8. QED
  BY <1>2, <1>3, <1>4, <1>5, <1>6, <1>7 DEF Next, Stopped

-----------------------------------------------------------------------------
(***************************************************************************)
(* Driver implements CommandOwnership.                                     *)
(***************************************************************************)
DriverInv == TypeInv /\ ReservationInv /\ LockInv /\ BudgetInv

LEMMA DriverInvInit == Init => DriverInv
<1> SUFFICES ASSUME Init PROVE DriverInv
  OBVIOUS
<1>1. TypeInv
  BY InitTyped DEF Init, ClientInit, TypeInv, Paced
<1>2. ReservationInv
  BY DEF Init, ReservationInv, ReservationMatchesOwner, Reserving, Goals
<1>3. LockInv
  BY NothingRemains DEF Init, ClientInit, LockInv, Threads
<1>4. BudgetInv
  BY DEF Init, ClientInit, BudgetInv
<1>5. QED
  BY <1>1, <1>2, <1>3, <1>4 DEF DriverInv

LEMMA DriverInvNext == DriverInv /\ [Next]_vars => DriverInv'
  BY NextTyped, ReservationInductive, LockInductive, BudgetInductive DEF DriverInv

\* A step that leaves the callbacks where they are and sends no effect.
LEMMA OwnerKept ==
  ASSUME UNCHANGED <<goal, task, dispatched>>
  PROVE  UNCHANGED Ownership!ownershipVars
  BY DEF Ownership!ownershipVars, Owner

LEMMA SendRefines ==
  ASSUME DriverInv, Send, UNCHANGED nodeVars
  PROVE  [Ownership!Next]_(Ownership!ownershipVars)
<1>1. CASE Head(todo) \in Effects
  <2>1. Unsent /\ dispatched' = dispatched + 1
    BY <1>1 DEF Send, Unsent
  <2>2. epc = "inside" /\ task \in Reserving
    BY <2>1, UnsentOwner DEF DriverInv
  <2>3. Owner = task /\ Owner' = Owner /\ Owner # "none"
    BY <2>2 DEF DriverInv, ReservationInv, ReservationMatchesOwner, Owner, nodeVars, Reserving, Goals
  <2>4. dispatched < EffectLimit[task]
    <3>1. CASE task = "trajectory"
      <4>1. dispatched \in Nat /\ left \in Nat /\ MaxWaypoints \in Nat /\ left > 0
        BY <2>2, <3>1, DriverAssumption
           DEF DriverInv, TypeInv, TypeOK, NodeTypeOK, ClientTypeOK
      <4>2. QED
        BY <2>1, <2>2, <3>1, <4>1 DEF DriverInv, BudgetInv, EffectLimit
    <3>2. CASE task # "trajectory"
      BY <2>1, <2>2, <3>2 DEF DriverInv, BudgetInv, EffectLimit
    <3>3. QED
      BY <3>1, <3>2
  <2>5. Ownership!Act
    BY <2>1, <2>3, <2>4 DEF Ownership!Act
  <2>6. QED
    BY <2>5 DEF Ownership!Next
<1>2. CASE Head(todo) \notin Effects
  BY <1>2, OwnerKept DEF Send, nodeVars
<1>3. QED
  BY <1>1, <1>2

LEMMA StepRefines ==
  ASSUME DriverInv, [Next]_vars
  PROVE  [Ownership!Next]_(Ownership!ownershipVars)
<1>1. /\ goal \in Goals \cup {"none"} /\ task \in Requests \cup {"none"}
      /\ waiting \in Request
  BY DEF DriverInv, TypeInv, TypeOK, NodeTypeOK
<1>2. CASE InTransport
  <2>1. CASE Send
    BY <1>2, <2>1, SendRefines DEF InTransport
  <2>2. CASE ~Send
    <3>1. dispatched' = dispatched
      BY <1>2, <2>2 DEF InTransport, HolderNext, ConnectOk, ConnectFails, Receive, WaitFails,
         RecycleDeadline
    <3>2. QED
      BY <1>2, <3>1, OwnerKept DEF InTransport, nodeVars
  <2>3. QED
    BY <2>1, <2>2
<1>3. CASE WorkerNext
  <2>1. dispatched' = dispatched
    BY <1>3 DEF WorkerNext, WorkerLoop, WorkerConnect, WorkerNoDependency,
       WorkerConnected, WorkerNotConnected, WorkerGiveUp, WorkerPoll, WorkerHasState,
       WorkerPublish, WorkerReadFails, WorkerLeave, WorkerBackoff, WorkerFinal,
       transportVars, clientVars, BeginConnect, Begin, WorkerGot, Disconnect
  <2>2. QED
    BY <1>3, <2>1, WorkerLeavesExecutor, OwnerKept
<1>4. CASE ExecutorNext
  <2>1. CASE AcceptGoal \/ AcceptWrite
    <3>1. /\ Owner = "none"
          /\ Owner' \in Reserving
          /\ dispatched' = dispatched
      BY <1>1, <2>1 DEF AcceptGoal, AcceptWrite, DriverInv, ReservationInv,
         ReservationMatchesOwner, TryReserve, Owner, Reserving, Goals, transportVars, clientVars
    <3>2. \E k \in Reserving : Ownership!Acquire(k)
      BY <3>1 DEF Ownership!Acquire
    <3>3. QED
      BY <3>2 DEF Ownership!Next
  <2>2. CASE StartGoal
    <3>1. Owner' = Owner /\ dispatched' = dispatched
      BY <1>1, <2>2 DEF StartGoal, Owner, Reserving, transportVars, clientVars
    <3>2. QED
      BY <3>1 DEF Ownership!ownershipVars
  <2>3. CASE AcceptRead
    <3>1. Owner' = Owner /\ dispatched' = dispatched
      BY <2>3 DEF AcceptRead, DriverInv, ReservationInv, Owner, Reserving, Goals,
         transportVars, clientVars
    <3>2. QED
      BY <3>1 DEF Ownership!ownershipVars
  <2>4. CASE Finish
    <3>1. CASE task \in Reserving
      <4>1. Owner = task /\ Owner # "none" /\ Owner' = "none" /\ dispatched' = 0
        BY <2>4, <3>1 DEF Finish, DriverInv, ReservationInv, ReservationMatchesOwner, Owner,
           Reserving, Goals
      <4>2. QED
        BY <4>1 DEF Ownership!Release, Ownership!Next
    <3>2. CASE task \notin Reserving
      <4>1. Owner' = Owner
        BY <2>4, <3>2 DEF Finish, Owner, Reserving, Goals
      <4>2. dispatched' = dispatched
        BY <1>1, <2>4, <3>2 DEF Finish, DriverInv, BudgetInv, Requests, Reserving
      <4>3. QED
        BY <4>1, <4>2 DEF Ownership!ownershipVars
    <3>3. QED
      BY <3>1, <3>2
  <2>5. CASE Take \/ Reject \/ Check \/ Enter \/ Return \/ Joined
    BY <2>5, OwnerKept DEF Take, Reject, Check, Enter, Begin, Return, Joined, transportVars,
       clientVars
  <2>6. QED
    BY <1>4, <2>1, <2>2, <2>3, <2>4, <2>5 DEF ExecutorNext
<1>5. CASE Shutdown
  <2>1. CASE task \in Reserving
    <3>1. Owner = task /\ Owner # "none" /\ Owner' = "none" /\ dispatched' = 0
      BY <1>5, <2>1 DEF Shutdown, Interrupt, DriverInv, ReservationInv,
         ReservationMatchesOwner, Owner, Reserving, Goals
    <3>2. QED
      BY <3>1 DEF Ownership!Release, Ownership!Next
  <2>2. CASE task \notin Reserving
    <3>1. Owner' = Owner
      BY <1>5, <2>2 DEF Shutdown, Owner, Reserving, Goals
    <3>2. dispatched' = dispatched
      BY <1>1, <1>5, <2>2 DEF Shutdown, Interrupt, DriverInv, BudgetInv, Requests, Reserving
    <3>3. QED
      BY <3>1, <3>2 DEF Ownership!ownershipVars
  <2>3. QED
    BY <2>1, <2>2
<1>6. ASSUME NEW k \in Requests, Arrive(k) PROVE UNCHANGED Ownership!ownershipVars
  BY <1>6, OwnerKept DEF Arrive, transportVars, clientVars
<1>7. CASE OnController \/ UNCHANGED vars
  BY <1>7, OwnerKept DEF OnController, vars, clientVars, nodeVars
<1>8. QED
  BY <1>2, <1>3, <1>4, <1>5, <1>6, <1>7 DEF Next, Stopped

\* The driver keeps the promise of CommandOwnership: one owner at a time, nothing
\* sent without one, and no effect repeated, whatever is lost or times out.
THEOREM DriverImplementsOwnership == Spec => ImplementsOwnership
<1>1. Init => Ownership!Init
  BY DEF Init, ClientInit, Ownership!Init, Owner, Reserving, Goals
<1>2. QED
  BY <1>1, DriverInvInit, DriverInvNext, StepRefines, PTL
     DEF Spec, ImplementsOwnership, Ownership!Spec

-----------------------------------------------------------------------------
(***************************************************************************)
(* The session, and the two streams of a session.                          *)
(***************************************************************************)

SessionInv ==
  /\ ~connected => ~linked /\ replies = <<>> /\ abandoned = 0
  /\ op \in {"connect", "recycle"} => ~connected
  /\ todo # <<>> => connected
  /\ peer = "listening" => ~linked /\ running = <<>> /\ inbuf = <<>>
  /\ connected /\ ~linked => peer = "listening"

\* The one reply received and not yet taken answers the command awaited.
Answers(r) ==
  /\ r.kind = Head(todo)
  /\ r.ok => acted
  /\ r.kind \in StateQueries => r.pos = pos

\* Where the awaited command is: on its way, being executed, answered, or lost
\* with its session.
InStep ==
  \/ linked /\ inbuf = <<Head(todo)>> /\ running = <<>> /\ replies = <<>>
  \/ linked /\ inbuf = <<>> /\ running = <<Head(todo)>> /\ replies = <<>>
  \/ /\ inbuf = <<>> /\ running = <<>>
     /\ \E r \in Reply : replies = <<r>> /\ Answers(r)
  \/ ~linked /\ inbuf = <<>> /\ running = <<>> /\ replies = <<>>

StreamInv ==
  connected /\ abandoned = 0 =>
    IF awaiting THEN InStep
    ELSE /\ inbuf = <<>> /\ running = <<>> /\ replies = <<>>
         /\ op = "jog" /\ todo = <<"move">> => read["executor"] = pos

\* The states from which the session lemmas start.
WireInv == DriverInv /\ SessionInv /\ StreamInv

LEMMA ServerKeepsSession ==
  ASSUME WireInv, OnController PROVE SessionInv'
<1>1. UNCHANGED <<connected, op, todo, abandoned>>
  BY DEF OnController, clientVars
<1>2. CASE ServerRead
  BY <1>1, <1>2 DEF ServerRead, WireInv, SessionInv
<1>3. CASE ServerFinish
  <2>1. peer # "listening" /\ peer' # "listening" /\ linked' = linked
    BY <1>3 DEF ServerFinish
  <2>2. ~linked => replies' = replies
    BY <1>3 DEF ServerFinish
  <2>3. QED
    BY <1>1, <2>1, <2>2 DEF WireInv, SessionInv, DriverInv, TypeInv, TypeOK, ServerTypeOK
<1>4. CASE ServerReopen
  BY <1>1, <1>4 DEF ServerReopen, WireInv, SessionInv
<1>5. CASE ServerCrash
  BY <1>1, <1>5 DEF ServerCrash, WireInv, SessionInv
<1>6. QED
  BY <1>2, <1>3, <1>4, <1>5 DEF OnController, ServerNext

LEMMA ServerKeepsStream ==
  ASSUME WireInv, OnController PROVE StreamInv'
<1>1. UNCHANGED <<connected, op, todo, abandoned, awaiting, read>>
  BY DEF OnController, clientVars
<1> SUFFICES ASSUME connected, abandoned = 0
             PROVE  IF awaiting THEN InStep'
                    ELSE /\ inbuf' = <<>> /\ running' = <<>> /\ replies' = <<>>
                         /\ op = "jog" /\ todo = <<"move">> => read["executor"] = pos'
  BY <1>1 DEF StreamInv
<1>2. CASE ~awaiting
  <2>1. inbuf = <<>> /\ running = <<>> /\ replies = <<>>
    BY <1>2 DEF WireInv, StreamInv
  <2>2. QED
    BY <1>2, <2>1 DEF OnController, ServerNext, ServerRead, ServerFinish, ServerReopen,
       ServerCrash, WireInv, StreamInv
<1>3. CASE awaiting
  <2>1. InStep /\ SessionInv /\ Head(todo) \in Kinds
    BY <1>3, HeadTailProperties DEF WireInv, StreamInv, DriverInv, TypeInv, TypeOK, ClientTypeOK, Paced
  <2>2. CASE ServerRead
    <3>1. linked /\ inbuf = <<Head(todo)>> /\ running = <<>> /\ replies = <<>>
      BY <2>1, <2>2 DEF InStep, ServerRead
    <3>2. linked' /\ inbuf' = <<>> /\ running' = <<Head(todo)>> /\ replies' = <<>>
      BY <3>1, <2>2 DEF ServerRead
    <3>3. QED
      BY <1>1, <1>3, <3>2 DEF InStep
  <2>3. CASE ServerFinish
    <3>1. linked /\ inbuf = <<>> /\ running = <<Head(todo)>> /\ replies = <<>>
      BY <2>1, <2>3 DEF InStep, ServerFinish
    <3>2. PICK ok \in BOOLEAN :
            /\ pos' \in IF Moving(Head(todo)) /\ (ok \/ Head(todo) = "call")
                        THEN Positions ELSE {pos}
            /\ replies' = <<[kind |-> Head(todo), ok |-> ok, pos |-> pos]>>
            /\ acted' = ok
      BY <2>3, <3>1 DEF ServerFinish
    <3>3. [kind |-> Head(todo), ok |-> ok, pos |-> pos] \in Reply
      BY <2>1, <3>2 DEF Reply, WireInv, DriverInv, TypeInv, TypeOK, ServerTypeOK
    <3>4. PICK r \in Reply : r = [kind |-> Head(todo), ok |-> ok, pos |-> pos]
      BY <3>3
    <3>5. r.kind \in StateQueries => r.pos = pos'
      BY <3>2, <3>4 DEF StateQueries, Moving
    <3>6. Answers(r)'
      BY <1>1, <3>2, <3>4, <3>5 DEF Answers
    <3>7. inbuf' = <<>> /\ running' = <<>> /\ replies' = <<r>>
      BY <2>3, <3>1, <3>2, <3>4 DEF ServerFinish
    <3>8. QED
      BY <1>3, <3>6, <3>7 DEF InStep
  <2>4. CASE ServerReopen
    BY <2>1, <2>4 DEF ServerReopen, SessionInv, WireInv
  <2>5. CASE ServerCrash
    <3>1. ~linked' /\ inbuf' = <<>> /\ running' = <<>>
      BY <2>5 DEF ServerCrash
    <3>2. CASE replies' = <<>>
      BY <1>3, <3>1, <3>2 DEF InStep
    <3>3. CASE replies' # <<>>
      <4>1. replies' = replies /\ acted' = acted
        BY <2>5, <3>3 DEF ServerCrash
      <4>2. running = <<>> /\ \E r \in Reply : replies = <<r>> /\ Answers(r)
        BY <2>1, <3>3, <4>1 DEF InStep
      <4>3. pos' = pos
        BY <2>5, <4>2 DEF ServerCrash
      <4>4. PICK r \in Reply : replies' = <<r>> /\ Answers(r)
        BY <4>1, <4>2
      <4>5. Answers(r)'
        BY <1>1, <4>1, <4>3, <4>4 DEF Answers
      <4>6. QED
        BY <1>3, <3>1, <4>4, <4>5 DEF InStep
    <3>4. QED
      BY <3>2, <3>3
  <2>6. QED
    BY <2>2, <2>3, <2>4, <2>5 DEF OnController, ServerNext
<1>4. QED
  BY <1>2, <1>3

\* Closing the socket leaves nothing to get out of step.
LEMMA CloseSocketKeepsWire ==
  ASSUME WireInv, CloseSocket, UNCHANGED <<peer, inbuf, running>>,
         todo' = <<>>
  PROVE  SessionInv' /\ StreamInv'
<1>1. /\ ~connected' /\ ~linked' /\ replies' = <<>> /\ abandoned' = 0
      /\ peer = "listening" => running = <<>> /\ inbuf = <<>>
  BY DEF CloseSocket, WireInv, SessionInv
<1>2. QED
  BY <1>1 DEF SessionInv, StreamInv

LEMMA AcceptKeepsWire ==
  ASSUME WireInv, Receive, Accept(Head(todo), Head(replies))
  PROVE  SessionInv' /\ StreamInv'
<1>1. /\ todo # <<>> /\ connected /\ awaiting /\ SessionInv
      /\ todo \in Remaining(op) /\ op \in Operations
      /\ UNCHANGED <<peer, inbuf, running, pos>>
  BY DEF Receive, WireInv, DriverInv, TypeInv, TypeOK, ClientTypeOK, Paced, SessionInv, LockInv
<1>2. CASE op = "program" /\ RecycleAfterProgram
  BY <1>1, <1>2, CloseSocketKeepsWire DEF Accept, GoOn
<1>3. CASE ~(op = "program" /\ RecycleAfterProgram)
  <2>1. replies' = Tail(replies) /\ UNCHANGED <<connected, linked, abandoned>>
    BY <1>3 DEF Accept
  <2>2. /\ ~awaiting'
        /\ todo' = Tail(todo)
        /\ op' \in {"none", op}
        /\ op' = op => lock' = lock
    <3>1. CASE Tail(todo) = <<>>
      BY <1>1, <1>3, <3>1 DEF Accept, Leave, WireInv, DriverInv, TypeInv, Paced, Remaining
    <3>2. CASE Tail(todo) # <<>>
      BY <1>3, <3>2 DEF Accept, GoOn
    <3>3. QED
      BY <3>1, <3>2
  <2>3. SessionInv'
    BY <1>1, <2>1, <2>2 DEF SessionInv
  <2>4. ASSUME abandoned = 0
        PROVE  /\ inbuf' = <<>> /\ running' = <<>> /\ replies' = <<>>
               /\ op' = "jog" /\ todo' = <<"move">> => read'["executor"] = pos'
    <3>1. PICK r \in Reply : replies = <<r>> /\ Answers(r) /\ inbuf = <<>> /\ running = <<>>
      BY <1>1, <2>4 DEF WireInv, StreamInv, InStep, Receive
    <3>2. inbuf' = <<>> /\ running' = <<>> /\ replies' = <<>>
      BY <1>1, <2>1, <3>1
    <3>3. ASSUME op' = "jog", todo' = <<"move">> PROVE read'["executor"] = pos'
      <4>1. op = "jog" /\ todo = <<"curpos", "move">>
        <5>1. op = "jog" /\ Tail(todo) = <<"move">>
          BY <2>2, <3>3
        <5>2. todo \in {<<"curpos", "move">>, <<"move">>}
          BY <1>1, <5>1 DEF Remaining
        <5>3. \A k : Tail(<<k>>) = <<>>
          OBVIOUS
        <5>4. \A k : <<>> # <<k>>
          OBVIOUS
        <5>5. todo # <<"move">>
          BY <5>1, <5>3, <5>4, Zenon
        <5>6. QED
          BY <5>1, <5>2, <5>5
      <4>2. lock = "executor"
        BY <1>1, <4>1 DEF WireInv, DriverInv, LockInv, TypeInv, TypeOK, ClientTypeOK, Threads, Paced
      <4>3. r.kind = "curpos" /\ r.pos = pos
        BY <3>1, <4>1 DEF Answers, StateQueries
      <4>4. read' = [read EXCEPT !["executor"] = pos]
        <5>1. Head(replies) = r
          BY <3>1
        <5>2. QED
          BY <4>2, <4>3, <5>1 DEF Accept, StateQueries
      <4>5. read \in [Threads -> Positions \cup {NoPosition}]
        BY DEF WireInv, DriverInv, TypeInv, TypeOK, ClientTypeOK
      <4>6. QED
        BY <1>1, <4>4, <4>5 DEF Threads
    <3>4. QED
      BY <3>2, <3>3
  <2>5. QED
    BY <2>1, <2>2, <2>3, <2>4 DEF StreamInv
<1>4. QED
  BY <1>2, <1>3

LEMMA RaiseKeepsWire ==
  ASSUME WireInv, awaiting, NEW atSocket, NEW rest, NEW givenUp,
         Raise(atSocket, rest, givenUp), UNCHANGED <<peer, inbuf, running>>,
         op # "probe" /\ ~Resets(atSocket) /\ abandoned' = 0
           => inbuf = <<>> /\ running = <<>> /\ rest = <<>>
  PROVE  SessionInv' /\ StreamInv'
<1>1. /\ todo # <<>> /\ connected /\ SessionInv
  BY DEF WireInv, DriverInv, TypeInv, Paced, SessionInv
<1>2. CASE op = "probe"
  BY <1>2, CloseSocketKeepsWire DEF Raise, GoOn
<1>3. CASE op # "probe" /\ Resets(atSocket)
  BY <1>3, CloseSocketKeepsWire DEF Raise, Leave
<1>4. CASE op # "probe" /\ ~Resets(atSocket)
  <2>1. /\ replies' = rest
        /\ UNCHANGED <<connected, linked>>
        /\ todo' = <<>> /\ op' = "none" /\ ~awaiting'
    BY <1>4 DEF Raise, Leave
  <2>2. QED
    BY <1>1, <1>4, <2>1 DEF SessionInv, StreamInv
<1>5. QED
  BY <1>2, <1>3, <1>4

LEMMA HolderKeepsWire ==
  ASSUME WireInv, InTransport PROVE SessionInv' /\ StreamInv'
<1>1. /\ SessionInv /\ StreamInv /\ Paced
      /\ lock \in Threads \cup {"free"} /\ todo \in Remaining(op) /\ op \in Operations
  BY DEF WireInv, DriverInv, TypeInv, TypeOK, ClientTypeOK, LockInv
<1>2. CASE ConnectOk
  <2>1. /\ peer = "listening" /\ ~connected
        /\ peer' = "serving" /\ linked' /\ connected' /\ ~awaiting'
        /\ UNCHANGED <<inbuf, running, replies>>
        /\ op' \in {"none", "probe"}
    BY <1>1, <1>2 DEF ConnectOk, SessionInv, Leave, Probe, GoOn
  <2>2. QED
    BY <1>1, <2>1 DEF SessionInv, StreamInv
<1>3. CASE ConnectFails \/ RecycleDeadline
  <2>1. UNCHANGED <<serverVars, connected, abandoned>> /\ ~connected /\ todo' = <<>> /\ op' = "none"
    BY <1>1, <1>3 DEF ConnectFails, RecycleDeadline, Leave, SessionInv
  <2>2. QED
    BY <1>1, <2>1 DEF SessionInv, StreamInv, serverVars
<1>4. CASE Send
  <2>1. /\ connected /\ awaiting' /\ ~awaiting /\ todo # <<>>
        /\ UNCHANGED <<peer, linked, running, replies, connected, op, todo, abandoned>>
        /\ inbuf' = IF linked THEN Append(inbuf, Head(todo)) ELSE inbuf
    BY <1>1, <1>4 DEF Send, SessionInv
  <2>2. SessionInv'
    BY <1>1, <2>1 DEF SessionInv
  <2>3. ASSUME abandoned = 0 PROVE InStep'
    BY <1>1, <2>1, <2>3 DEF StreamInv, InStep
  <2>4. QED
    BY <2>1, <2>2, <2>3 DEF StreamInv
<1>5. CASE Receive
  <2>1. CASE Raise(FALSE, Tail(replies), FALSE)
    <3>1. awaiting /\ todo # <<>> /\ connected /\ UNCHANGED <<peer, inbuf, running>> /\ replies # <<>>
      BY <1>1, <1>5 DEF Receive, Paced, SessionInv
    <3>2. abandoned = 0 => inbuf = <<>> /\ running = <<>> /\ Tail(replies) = <<>>
      <4>1. abandoned = 0 => inbuf = <<>> /\ running = <<>> /\ \E r \in Reply : replies = <<r>>
        BY <1>1, <3>1 DEF StreamInv, InStep
      <4>2. \A r \in Reply : Tail(<<r>>) = <<>>
        OBVIOUS
      <4>3. QED
        BY <4>1, <4>2
    <3>3. op # "probe" /\ ~Resets(FALSE) /\ abandoned' = 0 => abandoned = 0
      <4>1. op # "probe" /\ ~Resets(FALSE)
              => abandoned' = abandoned
        BY <2>1 DEF Raise
      <4>2. QED
        BY <4>1
    <3>4. QED
      BY <2>1, <3>1, <3>2, <3>3, RaiseKeepsWire
  <2>2. QED
    BY <1>5, <2>1, AcceptKeepsWire DEF Receive
<1>6. CASE WaitFails
  <2>1. PICK atSocket \in IF linked THEN {TRUE} ELSE BOOLEAN : Raise(atSocket, <<>>, linked)
    BY <1>6 DEF WaitFails
  <2>2. awaiting /\ replies = <<>> /\ todo # <<>> /\ connected /\ UNCHANGED <<peer, inbuf, running>>
    BY <1>1, <1>6 DEF WaitFails, Paced, SessionInv
  <2>3. ASSUME op # "probe", ~Resets(atSocket), abandoned' = 0
        PROVE  inbuf = <<>> /\ running = <<>>
    <3>1. abandoned = 0 /\ ~(linked /\ Head(todo) # "move")
      <4>1. abandoned \in Nat
        BY DEF WireInv, DriverInv, TypeInv, TypeOK, ClientTypeOK
      <4>2. abandoned' = IF linked /\ Head(todo) # "move" THEN abandoned + 1 ELSE abandoned
        BY <2>1, <2>3 DEF Raise
      <4> QED BY <2>3, <4>1, <4>2
    <3>2. ~linked
      BY <2>1, <2>3, <3>1 DEF Resets
    <3>3. QED
      BY <1>1, <2>2, <3>2 DEF SessionInv
  <2>4. QED
    BY <2>1, <2>2, <2>3, RaiseKeepsWire
<1>7. QED
  BY <1>2, <1>3, <1>4, <1>5, <1>6 DEF InTransport, HolderNext

LEMMA WireKept ==
  ASSUME WireInv, UNCHANGED <<serverVars, connected, op, todo, awaiting, abandoned>>,
         op = "jog" => read'["executor"] = read["executor"]
  PROVE  SessionInv' /\ StreamInv'
<1>1. SessionInv'
  BY DEF WireInv, SessionInv, serverVars
<1>2. InStep => InStep'
  BY DEF InStep, Answers, serverVars
<1>3. StreamInv'
  BY <1>2 DEF WireInv, StreamInv, serverVars
<1>4. QED
  BY <1>1, <1>3

LEMMA BeginKeepsWire ==
  ASSUME WireInv, NEW t \in Threads, NEW o \in {"poll", "absolute", "jog", "waypoint",
         "program", "write", "read"}, Begin(t, o)
  PROVE  SessionInv' /\ StreamInv'
<1>1. SessionInv /\ StreamInv /\ Paced
  BY DEF WireInv, DriverInv, TypeInv
<1>2. CASE connected
  <2>1. /\ UNCHANGED <<serverVars, connected, awaiting, abandoned>> /\ ~awaiting
        /\ op' = o /\ todo' = Plan[o]
    BY <1>1, <1>2 DEF Begin, Paced
  <2>2. o = "jog" => todo' # <<"move">>
    BY <2>1, Plans
  <2>3. QED
    BY <1>1, <1>2, <2>1, <2>2 DEF SessionInv, StreamInv, serverVars
<1>3. CASE ~connected
  BY <1>3, WireKept DEF Begin
<1>4. QED
  BY <1>2, <1>3

LEMMA BeginConnectKeepsWire ==
  ASSUME WireInv, NEW t \in Threads, BeginConnect(t)
  PROVE  SessionInv' /\ StreamInv'
<1>1. SessionInv /\ StreamInv
  BY DEF WireInv
<1>2. CASE connected
  BY <1>2, WireKept DEF BeginConnect
<1>3. CASE ~connected
  BY <1>1, <1>3 DEF BeginConnect, SessionInv, StreamInv, serverVars
<1>4. QED
  BY <1>2, <1>3

LEMMA DisconnectKeepsWire ==
  ASSUME WireInv, Disconnect
  PROVE  SessionInv' /\ StreamInv'
  BY CloseSocketKeepsWire DEF Disconnect, WireInv, DriverInv, TypeInv, Paced

LEMMA WorkerKeepsWire ==
  ASSUME WireInv, WorkerNext
  PROVE  SessionInv' /\ StreamInv'
<1>1. read \in [Threads -> Positions \cup {NoPosition}] /\ "worker" \in Threads
  BY DEF WireInv, DriverInv, TypeInv, TypeOK, ClientTypeOK, Threads
<1>2. CASE WorkerLoop \/ WorkerNoDependency \/ WorkerBackoff
  BY <1>2, WireKept DEF WorkerLoop, WorkerNoDependency, WorkerBackoff, transportVars, clientVars
<1>3. CASE WorkerConnect
  BY <1>1, <1>3, BeginConnectKeepsWire DEF WorkerConnect
<1>4. CASE WorkerConnected \/ WorkerNotConnected \/ WorkerHasState \/ WorkerReadFails
  <2>1. PICK result : WorkerGot(result)
    BY <1>4 DEF WorkerConnected, WorkerNotConnected, WorkerHasState, WorkerReadFails
  <2>2. read'["executor"] = read["executor"]
    BY <1>1, <2>1 DEF WorkerGot, Threads
  <2>3. QED
    BY <2>1, <2>2, WireKept DEF WorkerGot
<1>5. CASE WorkerGiveUp \/ WorkerLeave \/ WorkerFinal
  BY <1>5, DisconnectKeepsWire DEF WorkerGiveUp, WorkerLeave, WorkerFinal
<1>6. CASE WorkerPoll
  <2>1. CASE stop
    BY <1>6, <2>1, WireKept DEF WorkerPoll, transportVars, clientVars
  <2>2. CASE ~stop
    BY <1>1, <1>6, <2>2, BeginKeepsWire DEF WorkerPoll
  <2>3. QED
    BY <2>1, <2>2
<1>7. CASE WorkerPublish
  <2>1. read'["executor"] = read["executor"]
    BY <1>1, <1>7 DEF WorkerPublish, Threads
  <2>2. QED
    BY <1>7, <2>1, WireKept DEF WorkerPublish
<1>8. QED
  BY <1>2, <1>3, <1>4, <1>5, <1>6, <1>7 DEF WorkerNext

LEMMA ExecutorKeepsWire ==
  ASSUME WireInv, ExecutorNext
  PROVE  SessionInv' /\ StreamInv'
<1>1. CASE Take \/ AcceptGoal \/ Reject \/ AcceptWrite \/ AcceptRead \/ StartGoal \/ Check \/ Joined
  BY <1>1, WireKept DEF Take, AcceptGoal, Reject, AcceptWrite, AcceptRead, StartGoal, Check,
     Joined, transportVars, clientVars
<1>2. CASE Enter
  <2>1. task \in Requests
    BY <1>2 DEF Enter, WireInv, DriverInv, ReservationInv, TypeInv, TypeOK, NodeTypeOK
  <2>2. Method(task) \in {"absolute", "jog", "waypoint", "program", "write", "read"}
    BY <2>1 DEF Requests, Goals, Method
  <2>3. QED
    BY <1>2, <2>2, BeginKeepsWire DEF Enter, Threads
<1>3. CASE Return
  <2>1. lock # "executor"
    BY <1>3 DEF Return, WireInv, DriverInv, LockInv
  <2>2. op # "jog"
    BY <2>1 DEF WireInv, DriverInv, LockInv, TypeInv, TypeOK, ClientTypeOK, Threads, Paced
  <2>3. QED
    BY <1>3, <2>2, WireKept DEF Return
<1>4. CASE Finish
  BY <1>4, WireKept DEF Finish
<1>5. QED
  BY <1>1, <1>2, <1>3, <1>4 DEF ExecutorNext

LEMMA ShutdownKeepsWire ==
  ASSUME WireInv, Shutdown
  PROVE  SessionInv' /\ StreamInv'
<1>1. SessionInv /\ StreamInv /\ Paced /\ UNCHANGED <<serverVars, connected>>
      /\ abandoned \in Nat /\ awaiting \in BOOLEAN
      /\ lock \in Threads \cup {"free"}
  BY DEF WireInv, DriverInv, TypeInv, TypeOK, ClientTypeOK, Shutdown, Interrupt
<1>2. CASE lock = "executor"
  <2>1. /\ op' = "none" /\ todo' = <<>> /\ ~awaiting'
        /\ abandoned' = IF awaiting THEN abandoned + 1 ELSE abandoned
    BY <1>2 DEF Shutdown, Interrupt, Leave
  <2>2. awaiting => connected
    BY <1>1 DEF SessionInv, Paced
  <2>3. QED
    BY <1>1, <2>1, <2>2 DEF SessionInv, StreamInv, serverVars
<1>3. CASE lock # "executor"
  <2>1. op # "jog"
    BY <1>1, <1>3 DEF WireInv, DriverInv, LockInv, Threads, Paced
  <2>2. QED
    BY <1>3, <2>1, WireKept DEF Shutdown, Interrupt
<1>4. QED
  BY <1>2, <1>3

LEMMA WireInductive == WireInv /\ [Next]_vars => WireInv'
<1> SUFFICES ASSUME WireInv, [Next]_vars PROVE SessionInv' /\ StreamInv'
  BY DriverInvNext DEF WireInv
<1>1. ASSUME NEW k \in Requests, Arrive(k) PROVE SessionInv' /\ StreamInv'
  BY <1>1, WireKept DEF Arrive, transportVars, clientVars
<1>2. CASE UNCHANGED vars
  BY <1>2, WireKept DEF vars, clientVars
<1>3. QED
  BY <1>1, <1>2, WorkerKeepsWire, ExecutorKeepsWire, HolderKeepsWire, ShutdownKeepsWire,
     ServerKeepsSession, ServerKeepsStream DEF Next, Stopped

LEMMA WireInit == Init => WireInv
<1> SUFFICES ASSUME Init PROVE SessionInv /\ StreamInv
  BY DriverInvInit DEF WireInv
<1>1. QED
  BY DEF Init, ClientInit, ServerInit, SessionInv, StreamInv

-----------------------------------------------------------------------------
(***************************************************************************)
(* The two streams of a session by number: a reply that was given up stays *)
(* outstanding until its socket is closed.                                 *)
(***************************************************************************)
CountInv ==
  /\ Len(running) <= 1
  /\ linked => Outstanding = IF awaiting THEN abandoned + 1 ELSE abandoned

CountedInv == WireInv /\ CountInv

LEMMA CountKept ==
  ASSUME CountInv, UNCHANGED <<serverVars, awaiting, abandoned>>
  PROVE  CountInv'
  BY DEF CountInv, Outstanding, serverVars

\* A session that is closed has no count to keep.
LEMMA ClosedCounts ==
  ASSUME CountInv, CloseSocket, UNCHANGED running
  PROVE  CountInv'
  BY DEF CountInv, CloseSocket

LEMMA ServerKeepsCount ==
  ASSUME CountedInv, OnController PROVE CountInv'
<1>1. /\ inbuf \in Seq(Kinds) /\ running \in Seq(Kinds) /\ replies \in Seq(Reply)
      /\ CountInv /\ UNCHANGED <<awaiting, abandoned>>
  BY DEF CountedInv, WireInv, DriverInv, TypeInv, TypeOK, ServerTypeOK, OnController, clientVars
<1>2. CASE ServerRead
  <2>1. Len(running) = 0 /\ Len(running') = 1 /\ Len(inbuf') = Len(inbuf) - 1
    BY <1>1, <1>2, HeadTailProperties DEF ServerRead
  <2>2. UNCHANGED <<linked, replies>>
    BY <1>2 DEF ServerRead
  <2>3. Len(inbuf) \in Nat /\ Len(replies) \in Nat
    BY <1>1, LenProperties
  <2> QED BY <1>1, <2>1, <2>2, <2>3 DEF CountInv, Outstanding
<1>3. CASE ServerFinish
  <2>1. PICK r : replies' = IF linked THEN Append(replies, r) ELSE replies
    BY <1>3 DEF ServerFinish
  <2>2. linked => Len(replies') = Len(replies) + 1
    BY <1>1, <2>1
  <2>3. Len(running) = 1 /\ Len(running') = 0
    <3>1. running # <<>> /\ running' = <<>> /\ Len(running) <= 1
      BY <1>1, <1>3 DEF ServerFinish, CountInv
    <3>2. Len(running) \in Nat /\ Len(running) # 0
      BY <1>1, <3>1, LenProperties, EmptySeq
    <3> QED BY <3>1, <3>2
  <2>4. UNCHANGED <<linked, inbuf>>
    BY <1>3 DEF ServerFinish
  <2>5. Len(inbuf) \in Nat /\ Len(replies) \in Nat
    BY <1>1, LenProperties
  <2> QED BY <1>1, <2>2, <2>3, <2>4, <2>5 DEF CountInv, Outstanding
<1>4. CASE ServerReopen \/ ServerCrash
  BY <1>1, <1>4 DEF ServerReopen, ServerCrash, CountInv
<1> QED BY <1>2, <1>3, <1>4 DEF OnController, ServerNext

\* An exception takes the reply out of the stream, or is counted.
LEMMA RaiseCounts ==
  ASSUME CountedInv, awaiting, NEW atSocket, NEW rest, NEW givenUp,
         Raise(atSocket, rest, givenUp), UNCHANGED <<inbuf, running>>,
         op # "probe" /\ ~Resets(atSocket) /\ linked
           => Len(rest) = IF givenUp /\ Head(todo) # "move" THEN Len(replies) ELSE Len(replies) - 1
  PROVE  CountInv'
<1>1. CountInv
  BY DEF CountedInv
<1>2. CASE op = "probe" \/ Resets(atSocket)
  BY <1>1, <1>2, ClosedCounts DEF Raise
<1>3. CASE op # "probe" /\ ~Resets(atSocket)
  <2>1. /\ replies' = rest /\ UNCHANGED linked /\ ~awaiting'
        /\ abandoned' = IF givenUp /\ Head(todo) # "move" THEN abandoned + 1 ELSE abandoned
    BY <1>3 DEF Raise, Leave
  <2>2. Len(inbuf) \in Nat /\ Len(replies) \in Nat /\ Len(running) \in Nat /\ abandoned \in Nat
    BY LenProperties DEF CountedInv, WireInv, DriverInv, TypeInv, TypeOK, ServerTypeOK, ClientTypeOK
  <2> QED BY <1>1, <1>3, <2>1, <2>2 DEF CountInv, Outstanding
<1> QED BY <1>2, <1>3

LEMMA HolderKeepsCount ==
  ASSUME CountedInv, InTransport PROVE CountInv'
<1>1. /\ CountInv /\ SessionInv /\ Paced /\ abandoned \in Nat
      /\ inbuf \in Seq(Kinds) /\ running \in Seq(Kinds) /\ replies \in Seq(Reply)
  BY DEF CountedInv, WireInv, DriverInv, TypeInv, TypeOK, ServerTypeOK, ClientTypeOK
<1>2. Len(inbuf) \in Nat /\ Len(running) \in Nat /\ Len(replies) \in Nat
  BY <1>1, LenProperties
<1>3. CASE ConnectOk
  <2>1. /\ inbuf' = <<>> /\ running' = <<>> /\ replies' = <<>> /\ abandoned' = 0 /\ ~awaiting'
    BY <1>1, <1>3 DEF ConnectOk, SessionInv, Leave, Probe, GoOn
  <2> QED BY <2>1, EmptySeq DEF CountInv, Outstanding
<1>4. CASE ConnectFails \/ RecycleDeadline
  BY <1>1, <1>4 DEF ConnectFails, RecycleDeadline, SessionInv, CountInv, serverVars
<1>5. CASE Send
  <2>1. /\ ~awaiting /\ awaiting' /\ UNCHANGED <<linked, running, replies, abandoned>>
        /\ inbuf' = IF linked THEN Append(inbuf, Head(todo)) ELSE inbuf
    BY <1>5 DEF Send
  <2>2. linked => Len(inbuf') = Len(inbuf) + 1
    BY <1>1, <2>1
  <2> QED BY <1>1, <1>2, <2>1, <2>2 DEF CountInv, Outstanding
<1>6. CASE Receive
  <2>1. awaiting /\ replies # <<>> /\ UNCHANGED <<inbuf, running>>
    BY <1>6 DEF Receive
  <2>2. Len(Tail(replies)) = Len(replies) - 1
    BY <1>1, <2>1, HeadTailProperties
  <2>3. CASE Raise(FALSE, Tail(replies), FALSE)
    BY <2>1, <2>2, <2>3, RaiseCounts
  <2>4. CASE Accept(Head(todo), Head(replies))
    <3>1. CASE op = "program" /\ RecycleAfterProgram
      BY <1>1, <2>1, <2>4, <3>1, ClosedCounts DEF Accept
    <3>2. CASE ~(op = "program" /\ RecycleAfterProgram)
      <4>1. replies' = Tail(replies) /\ UNCHANGED <<linked, abandoned>> /\ ~awaiting'
        BY <2>4, <3>2 DEF Accept, Leave, GoOn
      <4> QED BY <1>1, <1>2, <2>1, <2>2, <4>1 DEF CountInv, Outstanding
    <3> QED BY <3>1, <3>2
  <2> QED BY <1>6, <2>3, <2>4 DEF Receive
<1>7. CASE WaitFails
  <2>1. PICK atSocket \in IF linked THEN {TRUE} ELSE BOOLEAN : Raise(atSocket, <<>>, linked)
    BY <1>7 DEF WaitFails
  <2>2. awaiting /\ replies = <<>> /\ UNCHANGED <<inbuf, running>>
    BY <1>7 DEF WaitFails
  <2>3. linked /\ ~Resets(atSocket) => Head(todo) # "move"
    BY <2>1 DEF Resets
  <2> QED BY <2>1, <2>2, <2>3, RaiseCounts
<1> QED BY <1>3, <1>4, <1>5, <1>6, <1>7 DEF InTransport, HolderNext

LEMMA ThreadsKeepCount ==
  ASSUME CountedInv, WorkerNext \/ ExecutorNext \/ Shutdown PROVE CountInv'
<1>1. CountInv /\ ~connected => ~linked
  BY DEF CountedInv, WireInv, SessionInv
<1>2. CASE WorkerGiveUp \/ WorkerLeave \/ WorkerFinal
  BY <1>2, ClosedCounts DEF CountedInv, WorkerGiveUp, WorkerLeave, WorkerFinal, Disconnect
<1>3. CASE Shutdown
  <2>1. UNCHANGED serverVars /\ CountInv /\ abandoned \in Nat /\ awaiting \in BOOLEAN
    BY <1>3 DEF Shutdown, Interrupt, CountedInv, WireInv, DriverInv, TypeInv, TypeOK, ClientTypeOK
  <2>2. CASE lock = "executor"
    <3>1. ~awaiting' /\ abandoned' = IF awaiting THEN abandoned + 1 ELSE abandoned
      BY <1>3, <2>2 DEF Shutdown, Interrupt, Leave
    <3> QED BY <2>1, <3>1 DEF CountInv, Outstanding, serverVars
  <2>3. CASE lock # "executor"
    BY <1>3, <2>1, <2>3, CountKept DEF Shutdown, Interrupt
  <2> QED BY <2>2, <2>3
<1>4. CASE ExecutorNext
  <2>1. UNCHANGED <<serverVars, awaiting, abandoned>>
    BY <1>4 DEF ExecutorNext, Take, AcceptGoal, Reject, AcceptWrite, AcceptRead, StartGoal,
       Check, Enter, Begin, Return, Finish, Joined, transportVars, clientVars
  <2> QED BY <2>1, CountKept DEF CountedInv
<1>5. CASE WorkerLoop \/ WorkerNoDependency \/ WorkerBackoff \/ WorkerConnect \/ WorkerConnected
           \/ WorkerNotConnected \/ WorkerHasState \/ WorkerReadFails \/ WorkerPoll \/ WorkerPublish
  <2>1. UNCHANGED <<serverVars, awaiting, abandoned>>
    BY <1>5 DEF WorkerLoop, WorkerNoDependency, WorkerBackoff, WorkerConnect, WorkerConnected,
       WorkerNotConnected, WorkerHasState, WorkerReadFails, WorkerPoll, WorkerPublish,
       transportVars, clientVars, BeginConnect, Begin, WorkerGot
  <2> QED BY <2>1, CountKept DEF CountedInv
<1> QED BY <1>2, <1>3, <1>4, <1>5 DEF WorkerNext

LEMMA CountInductive == CountedInv /\ [Next]_vars => CountedInv'
<1> SUFFICES ASSUME CountedInv, [Next]_vars PROVE CountInv'
  BY WireInductive DEF CountedInv
<1>1. ASSUME NEW k \in Requests, Arrive(k) PROVE CountInv'
  BY <1>1, CountKept DEF Arrive, transportVars, clientVars, CountedInv
<1>2. CASE UNCHANGED vars
  BY <1>2, CountKept DEF vars, clientVars, CountedInv
<1> QED BY <1>1, <1>2, ServerKeepsCount, HolderKeepsCount, ThreadsKeepCount DEF Next, Stopped

\* A wrong reply is taken for an effect's only on a socket on which the reply to a
\* short command was given up.
THEOREM RepliesMatched == Spec => MisattributionNeedsTimeout
<1>1. ASSUME WireInv, [Next]_vars PROVE unbacked' /\ ~unbacked => abandoned > 0
  <2> SUFFICES ASSUME unbacked', ~unbacked, abandoned = 0 PROVE FALSE
    <3>1. abandoned \in Nat
      BY <1>1 DEF WireInv, DriverInv, TypeInv, TypeOK, ClientTypeOK
    <3>2. abandoned = 0 \/ abandoned > 0
      BY <3>1
    <3> QED BY <3>2
  <2>1. CASE Receive
    <3>1. /\ awaiting /\ todo # <<>> /\ connected /\ replies # <<>>
      BY <1>1, <2>1 DEF Receive, WireInv, DriverInv, TypeInv, Paced, SessionInv
    <3>2. PICK fits \in Parses(Head(todo), Head(replies)) :
            fits /\ Accept(Head(todo), Head(replies))
      BY <2>1 DEF Receive
    <3>3. Head(replies).ok
      BY <3>2 DEF Parses
    <3>4. ~acted
      BY <3>2 DEF Accept
    <3>5. PICK r \in Reply : replies = <<r>> /\ Answers(r)
      BY <1>1, <3>1 DEF WireInv, StreamInv, InStep
    <3>6. Head(replies) = r
      BY <3>5
    <3>7. QED
      BY <3>3, <3>4, <3>5, <3>6 DEF Answers
  <2>2. CASE ~Receive
    <3>1. unbacked' = unbacked \/ unbacked' = FALSE
      <4>1. CASE InTransport
        BY <2>2, <4>1 DEF InTransport, HolderNext, ConnectOk, ConnectFails, Send, WaitFails,
           RecycleDeadline
      <4>2. CASE WorkerNext
        BY <4>2 DEF WorkerNext, WorkerLoop, WorkerConnect, WorkerNoDependency,
           WorkerConnected, WorkerNotConnected, WorkerGiveUp, WorkerPoll, WorkerHasState,
           WorkerPublish, WorkerReadFails, WorkerLeave, WorkerBackoff, WorkerFinal,
           transportVars, clientVars, BeginConnect, Begin, WorkerGot, Disconnect
      <4>3. CASE ExecutorNext
        BY <4>3 DEF ExecutorNext, Take, AcceptGoal, Reject, AcceptWrite, AcceptRead, StartGoal,
           Check, Enter, Begin, Return, Finish, Joined, transportVars, clientVars
      <4>4. CASE Shutdown
        BY <4>4 DEF Shutdown, Interrupt
      <4>5. CASE OnController \/ UNCHANGED vars \/ \E k \in Requests : Arrive(k)
        BY <4>5 DEF OnController, vars, Arrive, transportVars, clientVars
      <4>6. QED
        BY <1>1, <4>1, <4>2, <4>3, <4>4, <4>5 DEF Next, Stopped
    <3>2. QED
      BY <3>1
  <2>3. QED
    BY <2>1, <2>2
<1>2. QED
  BY <1>1, WireInit, WireInductive, PTL DEF Spec, MisattributionNeedsTimeout

\* An effect is sent on an open session with no more earlier commands unfinished or
\* unanswered than replies were given up on it, and so to an idle controller if none
\* was.
THEOREM EffectsApart == Spec => EffectsDoNotOverlap
<1>1. ASSUME CountedInv, [Next]_vars, EffectSent, linked
      PROVE  Outstanding <= abandoned
  BY <1>1 DEF EffectSent, CountedInv, CountInv, WireInv, DriverInv, TypeInv, TypeOK, ClientTypeOK
<1>2. Init => CountedInv
  BY WireInit, EmptySeq DEF Init, ServerInit, ClientInit, CountedInv, CountInv
<1>3. QED
  BY <1>1, <1>2, CountInductive, PTL DEF Spec, EffectsDoNotOverlap

\* On a session none of whose replies was given up, the move of a jog is computed
\* from where the arm is when it is sent.
THEOREM JogFromLivePose == Spec => JogStartsFromLivePose
<1>1. ASSUME WireInv, [Next]_vars, EffectSent, op = "jog", linked, abandoned = 0
      PROVE  read["executor"] = pos
  <2>1. todo \in {<<"curpos", "move">>, <<"move">>}
    BY <1>1 DEF WireInv, DriverInv, LockInv, Remaining
  <2>2. todo = <<"move">>
    BY <1>1, <2>1 DEF EffectSent, Effects
  <2>3. QED
    BY <1>1, <2>2 DEF EffectSent, WireInv, SessionInv, StreamInv
<1>2. QED
  BY <1>1, WireInit, WireInductive, PTL DEF Spec, JogStartsFromLivePose

-----------------------------------------------------------------------------
(***************************************************************************)
(* The end of the worker.                                                  *)
(***************************************************************************)
EndInv ==
  /\ wpc = "done" => ~connected /\ ~linked
  /\ wpc \in {"final", "done"} => stop \/ ~installed
  /\ stop => epc \in {"joining", "done"}
  /\ ~installed => /\ ~connected /\ lock = "free"
                   /\ wpc \in {"loop", "connect", "final", "done"}

CompleteInv == WireInv /\ EndInv

LEMMA EndKept ==
  ASSUME EndInv, UNCHANGED <<wpc, connected, linked, installed, stop, epc>>,
         lock = "free" => lock' = "free"
  PROVE  EndInv'
  BY DEF EndInv

LEMMA WorkerKeepsEnd ==
  ASSUME CompleteInv, WorkerNext PROVE EndInv'
<1>1. /\ UNCHANGED <<installed, stop, epc>>
      /\ EndInv /\ Paced /\ SessionInv
  BY WorkerLeavesExecutor DEF CompleteInv, WireInv, DriverInv, TypeInv
<1>2. CASE WorkerLoop \/ WorkerNoDependency \/ WorkerBackoff
  BY <1>1, <1>2 DEF WorkerLoop, WorkerNoDependency, WorkerBackoff, WorkerGoes, EndInv,
     transportVars, clientVars, serverVars
<1>3. CASE WorkerConnect
  BY <1>1, <1>3 DEF WorkerConnect, WorkerGoes, BeginConnect, EndInv, serverVars
<1>4. CASE WorkerConnected \/ WorkerNotConnected \/ WorkerHasState \/ WorkerReadFails
  BY <1>1, <1>4 DEF WorkerConnected, WorkerNotConnected, WorkerHasState, WorkerReadFails,
     WorkerGot, WorkerGoes, EndInv, serverVars
<1>5. CASE WorkerGiveUp \/ WorkerLeave \/ WorkerFinal
  BY <1>1, <1>5 DEF WorkerGiveUp, WorkerLeave, WorkerFinal, WorkerGoes, Disconnect,
     CloseSocket, EndInv
<1>6. CASE WorkerPoll
  BY <1>1, <1>6 DEF WorkerPoll, WorkerGoes, Begin, EndInv, transportVars, clientVars, serverVars
<1>7. CASE WorkerPublish
  BY <1>1, <1>7 DEF WorkerPublish, WorkerGoes, EndInv, serverVars
<1>8. QED
  BY <1>2, <1>3, <1>4, <1>5, <1>6, <1>7 DEF WorkerNext

LEMMA HolderKeepsEnd ==
  ASSUME CompleteInv, InTransport PROVE EndInv'
<1>1. /\ UNCHANGED nodeVars /\ EndInv /\ LockInv /\ Paced /\ SessionInv
      /\ lock \in Threads \cup {"free"}
  BY DEF InTransport, CompleteInv, WireInv, DriverInv, TypeInv, TypeOK, ClientTypeOK
<1>2. lock # "free"
  BY <1>1 DEF InTransport, HolderNext, ConnectOk, ConnectFails, Send, Receive, WaitFails,
     RecycleDeadline, Paced
<1>3. wpc \notin {"final", "done"}
  <2>1. CASE lock = "worker"
    BY <1>1, <2>1 DEF LockInv
  <2>2. CASE lock = "executor"
    <3>1. ~stop /\ installed
      BY <1>1, <1>2, <2>2 DEF LockInv, EndInv
    <3>2. QED
      BY <1>1, <3>1 DEF EndInv
  <2>3. QED
    BY <1>1, <1>2, <2>1, <2>2 DEF Threads
<1>4. QED
  BY <1>1, <1>2, <1>3 DEF EndInv, nodeVars

LEMMA ExecutorKeepsEnd ==
  ASSUME CompleteInv, ExecutorNext PROVE EndInv'
<1>1. EndInv
  BY DEF CompleteInv
<1>2. CASE Take \/ AcceptGoal \/ Reject \/ AcceptWrite \/ AcceptRead \/ StartGoal \/ Check \/ Joined
  BY <1>1, <1>2 DEF Take, AcceptGoal, Reject, AcceptWrite, AcceptRead, StartGoal, Check, Joined,
     EndInv, transportVars, clientVars, serverVars
<1>3. CASE Enter
  BY <1>1, <1>3 DEF Enter, Begin, EndInv, serverVars
<1>4. CASE Return \/ Finish
  BY <1>1, <1>4 DEF Return, Finish, EndInv, serverVars
<1>5. QED
  BY <1>2, <1>3, <1>4 DEF ExecutorNext

LEMMA EndInductive == CompleteInv /\ [Next]_vars => CompleteInv'
<1> SUFFICES ASSUME CompleteInv, [Next]_vars PROVE EndInv'
  BY WireInductive DEF CompleteInv
<1>1. EndInv
  BY DEF CompleteInv
<1>2. ASSUME NEW k \in Requests, Arrive(k) PROVE EndInv'
  BY <1>1, <1>2, EndKept DEF Arrive, transportVars, clientVars, serverVars
<1>3. CASE UNCHANGED vars
  BY <1>1, <1>3, EndKept DEF vars, serverVars, clientVars, nodeVars
<1>4. CASE OnController
  BY <1>1, <1>4 DEF OnController, clientVars, nodeVars, ServerNext, ServerRead, ServerFinish,
     ServerReopen, ServerCrash, EndInv
<1>5. CASE Shutdown
  BY <1>1, <1>5 DEF Shutdown, Interrupt, Leave, EndInv, serverVars
<1>6. QED
  BY <1>2, <1>3, <1>4, <1>5, WorkerKeepsEnd, HolderKeepsEnd, ExecutorKeepsEnd DEF Next, Stopped

\* The worker leaves no session open when it ends, whatever the executor was doing
\* when the shutdown interrupted it.
THEOREM WorkerEndsClean == Spec => []WorkerEndsDisconnected
<1>1. Init => CompleteInv
  BY WireInit DEF Init, ClientInit, CompleteInv, EndInv
<1>2. CompleteInv => WorkerEndsDisconnected
  BY DEF CompleteInv, EndInv, WorkerEndsDisconnected
<1>3. QED
  BY <1>1, <1>2, EndInductive, PTL DEF Spec
=============================================================================
