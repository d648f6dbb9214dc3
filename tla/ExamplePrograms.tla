--------------------------- MODULE ExamplePrograms ---------------------------
(***************************************************************************)
(* The assistant hands its terminal to an example program: two inspections *)
(* around the operator's confirmation, the child process, the SIGINT       *)
(* handler and the terminal settings that must come back afterwards.       *)
(*                                                                         *)
(* A Ctrl-C in the terminal reaches every process of its foreground group, *)
(* the assistant and the child alike, at any moment.                       *)
(***************************************************************************)
EXTENDS FiniteSets

CONSTANTS
  Programs,   \* names in the registry
  Nodes,      \* ROS nodes other people start and stop
  Conflicts,  \* conflict_nodes of each program
  Allowed,    \* allowed_examples
  None        \* no program

ASSUME ExamplesAssumption ==
  /\ Conflicts \in [Programs -> SUBSET Nodes]
  /\ Allowed \subseteq Programs
  /\ None \notin Programs

VARIABLES
  place,     \* where the assistant is
  program,   \* the program asked for
  handler,   \* what SIGINT does to the assistant: "raise" or "ignore"
  settings,  \* the terminal's: the assistant's "own" or "changed"
  child,     \* the child process: where it is and what SIGINT does to it
  leaving,   \* a KeyboardInterrupt is on its way out of run_foreground
  nodes,     \* the nodes that run
  graph,     \* the nodes discovery has shown to the assistant
  standing   \* history: running and shown ever since the confirmation

processVars == <<handler, settings, child, leaving>>
graphVars == <<nodes, graph, standing>>
exampleVars == <<place, program, processVars, graphVars>>

Inside == {"opening", "starting", "started", "caught", "waiting", "restoring", "restored"}
NoChild == [at |-> "none", sigint |-> "default"]
Alive == child.at \in {"forked", "running"}

ExampleTypeOK ==
  /\ place \in {"prompt", "preflight", "confirm", "recheck", "ended"} \cup Inside
  /\ program \in Programs \cup {None}
  /\ (program = None) <=> (place \in {"prompt", "ended"})
  /\ handler \in {"raise", "ignore"}
  /\ settings \in {"own", "changed"}
  /\ child \in [at : {"none", "forked", "running", "gone"}, sigint : {"default", "ignore"}]
  /\ leaving \in BOOLEAN
  /\ (handler = "ignore") => place \in Inside
  /\ nodes \subseteq Nodes /\ graph \subseteq Nodes
  /\ standing \subseteq nodes \cap graph

ExampleInit ==
  /\ place = "prompt" /\ program = None
  /\ handler = "raise" /\ settings = "own"
  /\ child = NoChild /\ leaving = FALSE
  /\ nodes \in SUBSET Nodes /\ graph = {} /\ standing = {}

-----------------------------------------------------------------------------
(***************************************************************************)
(* _process_example.                                                       *)
(***************************************************************************)
\* A preview, a missing --execute and a name that is not allowlisted change nothing.
AskExample(p) ==
  /\ place = "prompt"
  /\ p \in Allowed
  /\ place' = "preflight" /\ program' = p
  /\ UNCHANGED <<processVars, graphVars>>

Refused == place' = "prompt" /\ program' = None

\* What the inspection asks of files, driver and feedback may fail at any time;
\* how old that feedback can be is PlannerClient's.
Preflight ==
  /\ place = "preflight"
  /\ \/ /\ Conflicts[program] \cap graph = {}
        /\ place' = "confirm" /\ UNCHANGED program
     \/ Refused
  /\ UNCHANGED <<processVars, graphVars>>

ConfirmExample ==
  /\ place = "confirm"
  /\ \/ place' = "recheck" /\ UNCHANGED program
     \/ Refused
  /\ standing' = nodes \cap graph
  /\ UNCHANGED <<processVars, nodes, graph>>

Recheck ==
  /\ place = "recheck"
  /\ \/ /\ Conflicts[program] \cap graph = {}
        /\ place' = "opening" /\ UNCHANGED program
     \/ Refused
  /\ UNCHANGED <<processVars, graphVars>>

-----------------------------------------------------------------------------
(***************************************************************************)
(* run_foreground.                                                         *)
(***************************************************************************)
\* Not a terminal, or no ros2: nothing has been touched yet.
Unable ==
  /\ place = "opening"
  /\ Refused
  /\ UNCHANGED <<processVars, graphVars>>

\* The terminal and the handler are remembered; Popen begins.
Open ==
  /\ place = "opening"
  /\ place' = "starting" /\ child' = NoChild
  /\ UNCHANGED <<program, handler, settings, leaving, graphVars>>

\* An ignored signal stays ignored in the program a process becomes, a caught
\* one has its default effect.
Fork ==
  /\ place = "starting" /\ child = NoChild
  /\ child' = [at |-> "forked", sigint |-> IF handler = "ignore" THEN "ignore" ELSE "default"]
  /\ UNCHANGED <<place, program, handler, settings, leaving, graphVars>>

\* Popen returns when the child has become the program, or has ended since.
PopenReturns ==
  /\ place = "starting" /\ child.at \in {"running", "gone"}
  /\ place' = "started"
  /\ UNCHANGED <<program, handler, settings, child, leaving, graphVars>>

\* Mutant: a program that could not be started is started again.
PopenRetries ==
  /\ place = "starting" /\ child.at \in {"none", "forked"}
  /\ child' = NoChild
  /\ UNCHANGED <<place, program, handler, settings, leaving, graphVars>>

\* OSError: there is no process to be had, or it could not become the program.
PopenFails ==
  /\ place = "starting" /\ child.at \in {"none", "forked"}
  /\ child' = NoChild
  /\ place' = "restoring"
  /\ UNCHANGED <<program, handler, settings, leaving, graphVars>>

Ignore ==
  /\ place \in {"started", "caught"}
  /\ handler' = "ignore" /\ place' = "waiting"
  /\ UNCHANGED <<program, settings, child, leaving, graphVars>>

\* Mutant: an interrupted launch is not waited for.
WaitUnlessCaught ==
  /\ place \in {"waiting", "caught"} /\ (place = "caught" \/ ~Alive)
  /\ place' = "restoring"
  /\ UNCHANGED <<program, processVars, graphVars>>

Wait ==
  /\ place = "waiting" /\ ~Alive
  /\ place' = "restoring"
  /\ UNCHANGED <<program, processVars, graphVars>>

RestoreTerminal ==
  /\ place = "restoring"
  /\ settings' = "own" /\ place' = "restored"
  /\ UNCHANGED <<program, handler, child, leaving, graphVars>>

RestoreHandler ==
  /\ place = "restored"
  /\ handler' = "raise"
  /\ place' = IF leaving THEN "ended" ELSE "prompt"
  /\ program' = None
  /\ UNCHANGED <<settings, child, leaving, graphVars>>

-----------------------------------------------------------------------------
(***************************************************************************)
(* The child, the keyboard and other people.                               *)
(***************************************************************************)
ChildRuns ==
  /\ child.at = "forked"
  /\ child' = [child EXCEPT !.at = "running"]
  /\ UNCHANGED <<place, program, handler, settings, leaving, graphVars>>

\* It may leave the terminal as it liked it.
ChildChangesTerminal ==
  /\ child.at = "running"
  /\ settings' = "changed"
  /\ UNCHANGED <<place, program, handler, child, leaving, graphVars>>

ChildEnds ==
  /\ Alive
  /\ child' = [child EXCEPT !.at = "gone"]
  /\ UNCHANGED <<place, program, handler, settings, leaving, graphVars>>

\* A child that hears the signal ends, or handles it and goes on: a launch
\* first stops what it has launched.
ChildHears ==
  \/ UNCHANGED child
  \/ /\ Alive /\ child.sigint = "default"
     /\ child' = [child EXCEPT !.at = "gone"]

\* Where a KeyboardInterrupt takes the assistant from each place.
Raised ==
  \/ /\ place \in {"prompt", "preflight", "confirm", "recheck", "opening", "restored"}
     /\ place' = "ended" /\ program' = None
     /\ UNCHANGED leaving
  \/ /\ place = "started"
     /\ place' = "caught"
     /\ UNCHANGED <<program, leaving>>
  \/ /\ place \in {"starting", "caught"}
     /\ place' = "restoring" /\ leaving' = TRUE
     /\ UNCHANGED program
  \/ /\ place = "restoring"
     /\ place' = "restored" /\ leaving' = TRUE
     /\ UNCHANGED program

CtrlC ==
  /\ ChildHears
  /\ IF handler = "raise" /\ place # "ended" THEN Raised ELSE UNCHANGED <<place, program, leaving>>
  /\ UNCHANGED <<handler, settings, graphVars>>

NodeStarts(n) ==
  /\ n \notin nodes
  /\ nodes' = nodes \cup {n}
  /\ UNCHANGED <<place, program, processVars, graph, standing>>

NodeEnds(n) ==
  /\ n \in nodes
  /\ nodes' = nodes \ {n} /\ standing' = standing \ {n}
  /\ UNCHANGED <<place, program, processVars, graph>>

\* Discovery says sooner or later which nodes run.
Discovers(n) ==
  /\ (n \in nodes) # (n \in graph)
  /\ graph' = IF n \in nodes THEN graph \cup {n} ELSE graph \ {n}
  /\ UNCHANGED <<place, program, processVars, nodes, standing>>

Foreground ==
  \/ Unable \/ Open \/ Fork \/ PopenReturns \/ PopenFails
  \/ Ignore \/ Wait \/ RestoreTerminal \/ RestoreHandler

ExampleNext ==
  \/ \E p \in Programs : AskExample(p)
  \/ Preflight \/ ConfirmExample \/ Recheck
  \/ Foreground
  \/ ChildRuns \/ ChildChangesTerminal \/ ChildEnds
  \/ CtrlC
  \/ \E n \in Nodes : NodeStarts(n) \/ NodeEnds(n) \/ Discovers(n)

ExampleSpec == ExampleInit /\ [][ExampleNext]_exampleVars

\* The assistant is not stopped for good, and its system calls return.
ExampleFairSpec == ExampleSpec /\ WF_exampleVars(Foreground)

-----------------------------------------------------------------------------
(***************************************************************************)
(* Properties.                                                             *)
(***************************************************************************)
\* While the assistant asks, or takes prompts that may move the robot, no
\* program it has started is left, and terminal and Ctrl-C are its own again
\* (README.md: "The assistant cannot accept another prompt until it exits").
AloneAtThePrompt ==
  place \notin Inside \cup {"ended"} => ~Alive /\ settings = "own" /\ handler = "raise"

\* Ctrl-C reaches the program: a launch is closed that way.  SIGINT is ignored
\* by the assistant only, whatever was interrupted before.
ChildHearsCtrlC == Alive => child.sigint = "default"

\* No program is started beside a conflicting node that has been running, and
\* shown to the assistant, since before the operator confirmed.
StandingConflictsBlock ==
  [][child' # child /\ child'.at = "forked" => Conflicts[program] \cap standing = {}]_exampleVars

\* A program that ends, or that cannot be started, gives the prompt back or
\* ends the assistant: only a child that goes on keeps the terminal.
BackWhenChildrenEnd == ([]<>~Alive) => []<>(place \notin Inside)

\* Violated.  run_foreground's docstring: "Give the child the terminal until
\* exit".  A Ctrl-C while Popen is starting the child, or a second one before
\* SIGINT is ignored, ends the assistant and leaves the child behind.
TerminalUntilExit == place = "ended" => ~Alive
=============================================================================
