-------------------------------- MODULE MCTasks --------------------------------
(***************************************************************************)
(* Instance of MappdkTasks for TLC: the two tasks and two moves that       *)
(* differ in every setting.                                                *)
(***************************************************************************)
EXTENDS MappdkTasks

MCTasks == {"server", "logger"}
MCMoves == {[vel |-> v, acc |-> v, cnt |-> v, target |-> 10 * v] : v \in {1, 2}}
=============================================================================
