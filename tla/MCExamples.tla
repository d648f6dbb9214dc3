----------------------------- MODULE MCExamples -----------------------------
(***************************************************************************)
(* Instances of ExamplePrograms for TLC.                                   *)
(***************************************************************************)
EXTENDS ExamplePrograms, TLC

\* As in examples.json: one program conflicts with more nodes than the other.
SomeConflicts == ("teleop" :> {"keyboard"}) @@ ("moveit2" :> {"keyboard", "move_group"})
=============================================================================
