------------------------------ MODULE MCAssistant ------------------------------
(***************************************************************************)
(* Instance of AssistantWorkflow for TLC: an object at one of two places   *)
(* too far from each other, or gone, and the arm at the pose above it,     *)
(* which is the drop pose too, or down at the object.                      *)
(***************************************************************************)
EXTENDS AssistantWorkflow

Above == [kind |-> "target", name |-> "above"]
Below == [kind |-> "target", name |-> "below"]
Home == [kind |-> "program", name |-> "HOME_P"]

MCTopics == {"cartesian", "vision"}
MCGone == 0 - 1
MCContents == [t \in MCTopics |-> IF t = "vision" THEN {MCGone, 0, 2} ELSE {"above", "below"}]
MCMaxAge == [t \in MCTopics |-> 0]
MCTimeouts == [w \in Waits |-> 1]
MCCommands == {Above, Below, Home}
MCStages ==
  [w \in {"align", "pick", "drop", "home"} |->
     CASE w = "pick" -> <<Above, Below, Above>>
       [] w = "home" -> <<Home>>
       [] OTHER -> <<Above>>]

Open == [connected |-> TRUE, permits |-> Commands]
MCOpen == {Open}
=============================================================================
