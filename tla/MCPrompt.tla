------------------------------- MODULE MCPrompt -------------------------------
(***************************************************************************)
(* Instance of PromptSession for TLC: a jog, a joint target and a program  *)
(* (a target takes the joint target's path, with another topic), states of *)
(* other joints, a driver whose gates may close, and waits of one unit.    *)
(***************************************************************************)
EXTENDS PromptSession

Jog == [kind |-> "jog", name |-> "up"]
Joint == [kind |-> "joint", name |-> "home"]
Program == [kind |-> "program", name |-> "HOME_P"]

MCTopics == {"cartesian", "joint"}
MCContents == [t \in MCTopics |-> IF t = "joint" THEN {"whole", "foreign"} ELSE {"whole"}]
MCMaxAge == [t \in MCTopics |-> 0]
MCTimeouts == [w \in Waits |-> 1]

MCCommands == {Jog, Joint, Program}

Open == [connected |-> TRUE, permits |-> Commands]
Shut == [connected |-> TRUE, permits |-> {}]
MCStatuses == {Open, Shut}
=============================================================================
