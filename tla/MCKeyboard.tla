------------------------------ MODULE MCKeyboard ------------------------------
(***************************************************************************)
(* An instance of KeyboardTeleop for TLC: a driver with wide limits, one   *)
(* with limits below the smallest steps of the keys, one without motion.   *)
(***************************************************************************)
EXTENDS KeyboardTeleop

Wide == [translation |-> 12, rotation |-> 5, velocity |-> 3]
Tight == [translation |-> 5, rotation |-> 3, velocity |-> 1]

MCConfigurations == {
  [limits |-> Wide, enabled |-> TRUE],
  [limits |-> Tight, enabled |-> TRUE],
  [limits |-> Wide, enabled |-> FALSE] }

MCFirstMaxima == [translation |-> 12, rotation |-> 5, velocity |-> 3]
MCFirstSteps == [translation |-> 10, rotation |-> 5, velocity |-> 3]

MCMotionKeys == {<<2, 1>>, <<6, -1>>}
=============================================================================
