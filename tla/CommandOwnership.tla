--------------------------- MODULE CommandOwnership ---------------------------
(***************************************************************************)
(* What the driver promises the controller, whatever its threads do: at    *)
(* most one command owns the robot, nothing acts on the cell without an    *)
(* owner, and a command acts at most as often as it was asked to, so that  *)
(* nothing is repeated automatically after a timeout or a reconnection.    *)
(***************************************************************************)
EXTENDS Naturals

CONSTANTS
  Owners,   \* kinds of commands that own the robot
  Limit     \* Limit[k]: how many effects a command of kind k may send

VARIABLES
  owner,    \* the command that owns the robot, or "none"
  effects   \* effects sent for it

ownershipVars == <<owner, effects>>

Init == owner = "none" /\ effects = 0

Acquire(k) ==
  /\ owner = "none"
  /\ owner' = k
  /\ UNCHANGED effects

Act ==
  /\ owner # "none"
  /\ effects < Limit[owner]
  /\ effects' = effects + 1
  /\ UNCHANGED owner

Release ==
  /\ owner # "none"
  /\ owner' = "none"
  /\ effects' = 0

Next == (\E k \in Owners : Acquire(k)) \/ Act \/ Release

Spec == Init /\ [][Next]_ownershipVars
=============================================================================
