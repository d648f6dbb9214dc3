---------------------------- MODULE MCTrajectory ----------------------------
(***************************************************************************)
(* Instances of TrajectoryController for TLC: two joints, the second one   *)
(* with two places.                                                        *)
(***************************************************************************)
EXTENDS TrajectoryController

MCLower == <<0, 0>>
MCUpper == <<5, 1>>
MCVelocityLimit == <<3, 1>>
MCPositions == {<<a, b>> : a \in 0 .. 5, b \in 0 .. 1}

InOrder == <<1, 2>>
Swapped == <<2, 1>>

At(positions, time) == [positions |-> positions, velocities |-> <<>>, time |-> time]
Going(positions, velocities, time) ==
  [positions |-> positions, velocities |-> velocities, time |-> time]
Plan(names, points) == [names |-> names, points |-> points, supported |-> TRUE]

MCTrajectories == {
  Plan(InOrder, <<At(<<0, 0>>, 0), At(<<2, 0>>, 2), At(<<4, 1>>, 4)>>),
  Plan(Swapped, <<At(<<0, 0>>, 0), Going(<<1, 1>>, <<1, 2>>, 3), At(<<1, 3>>, 9)>>),
  Plan(Swapped, <<At(<<0, 1>>, 0), At(<<1, 0>>, 3)>>),
  Plan(InOrder, <<Going(<<3, 0>>, <<1, 0>>, 0), At(<<2, 1>>, 1)>>),
  Plan(InOrder, <<At(<<5, 1>>, 4)>>),
  \* a step that is too long, times that stand still, a joint named twice, a
  \* position out of range, too many points, a field that must be empty
  Plan(InOrder, <<At(<<1, 0>>, 0), At(<<5, 0>>, 1)>>),
  Plan(InOrder, <<At(<<1, 0>>, 1), At(<<2, 0>>, 1)>>),
  Plan(<<1, 1>>, <<At(<<1, 0>>, 0)>>),
  Plan(Swapped, <<At(<<2, 0>>, 0)>>),
  Plan(InOrder, <<At(<<1, 0>>, 0), At(<<1, 1>>, 1), At(<<2, 1>>, 2), At(<<2, 0>>, 3)>>),
  [Plan(InOrder, <<At(<<1, 0>>, 0)>>) EXCEPT !.supported = FALSE] }
=============================================================================
