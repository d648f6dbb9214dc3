---------------------------- MODULE MCJointTargets ----------------------------
(***************************************************************************)
(* Instance of JointTargets for TLC: short moves, whose durations are      *)
(* rounded by more than the margin, and long ones.                         *)
(***************************************************************************)
EXTENDS JointTargets

MCLower == <<0, 0>>
MCUpper == <<30, 10>>
MCVelocityLimit == <<1, 2>>
MCPositions == {<<-1, 0>>, <<0, 0>>, <<2, 0>>, <<7, 3>>, <<29, 3>>}
MCPercents == {5, 9}
MCJointPlans ==
  [positions : {<<2, 0>>, <<7, 3>>, <<29, 3>>, <<30, 3>>}, percent : {0, 9}]
  \cup {[positions |-> <<31, 0>>, percent |-> 9], [positions |-> <<7, 3>>, percent |-> 11]}

Other(positions, times) ==
  [names |-> <<2, 1>>, supported |-> TRUE,
   points |-> [i \in DOMAIN positions |->
                 [positions |-> positions[i], velocities |-> <<>>, time |-> times[i]]]]

\* Other clients' goals pass through a point, or begin away from where they end
\* by more than a direct move may be long.
MCTrajectories == ClientTrajectories \cup
  {Other(<<<<0, 0>>, <<3, 1>>, <<3, 7>>>>, <<0, 400, 2000>>),
   Other(<<<<0, 0>>, <<3, 7>>, <<3, 29>>>>, <<0, 2000, 9000>>)}
=============================================================================
