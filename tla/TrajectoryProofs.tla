--------------------------- MODULE TrajectoryProofs ---------------------------
(***************************************************************************)
(* What holds of TrajectoryController for every number of joints, every    *)
(* set of limits and tolerances, and every set of trajectories asked for;  *)
(* and of JointTargets, which is a TrajectoryController with a client, for *)
(* every set of joint targets and every unit of time.                      *)
(***************************************************************************)
EXTENDS JointTargets, FiniteSetTheorems, WellFoundedInduction, TLAPS

-----------------------------------------------------------------------------
(***************************************************************************)
(* The values of a valid trajectory.                                       *)
(***************************************************************************)

\* In a trajectory whose names match, a joint's place is where its name is.
LEMMA PlaceFound ==
  ASSUME NEW t \in RawTrajectory, NamesMatch(t), NEW j \in Joints
  PROVE  Place(t, j) \in 1 .. JointCount /\ t.names[Place(t, j)] = j
<1>1. \E k \in DOMAIN t.names : t.names[k] = j
  BY DEF NamesMatch
<1>2. DOMAIN t.names = 1 .. JointCount
  BY DEF NamesMatch, RawTrajectory
<1>3. QED
  BY <1>1, <1>2 DEF Place

\* And a named value is where the name is.
LEMMA NameFound ==
  ASSUME NEW t \in RawTrajectory, NamesMatch(t), NEW k \in 1 .. JointCount
  PROVE  t.names[k] \in Joints /\ Place(t, t.names[k]) = k
<1>1. DOMAIN t.names = 1 .. JointCount
  BY DEF NamesMatch, RawTrajectory
<1>2. t.names[k] \in Joints
  BY <1>1 DEF NamesMatch
<1>3. QED
  BY <1>1, <1>2, PlaceFound DEF NamesMatch

LEMMA ReorderedTyped ==
  ASSUME NEW t \in RawTrajectory, NamesMatch(t),
         NEW values \in Seq(Int), Len(values) = JointCount
  PROVE  Reordered(t, values) \in JointValues
<1>1. \A j \in Joints : values[Place(t, j)] \in Int
  BY PlaceFound, ValidationAssumption
<1>2. QED
  BY <1>1 DEF Reordered, JointValues

LEMMA PointTyped ==
  ASSUME NEW t \in RawTrajectory, NEW i \in 1 .. Len(t.points)
  PROVE  /\ Len(t.points) \in Nat
         /\ t.points[i] \in RawPoint
  BY DEF RawTrajectory

\* The target of a valid point: typed, and within the limits.
LEMMA TargetTyped ==
  ASSUME NEW t \in RawTrajectory, ValidTrajectory(t), NEW i \in 1 .. Len(t.points)
  PROVE  Target(t, i) \in JointValues /\ Within(Lower, Target(t, i), Upper)
<1>1. /\ NamesMatch(t)
      /\ PointValid(t, i)
  BY DEF ValidTrajectory
<1>2. t.points[i].positions \in Seq(Int) /\ Len(t.points[i].positions) = JointCount
  BY <1>1, PointTyped DEF PointValid, RawPoint
<1>3. QED
  BY <1>1, <1>2, ReorderedTyped DEF Target, PointValid

-----------------------------------------------------------------------------
(***************************************************************************)
(* Speeds.                                                                 *)
(***************************************************************************)

\* A finite nonempty set of integers has a largest member: the set of what is
\* not below it is the smallest such set.
LEMMA LargestExists ==
  ASSUME NEW S \in SUBSET Int, S # {}, IsFiniteSet(S)
  PROVE  Largest(S) \in S /\ \A m \in S : m <= Largest(S)
<1> DEFINE From(n) == {m \in S : n <= m}
           Tails == {From(n) : n \in S}
<1>1. Tails \subseteq FiniteSubsetsOf(S) /\ Tails # {}
  <2>1. \A n \in S : From(n) \in SUBSET S
    OBVIOUS
  <2> HIDE DEF From
  <2>2. \A n \in S : From(n) \in FiniteSubsetsOf(S)
    BY <2>1, FS_Subset DEF FiniteSubsetsOf
  <2>3. QED
    BY <2>2
<1>2. PICK T \in Tails : \A U \in Tails : ~(<<U, T>> \in StrictSubsetOrdering(S))
  <2> HIDE DEF Tails
  <2> QED
    BY <1>1, FS_StrictSubsetOrderingWellFounded, WFMin
<1>3. PICK n \in S : T = From(n)
  OBVIOUS
<1>4. \A m \in S : m <= n
  <2> SUFFICES ASSUME NEW m \in S, n < m PROVE FALSE
    OBVIOUS
  <2>1. From(m) \subseteq From(n) /\ n \in From(n) /\ n \notin From(m)
    <3>1. \A k \in S : m <= k => n <= k
      BY S \subseteq Int
    <3>2. n <= n /\ ~(m <= n)
      BY S \subseteq Int
    <3>3. QED
      BY <3>1, <3>2
  <2>2. <<From(m), From(n)>> \in StrictSubsetOrdering(S)
    <3>1. From(m) \in SUBSET S /\ From(n) \in SUBSET S
      OBVIOUS
    <3> HIDE DEF From
    <3>2. From(m) # From(n)
      BY <2>1
    <3> QED
      BY <2>1, <3>1, <3>2 DEF StrictSubsetOrdering
  <2>3. From(m) \in Tails
    OBVIOUS
  <2>4. QED
    BY <1>2, <1>3, <2>2, <2>3
<1>5. QED
  BY <1>4 DEF Largest
\* Rounding up, by what it is for.
LEMMA CeilDivLeast ==
  ASSUME NEW a \in Nat, NEW d \in Nat \ {0}, NEW n \in Int
  PROVE  /\ CeilDiv(a, d) \in Nat
         /\ CeilDiv(a, d) <= n <=> a <= n * d
<1> DEFINE q == (a + d - 1) \div d
<1>1. q \in Int /\ q * d <= a + d - 1 /\ a + d - 1 < q * d + d
  OBVIOUS
<1> HIDE DEF q
<1>2. q >= 0
  <2> SUFFICES ASSUME q <= -1 PROVE FALSE
    BY <1>1
  <2>1. (q + 1) * d <= 0
    BY <1>1
  <2>2. QED
    BY <1>1, <2>1
<1>3. ASSUME q <= n PROVE a <= n * d
  <2>1. (n - q) * d >= 0
    BY <1>1, <1>3
  <2>2. QED
    BY <1>1, <2>1
<1>4. ASSUME a <= n * d, q > n PROVE FALSE
  <2>1. (q - n - 1) * d >= 0
    BY <1>1, <1>4
  <2>2. QED
    BY <1>1, <1>4, <2>1
<1>5. QED
  BY <1>1, <1>2, <1>3, <1>4 DEF CeilDiv, q

LEMMA AbsTyped == \A n \in Int : Abs(n) \in Nat
  BY DEF Abs

LEMMA JointsFinite == IsFiniteSet(Joints)
  BY FS_Interval, ValidationAssumption DEF Joints

\* A function of a finite set has a finite range.
LEMMA RangeFinite ==
  ASSUME NEW S, IsFiniteSet(S), NEW f, f = [x \in S |-> f[x]]
  PROVE  IsFiniteSet({f[x] : x \in S})
<1>1. f \in Surjection(S, {f[x] : x \in S})
  BY DEF Surjection
<1>2. QED
  BY <1>1, FS_Surjection

LEMMA SinceTyped ==
  ASSUME NEW t \in RawTrajectory, ValidTrajectory(t),
         NEW i \in FirstCommanded(t) .. Len(t.points)
  PROVE  /\ i \in 1 .. Len(t.points) /\ Since(t, i) \in Int
<1>1. Len(t.points) \in Nat \ {0} /\ FirstCommanded(t) \in Nat
  BY PointTyped DEF RawTrajectory, FirstCommanded, ValidTrajectory
<1>2. i \in 1 .. Len(t.points)
  BY <1>1 DEF FirstCommanded
<1>3. CASE i = FirstCommanded(t)
  BY <1>2, <1>3 DEF Since
<1>4. CASE i # FirstCommanded(t)
  <2>1. i - 1 \in 1 .. Len(t.points)
    BY <1>1, <1>2, <1>4 DEF FirstCommanded
  <2>2. QED
    BY <1>2, <1>4, <2>1, PointTyped DEF Since, RawPoint
<1>5. QED
  BY <1>3, <1>4

\* What a segment needs is a finite set of percentages, and a percentage that is
\* at least each of them is one that keeps the plan.
LEMMA NeededKeeps ==
  ASSUME NEW t \in RawTrajectory, ValidTrajectory(t),
         NEW i \in FirstCommanded(t) .. Len(t.points), NEW from \in JointValues
  PROVE  LET needed == Needed(t, i, from, Since(t, i)) IN
           /\ needed \subseteq Nat
           /\ IsFiniteSet(needed)
           /\ \A n \in Int : (\A m \in needed : m <= n) <=> KeepsPlan(t, i, from, n)
<1> DEFINE duration == t.points[i].time - Since(t, i)
           planned == t.points[i].velocities
           far(j) == 100 * Abs(Target(t, i)[j] - from[j])
           fast(j) == 100 * Abs(Reordered(t, planned)[j])
           inTime(j) == CeilDiv(far(j), duration * VelocityLimit[j])
           asPlanned(j) == CeilDiv(fast(j), VelocityLimit[j])
           times == IF duration > 0 THEN {inTime(j) : j \in Joints} ELSE {}
           speeds == IF planned # <<>> THEN {asPlanned(j) : j \in Joints} ELSE {}
<1>1. /\ i \in 1 .. Len(t.points) /\ Since(t, i) \in Int
      /\ t.points[i] \in RawPoint /\ NamesMatch(t) /\ PointValid(t, i)
      /\ Target(t, i) \in JointValues
  BY SinceTyped, PointTyped, TargetTyped DEF ValidTrajectory
<1>2. /\ duration \in Int
      /\ planned \in Seq(Int)
      /\ planned # <<>> => Len(planned) = JointCount
      /\ JointCount \in Nat
      /\ \A j \in Joints : VelocityLimit[j] \in Nat \ {0}
  BY <1>1, ValidationAssumption DEF RawPoint, PointValid
<1>3. \A j \in Joints : far(j) \in Nat
  <2> TAKE j \in Joints
  <2>1. Target(t, i)[j] - from[j] \in Int
    BY <1>1 DEF JointValues
  <2>2. Abs(Target(t, i)[j] - from[j]) \in Nat
    BY <2>1, AbsTyped
  <2> QED
    BY <2>2
<1>4. planned # <<>> => \A j \in Joints : fast(j) \in Nat
  <2> SUFFICES ASSUME planned # <<>>, NEW j \in Joints PROVE fast(j) \in Nat
    OBVIOUS
  <2>1. Reordered(t, planned)[j] \in Int
    BY <1>1, <1>2, ReorderedTyped DEF JointValues
  <2>2. Abs(Reordered(t, planned)[j]) \in Nat
    BY <2>1, AbsTyped
  <2> QED
    BY <2>2
<1>5. ASSUME duration > 0, NEW j \in Joints, NEW n \in Int
      PROVE  /\ inTime(j) \in Nat
             /\ inTime(j) <= n <=> far(j) <= n * VelocityLimit[j] * duration
  <2>1. duration * VelocityLimit[j] \in Nat \ {0}
    BY <1>2, <1>5
  <2>2. n * (duration * VelocityLimit[j]) = n * VelocityLimit[j] * duration
    BY <1>2
  <2> HIDE DEF far, duration
  <2>3. QED
    BY <1>3, <2>1, <2>2, CeilDivLeast
<1>6. ASSUME planned # <<>>, NEW j \in Joints, NEW n \in Int
      PROVE  /\ asPlanned(j) \in Nat
             /\ asPlanned(j) <= n <=> fast(j) <= n * VelocityLimit[j]
  <2> HIDE DEF fast, planned
  <2> QED
    BY <1>2, <1>4, <1>6, CeilDivLeast
<1>7. ASSUME planned # <<>>, NEW j \in Joints, NEW n \in Int
      PROVE  fast(j) <= n * VelocityLimit[j] <=>
               \A k \in 1 .. JointCount : t.names[k] = j =>
                 100 * Abs(planned[k]) <= n * VelocityLimit[j]
  <2>1. /\ Place(t, j) \in 1 .. JointCount
        /\ t.names[Place(t, j)] = j
        /\ \A k \in 1 .. JointCount : t.names[k] = j => k = Place(t, j)
    BY <1>1, PlaceFound, NameFound
  <2>2. Reordered(t, planned)[j] = planned[Place(t, j)]
    BY DEF Reordered
  <2>3. QED
    BY <2>1, <2>2
<1>8. Needed(t, i, from, Since(t, i)) = times \cup speeds
  BY DEF Needed
<1> HIDE DEF duration, planned, inTime, asPlanned, far, fast
<1>9. IsFiniteSet(times) /\ IsFiniteSet(speeds)
  <2>1. IsFiniteSet({inTime(j) : j \in Joints})
    <3> DEFINE f == [j \in Joints |-> inTime(j)]
    <3>1. IsFiniteSet({f[j] : j \in Joints})
      BY JointsFinite, RangeFinite
    <3>2. QED
      BY <3>1
  <2>2. IsFiniteSet({asPlanned(j) : j \in Joints})
    <3> DEFINE f == [j \in Joints |-> asPlanned(j)]
    <3>1. IsFiniteSet({f[j] : j \in Joints})
      BY JointsFinite, RangeFinite
    <3>2. QED
      BY <3>1
  <2>3. QED
    BY <2>1, <2>2, FS_EmptySet
<1>10. times \cup speeds \subseteq Nat
  BY <1>5, <1>6
<1>11. ASSUME NEW n \in Int
       PROVE  (\A m \in times \cup speeds : m <= n) <=> KeepsPlan(t, i, from, n)
  <2>1. KeepsPlan(t, i, from, n) <=>
          \A j \in Joints :
            /\ duration > 0 => far(j) <= n * VelocityLimit[j] * duration
            /\ planned # <<>> => fast(j) <= n * VelocityLimit[j]
    BY <1>7 DEF KeepsPlan, duration, planned, far
  <2>2. (\A m \in times \cup speeds : m <= n) <=>
          \A j \in Joints :
            /\ duration > 0 => inTime(j) <= n
            /\ planned # <<>> => asPlanned(j) <= n
    OBVIOUS
  <2>3. QED
    BY <2>1, <2>2, <1>5, <1>6
<1>12. QED
  BY <1>8, <1>9, <1>10, <1>11, FS_Union

\* The speed of a segment: a percentage, and the least that keeps the plan.
LEMMA SegmentSpeed ==
  ASSUME NEW t \in RawTrajectory, ValidTrajectory(t),
         NEW i \in FirstCommanded(t) .. Len(t.points), NEW from \in JointValues
  PROVE  LET percent == SegmentPercent(t, i, from, Since(t, i)) IN
           /\ percent \in 1 .. MaxPercent
           /\ IF KeepsPlan(t, i, from, 0)
              THEN percent = DefaultPercent
              ELSE /\ KeepsPlan(t, i, from, percent) \/ percent = MaxPercent
                   /\ ~KeepsPlan(t, i, from, percent - 1)
<1> DEFINE needed == Needed(t, i, from, Since(t, i))
           fastest == Largest({0} \cup needed)
           percent == SegmentPercent(t, i, from, Since(t, i))
<1>1. /\ needed \subseteq Nat
      /\ IsFiniteSet(needed)
      /\ \A n \in Int : (\A m \in needed : m <= n) <=> KeepsPlan(t, i, from, n)
  BY NeededKeeps
<1>2. percent = Capped(IF fastest > 0 THEN fastest ELSE DefaultPercent)
  BY DEF SegmentPercent
<1> HIDE DEF needed, percent
<1>3. {0} \cup needed \in SUBSET Int /\ {0} \cup needed # {} /\ IsFiniteSet({0} \cup needed)
  BY <1>1, FS_AddElement
<1>4. fastest \in {0} \cup needed /\ \A m \in {0} \cup needed : m <= fastest
  BY <1>3, LargestExists
<1> HIDE DEF fastest
<1>5. fastest \in Nat /\ \A n \in Nat : KeepsPlan(t, i, from, n) <=> fastest <= n
  BY <1>1, <1>4
<1>6. /\ DefaultPercent \in 1 .. MaxPercent
      /\ MaxPercent \in 1 .. 100
  BY ValidationAssumption
<1>7. CASE fastest = 0
  <2>1. KeepsPlan(t, i, from, 0)
    BY <1>5, <1>7
  <2>2. percent = DefaultPercent
    BY <1>2, <1>6, <1>7 DEF Capped
  <2>3. QED
    BY <1>6, <2>1, <2>2 DEF percent
<1>8. CASE fastest > 0
  <2>1. ~KeepsPlan(t, i, from, 0)
    BY <1>5, <1>8
  <2>2. percent \in 1 .. MaxPercent /\ percent <= fastest
        /\ (percent = fastest \/ percent = MaxPercent)
    BY <1>2, <1>5, <1>6, <1>8 DEF Capped
  <2>3. ~KeepsPlan(t, i, from, percent - 1)
    BY <1>5, <2>2
  <2>4. KeepsPlan(t, i, from, percent) \/ percent = MaxPercent
    BY <1>5, <2>2
  <2>5. QED
    BY <2>1, <2>2, <2>3, <2>4 DEF percent
<1>9. QED
  BY <1>5, <1>7, <1>8

-----------------------------------------------------------------------------
(***************************************************************************)
(* The inductive invariant.                                                *)
(***************************************************************************)
Last == Len(goal.points)

ToleranceAt(i) == IF i = Last THEN GoalTolerance ELSE PathTolerance

\* The reservation is the trajectory's from acceptance to result, and what was
\* accepted was valid.
OwnInv ==
  /\ pc # "idle" => reserved = "trajectory" /\ ValidTrajectory(goal)
  /\ pc = "accepted" => ~Sent /\ moved = {} /\ result = "none"
  /\ pc = "executing" => result = "none"

\* Where the loop is, and where the arm was read.
LoopInv ==
  pc = "executing" =>
    /\ next \in FirstCommanded(goal) .. Last + 1
    /\ previous \in Positions
    /\ next = 1 => Near(Target(goal, 1), previous, StartTolerance)
    /\ next = FirstCommanded(goal) =>
         /\ ~Sent /\ moved = {}
         /\ ExecutionMode = "goal_only" =>
              Near(Target(goal, Last), previous, GoalOnlyMaxDelta)
    /\ next > FirstCommanded(goal) =>
         Near(Target(goal, next - 1), previous, ToleranceAt(next - 1))
    /\ Sent => move.point = next - 1 /\ previous = arm
    /\ ExecutionMode = "stop_at_waypoints" => 2 .. next - 1 \subseteq moved

\* The command sent last.
MoveInv ==
  Sent =>
    /\ ValidTrajectory(goal)
    /\ move.point \in FirstCommanded(goal) .. Last
    /\ move.to = Target(goal, move.point)
    /\ move.percent = SegmentPercent(goal, move.point, move.from, Since(goal, move.point))
    /\ ExecutionMode = "goal_only" => moved = {Last}

IInv == TypeOK /\ OwnInv /\ LoopInv /\ MoveInv /\ StepsBounded /\ DirectMoveBounded
             /\ SuccessMeansFollowed

\* The distance to a target is at most the distance to a place near it and from
\* there to the target.
LEMMA Triangle ==
  ASSUME NEW p \in JointValues, NEW q \in JointValues, NEW r \in JointValues,
         NEW m \in Nat, NEW n \in Nat, Near(p, q, m), Near(q, r, n)
  PROVE  Near(p, r, m + n)
<1> SUFFICES ASSUME NEW j \in Joints PROVE Abs(p[j] - r[j]) <= m + n
  BY DEF Near
<1>1. p[j] \in Int /\ q[j] \in Int /\ r[j] \in Int
  BY DEF JointValues
<1>2. Abs(p[j] - q[j]) <= m /\ Abs(q[j] - r[j]) <= n
  BY DEF Near
<1>3. QED
  BY <1>1, <1>2 DEF Abs

LEMMA GoalFacts ==
  ASSUME TypeOK
  PROVE  /\ goal \in RawTrajectory
         /\ Last \in Nat
         /\ Positions \subseteq JointValues
         /\ {StartTolerance, PathTolerance, GoalTolerance, GoalOnlyMaxDelta, MaxJointStep}
              \subseteq Nat
         /\ ExecutionMode \in {"stop_at_waypoints", "goal_only"}
  BY PointTyped, ControllerAssumption, ValidationAssumption
     DEF TypeOK, Last, RawTrajectory

LEMMA InitIInv == Init => IInv
<1> SUFFICES ASSUME Init PROVE IInv
  OBVIOUS
<1>1. NoMove \in Move
  BY ValidationAssumption DEF NoMove, Move, JointValues
<1>2. TypeOK
  BY <1>1, ControllerAssumption DEF Init, TypeOK
<1>3. ~Sent
  BY DEF Init, Sent, NoMove
<1>4. QED
  BY <1>2, <1>3 DEF Init, IInv, OwnInv, LoopInv, MoveInv, StepsBounded, DirectMoveBounded,
     SuccessMeansFollowed

\* While the loop is not running, what the invariant says does not depend on the
\* arm, the cache or the session.
LEMMA AroundKeepsIInv ==
  ASSUME IInv, SessionChanges \/ Poll \/ OtherAccepted \/ OtherExecutes \/ UNCHANGED vars
  PROVE  IInv'
<1>1. /\ TypeOK' /\ UNCHANGED <<pc, goal, next, previous, result, move, moved>>
      /\ pc # "idle" => UNCHANGED <<arm, reserved>>
  BY DEF SessionChanges, Poll, OtherAccepted, OtherExecutes, vars, serverVars, IInv, OwnInv, TypeOK
<1>2. OwnInv'
  BY <1>1 DEF IInv, OwnInv, Sent
<1>3. LoopInv'
  BY <1>1 DEF IInv, LoopInv, Sent, Last, ToleranceAt
<1>4. MoveInv'
  BY <1>1 DEF IInv, MoveInv, Sent, Last
<1>5. StepsBounded' /\ DirectMoveBounded' /\ SuccessMeansFollowed'
  BY <1>1 DEF IInv, StepsBounded, DirectMoveBounded, SuccessMeansFollowed, Sent
<1>6. QED
  BY <1>1, <1>2, <1>3, <1>4, <1>5 DEF IInv

LEMMA GoalAcceptedKeepsIInv ==
  ASSUME IInv, NEW t \in Trajectories, GoalAccepted(t) PROVE IInv'
<1>1. NoMove \in Move
  BY ValidationAssumption DEF NoMove, Move, JointValues
<1>2. TypeOK'
  BY <1>1 DEF GoalAccepted, IInv, TypeOK
<1>3. ~Sent'
  BY DEF GoalAccepted, Sent, NoMove
<1>4. ValidTrajectory(t)
  BY DEF GoalAccepted, Startable
<1>5. QED
  BY <1>2, <1>3, <1>4 DEF GoalAccepted, IInv, OwnInv, LoopInv, MoveInv, StepsBounded,
     DirectMoveBounded, SuccessMeansFollowed

\* A result that is not a success leaves the history of the goal as it is.
LEMMA EndKeepsIInv ==
  ASSUME IInv, NEW code \in Codes \ {"SUCCESSFUL"}, Ends(code), arm' \in Positions,
         cache' \in Positions \cup {NoSample}, connected' \in BOOLEAN,
         UNCHANGED <<goal, move, moved>>
  PROVE  IInv'
<1>1. TypeOK'
  BY DEF IInv, TypeOK, Ends
<1>2. OwnInv' /\ LoopInv'
  BY DEF Ends, OwnInv, LoopInv
<1>3. MoveInv' /\ StepsBounded' /\ DirectMoveBounded'
  BY DEF IInv, MoveInv, StepsBounded, DirectMoveBounded, Sent, Last
<1>4. SuccessMeansFollowed'
  BY DEF Ends, SuccessMeansFollowed
<1>5. QED
  BY <1>1, <1>2, <1>3, <1>4 DEF IInv

LEMMA BeginKeepsIInv ==
  ASSUME IInv, Begin PROVE IInv'
<1>1. CASE ~Startable(goal)
  <2>1. Ends("INVALID_GOAL") /\ UNCHANGED <<arm, cache, connected, goal, move, moved>>
    BY <1>1 DEF Begin
  <2>2. QED
    BY <2>1, EndKeepsIInv DEF IInv, TypeOK, Codes
<1>2. CASE Startable(goal)
  <2>1. /\ pc = "accepted" /\ pc' = "executing"
        /\ next' = FirstCommanded(goal)
        /\ previous' = cache
        /\ UNCHANGED <<arm, cache, connected, reserved, goal, result, move, moved>>
    BY <1>2 DEF Begin
  <2>2. /\ TypeOK /\ OwnInv /\ ValidTrajectory(goal) /\ ~Sent /\ moved = {}
        /\ cache \in Positions
        /\ Near(Target(goal, 1), cache, StartTolerance)
        /\ ExecutionMode = "goal_only" => Near(Target(goal, Last), cache, GoalOnlyMaxDelta)
    BY <1>2, <2>1 DEF IInv, OwnInv, Startable, TypeOK, Last
  <2>3. /\ Last \in Nat \ {0} /\ FirstCommanded(goal) \in 1 .. Last
        /\ ExecutionMode = "stop_at_waypoints" => FirstCommanded(goal) = 1
    BY <2>2, GoalFacts DEF ValidTrajectory, Last, FirstCommanded
  <2>4. TypeOK'
    BY <2>1, <2>2, <2>3 DEF TypeOK
  <2>5. ~Sent'
    BY <2>1, <2>2 DEF Sent
  <2>6. OwnInv'
    BY <2>1, <2>2, <2>5 DEF OwnInv
  <2>7. LoopInv'
    BY <2>1, <2>2, <2>3, <2>5 DEF LoopInv, Last
  <2>8. QED
    BY <2>1, <2>2, <2>4, <2>5, <2>6, <2>7 DEF IInv, MoveInv, StepsBounded, DirectMoveBounded,
       SuccessMeansFollowed
<1>3. QED
  BY <1>1, <1>2

\* What is known when the loop is at a point.
LEMMA AtPointFacts ==
  ASSUME IInv, AtPoint
  PROVE  /\ goal \in RawTrajectory /\ ValidTrajectory(goal)
         /\ Last \in Nat \ {0} /\ next \in 1 .. Last
         /\ next \in FirstCommanded(goal) .. Last
         /\ FirstCommanded(goal) = IF ExecutionMode = "goal_only" THEN Last ELSE 1
         /\ previous \in Positions /\ previous \in JointValues
         /\ Target(goal, next) \in JointValues
<1>1. TypeOK /\ pc = "executing" /\ next <= Last
  BY DEF IInv, AtPoint, Last
<1>2. /\ ValidTrajectory(goal)
      /\ next \in FirstCommanded(goal) .. Last + 1
      /\ previous \in Positions
  BY <1>1 DEF IInv, OwnInv, LoopInv
<1>3. FirstCommanded(goal) = IF ExecutionMode = "goal_only" THEN Last ELSE 1
  BY DEF FirstCommanded, Last
<1>4. Last \in Nat \ {0}
  BY <1>1, <1>2, GoalFacts DEF ValidTrajectory, Last
<1>5. next \in 1 .. Last /\ next \in FirstCommanded(goal) .. Last
  BY <1>1, <1>2, <1>3, <1>4 DEF TypeOK
<1>6. QED
  BY <1>1, <1>2, <1>3, <1>4, <1>5, GoalFacts, TargetTyped DEF Last

\* A command keeps to its bounds, whatever comes of it.
LEMMA CommandBounded ==
  ASSUME IInv, Commands
  PROVE  /\ move' \in Move /\ moved' \subseteq Nat /\ Sent'
         /\ MoveInv' /\ StepsBounded' /\ DirectMoveBounded'
         /\ move'.point = next /\ move'.from = previous
         /\ ExecutionMode = "stop_at_waypoints" => 2 .. next \subseteq moved'
<1> DEFINE percent == SegmentPercent(goal, next, previous, Since(goal, next))
<1>1. /\ AtPoint
      /\ goal' = goal
      /\ move' = [point |-> next, from |-> previous, to |-> Target(goal, next),
                  percent |-> percent]
      /\ moved' = moved \cup {next}
  BY DEF Commands
<1>2. /\ goal \in RawTrajectory /\ ValidTrajectory(goal)
      /\ Last \in Nat \ {0} /\ next \in 1 .. Last
      /\ next \in FirstCommanded(goal) .. Last
      /\ FirstCommanded(goal) = IF ExecutionMode = "goal_only" THEN Last ELSE 1
      /\ previous \in Positions /\ previous \in JointValues
      /\ Target(goal, next) \in JointValues
  BY <1>1, AtPointFacts
<1>3. percent \in 1 .. MaxPercent
  BY <1>2, SegmentSpeed DEF Last
<1> HIDE DEF percent
<1>4. TypeOK /\ LoopInv /\ pc = "executing"
  BY <1>1 DEF IInv, AtPoint
<1>5. move' \in Move /\ moved' \subseteq Nat /\ Sent'
      /\ move'.point = next /\ move'.from = previous /\ move'.to = Target(goal, next)
      /\ move'.percent = percent
  BY <1>1, <1>2, <1>3, <1>4 DEF Move, Sent, TypeOK
<1>6. ASSUME ExecutionMode = "goal_only"
      PROVE  /\ next = Last /\ moved' = {Last}
             /\ Near(Target(goal, next), previous, GoalOnlyMaxDelta)
  BY <1>1, <1>2, <1>4, <1>6 DEF LoopInv
<1>7. MoveInv'
  BY <1>1, <1>2, <1>5, <1>6 DEF MoveInv, percent, Last
<1>8. DirectMoveBounded'
  BY <1>1, <1>5, <1>6 DEF DirectMoveBounded, Last
<1>9. StepsBounded'
  <2> SUFFICES ASSUME ExecutionMode = "stop_at_waypoints"
               PROVE  IF next = 1 THEN Near(Target(goal, next), previous, StartTolerance)
                      ELSE Near(Target(goal, next), previous, MaxJointStep + PathTolerance)
    BY <1>5 DEF StepsBounded
  <2>1. CASE next = 1
    BY <1>4, <2>1 DEF LoopInv
  <2>2. CASE next # 1
    <3>1. next - 1 \in 1 .. Last /\ next \in 2 .. Last /\ next - 1 # Last
      BY <1>2, <2>2
    <3>2. Near(Target(goal, next - 1), previous, PathTolerance)
      BY <1>2, <1>4, <3>1 DEF LoopInv, ToleranceAt
    <3>3. Near(Target(goal, next), Target(goal, next - 1), MaxJointStep)
      BY <1>2, <3>1 DEF ValidTrajectory, StepValid, Last
    <3>4. Target(goal, next - 1) \in JointValues
      BY <1>2, <3>1, TargetTyped DEF Last
    <3>5. QED
      BY <1>2, <1>4, <2>2, <3>2, <3>3, <3>4, GoalFacts, Triangle
  <2>3. QED
    BY <2>1, <2>2
<1>10. ExecutionMode = "stop_at_waypoints" => 2 .. next \subseteq moved'
  <2>1. ExecutionMode = "stop_at_waypoints" => 2 .. next - 1 \subseteq moved
    BY <1>4 DEF LoopInv
  <2>2. 2 .. next \subseteq (2 .. next - 1) \cup {next}
    BY <1>2
  <2>3. QED
    BY <1>1, <2>1, <2>2
<1>11. QED
  BY <1>5, <1>7, <1>8, <1>9, <1>10

LEMMA FailureKeepsIInv ==
  ASSUME IInv, Misses \/ Fails PROVE IInv'
<1>1. PICK code \in Codes \ {"SUCCESSFUL"} : Ends(code)
  BY DEF Misses, Fails, Codes
<1>2. /\ Commands /\ arm' \in Positions /\ goal' = goal
      /\ cache' \in {cache, arm'} /\ connected' \in {connected, FALSE}
  BY DEF Misses, Fails, Commands
<1>3. /\ move' \in Move /\ moved' \subseteq Nat
      /\ MoveInv' /\ StepsBounded' /\ DirectMoveBounded'
  BY <1>2, CommandBounded
<1>4. TypeOK'
  BY <1>1, <1>2, <1>3 DEF IInv, TypeOK, Ends
<1>5. OwnInv' /\ LoopInv' /\ SuccessMeansFollowed'
  BY <1>1 DEF Ends, OwnInv, LoopInv, SuccessMeansFollowed
<1>6. QED
  BY <1>3, <1>4, <1>5 DEF IInv

\* The loop goes on to the next point with the arm within tolerance of this one.
LEMMA OnwardKeepsLoop ==
  ASSUME IInv, AtPoint, pc' = "executing", next' = next + 1, goal' = goal,
         previous' \in Positions, Near(Target(goal, next), previous', Tolerance),
         Sent' => move'.point = next /\ previous' = arm',
         ExecutionMode = "stop_at_waypoints" => 2 .. next \subseteq moved'
  PROVE  LoopInv'
<1>1. /\ Last \in Nat \ {0} /\ next \in 1 .. Last
      /\ next \in FirstCommanded(goal) .. Last
      /\ FirstCommanded(goal) \in Nat
  BY AtPointFacts
<1>2. /\ next' \in FirstCommanded(goal) .. Last + 1
      /\ next' # 1 /\ next' > FirstCommanded(goal) /\ next' - 1 = next
  BY <1>1
<1>3. Near(Target(goal, next), previous', ToleranceAt(next))
  BY DEF Tolerance, IsLast, ToleranceAt, Last
<1>4. QED
  BY <1>1, <1>2, <1>3 DEF LoopInv, Last, ToleranceAt

LEMMA ReachesKeepsIInv ==
  ASSUME IInv, Reaches PROVE IInv'
<1>1. /\ Commands /\ AtPoint /\ arm' \in Positions /\ goal' = goal
      /\ cache' = arm' /\ previous' = arm' /\ next' = next + 1
      /\ Near(Target(goal, next), arm', Tolerance)
      /\ UNCHANGED <<connected, reserved, pc, result>>
  BY DEF Reaches, Commands
<1>2. /\ move' \in Move /\ moved' \subseteq Nat /\ Sent'
      /\ MoveInv' /\ StepsBounded' /\ DirectMoveBounded'
      /\ move'.point = next
      /\ ExecutionMode = "stop_at_waypoints" => 2 .. next \subseteq moved'
  BY <1>1, CommandBounded
<1>3. next + 1 \in Nat
  BY DEF IInv, TypeOK
<1>4. TypeOK'
  BY <1>1, <1>2, <1>3 DEF IInv, TypeOK
<1>5. pc = "executing" /\ pc' = "executing" /\ result = "none"
  BY <1>1 DEF IInv, OwnInv, AtPoint
<1>6. OwnInv' /\ SuccessMeansFollowed'
  BY <1>1, <1>5 DEF IInv, OwnInv, SuccessMeansFollowed
<1>7. LoopInv'
  BY <1>1, <1>2, <1>5, OnwardKeepsLoop
<1>8. QED
  BY <1>2, <1>4, <1>6, <1>7 DEF IInv

LEMMA SkipKeepsIInv ==
  ASSUME IInv, Skip PROVE IInv'
<1>1. /\ AtPoint /\ Skippable /\ next' = next + 1
      /\ UNCHANGED <<arm, cache, connected, reserved, pc, goal, previous, result, move, moved>>
  BY DEF Skip
<1>2. /\ next \in 1 .. Last /\ next = FirstCommanded(goal)
      /\ previous \in Positions
      /\ ExecutionMode = "stop_at_waypoints" => next = 1
  BY <1>1, AtPointFacts DEF Skippable
<1>3. pc = "executing" /\ ~Sent
  BY <1>1, <1>2 DEF IInv, LoopInv, AtPoint
<1>4. ~Sent'
  BY <1>1, <1>3 DEF Sent
<1>5. ExecutionMode = "stop_at_waypoints" => 2 .. next \subseteq moved'
  BY <1>2
<1>6. LoopInv'
  BY <1>1, <1>2, <1>3, <1>4, <1>5, OnwardKeepsLoop DEF Skippable
<1>7. TypeOK'
  BY <1>1 DEF IInv, TypeOK
<1>8. OwnInv' /\ MoveInv' /\ StepsBounded' /\ DirectMoveBounded' /\ SuccessMeansFollowed'
  BY <1>1, <1>3, <1>4 DEF IInv, OwnInv, MoveInv, StepsBounded, DirectMoveBounded,
     SuccessMeansFollowed
<1>9. QED
  BY <1>6, <1>7, <1>8 DEF IInv

\* At the end of the loop every point has had its turn, and the arm was read
\* within tolerance of the last.
LEMMA DoneFacts ==
  ASSUME IInv, Succeeds
  PROVE  /\ ExecutionMode = "stop_at_waypoints" => 2 .. Last \subseteq moved
         /\ Near(Target(goal, Last), previous, GoalTolerance)
         /\ Sent => previous = arm
<1>1. /\ TypeOK /\ LoopInv /\ pc = "executing" /\ next > Last
      /\ ValidTrajectory(goal)
  BY DEF Succeeds, IInv, OwnInv, Last
<1>2. Last \in Nat \ {0} /\ FirstCommanded(goal) \in 1 .. Last
  BY <1>1, GoalFacts DEF ValidTrajectory, FirstCommanded, Last
<1>3. next = Last + 1
  BY <1>1, <1>2 DEF LoopInv
<1>4. QED
  BY <1>1, <1>2, <1>3 DEF LoopInv, ToleranceAt

LEMMA SucceedsKeepsIInv ==
  ASSUME IInv, Succeeds PROVE IInv'
<1>1. Ends("SUCCESSFUL") /\ UNCHANGED <<arm, cache, connected, goal, move, moved>>
  BY DEF Succeeds
<1>2. TypeOK'
  BY <1>1 DEF IInv, TypeOK, Ends, Codes
<1>3. OwnInv' /\ LoopInv'
  BY <1>1 DEF Ends, OwnInv, LoopInv
<1>4. MoveInv' /\ StepsBounded' /\ DirectMoveBounded'
  BY <1>1 DEF IInv, MoveInv, StepsBounded, DirectMoveBounded, Sent, Last
<1>5. SuccessMeansFollowed'
  BY <1>1, DoneFacts DEF SuccessMeansFollowed, Last
<1>6. QED
  BY <1>2, <1>3, <1>4, <1>5 DEF IInv

LEMMA IInvInductive == IInv /\ [Next]_vars => IInv'
<1> SUFFICES ASSUME IInv, [Next]_vars PROVE IInv'
  OBVIOUS
<1>1. CASE Blocked
  BY <1>1, EndKeepsIInv DEF Blocked, IInv, TypeOK, Codes
<1>2. QED
  BY <1>1, AroundKeepsIInv, GoalAcceptedKeepsIInv, BeginKeepsIInv, SkipKeepsIInv,
     ReachesKeepsIInv, FailureKeepsIInv, SucceedsKeepsIInv DEF Next

-----------------------------------------------------------------------------
(***************************************************************************)
(* The theorems.                                                           *)
(***************************************************************************)
LEMMA IInvHolds == Spec => []IInv
  BY InitIInv, IInvInductive, PTL DEF Spec

\* Every reachable state is well typed; in particular no command is faster than
\* the configured maximum or slower than one percent.
THEOREM TypeCorrect == Spec => []TypeOK
<1>1. IInv => TypeOK
  BY DEF IInv
<1>2. QED
  BY <1>1, IInvHolds, PTL

\* On a path no command is further from where the arm was read than one step of
\* the plan and the path tolerance, for any tolerances and any limits.
THEOREM StepsAreBounded == Spec => []StepsBounded
<1>1. IInv => StepsBounded
  BY DEF IInv
<1>2. QED
  BY <1>1, IInvHolds, PTL

\* A direct move is one command, and no longer than its cap.
THEOREM DirectMoveIsBounded == Spec => []DirectMoveBounded
<1>1. IInv => DirectMoveBounded
  BY DEF IInv
<1>2. QED
  BY <1>1, IInvHolds, PTL

\* A success has visited every point of the plan.
THEOREM SuccessFollows == Spec => []SuccessMeansFollowed
<1>1. IInv => SuccessMeansFollowed
  BY DEF IInv
<1>2. QED
  BY <1>1, IInvHolds, PTL

\* The values of a plan move the joints they are named for, within their limits.
THEOREM NamedJointsAreMoved == Spec => []NamedJointsMoved
<1>1. ASSUME IInv PROVE NamedJointsMoved
  <2> SUFFICES ASSUME Sent, NEW k \in 1 .. JointCount
               PROVE  LET j == goal.names[k] IN
                        /\ move.to[j] = goal.points[move.point].positions[k]
                        /\ Lower[j] <= move.to[j] /\ move.to[j] <= Upper[j]
    BY DEF NamedJointsMoved
  <2> DEFINE j == goal.names[k]
  <2>1. /\ ValidTrajectory(goal) /\ goal \in RawTrajectory
        /\ move.to = Target(goal, move.point)
        /\ move.point \in 1 .. Len(goal.points)
    BY <1>1, GoalFacts, SinceTyped DEF IInv, MoveInv, Last
  <2>2. j \in Joints /\ Place(goal, j) = k
    BY <2>1, NameFound DEF ValidTrajectory
  <2>3. Within(Lower, move.to, Upper)
    BY <2>1, TargetTyped
  <2>4. QED
    BY <2>1, <2>2, <2>3 DEF Within, Target, Reordered
<1>2. QED
  BY <1>1, IInvHolds, PTL

\* The speed of every command is the least that keeps the plan, or the maximum.
THEOREM SpeedIsLeast == Spec => []SpeedIsLeastSufficient
<1>1. ASSUME IInv PROVE SpeedIsLeastSufficient
  <2> SUFFICES ASSUME Sent PROVE SpeedIsLeastSufficient
    BY DEF SpeedIsLeastSufficient
  <2>1. /\ ValidTrajectory(goal) /\ goal \in RawTrajectory
        /\ move.point \in FirstCommanded(goal) .. Len(goal.points)
        /\ move.percent = SegmentPercent(goal, move.point, move.from, Since(goal, move.point))
        /\ move.from \in JointValues
    BY <1>1, GoalFacts DEF IInv, MoveInv, Last, TypeOK, Move
  <2>2. QED
    BY <2>1, SegmentSpeed DEF SpeedIsLeastSufficient
<1>2. QED
  BY <1>1, IInvHolds, PTL

\* After a missed point nothing is sent, and each command starts where the one
\* before it ended.
THEOREM NothingFollowsAMiss == Spec => NothingAfterAMiss
<1> DEFINE A == Sent /\ move' # move /\ move' # NoMove =>
                  /\ Near(move.to, arm, PathTolerance)
                  /\ move'.from = arm
<1>1. IInv /\ [Next]_vars => [A]_vars
  <2> SUFFICES ASSUME IInv, Next, Sent, move' # move, move' # NoMove
               PROVE  Near(move.to, arm, PathTolerance) /\ move'.from = arm
    OBVIOUS
  <2>1. Commands
    BY DEF Next, SessionChanges, Poll, OtherAccepted, OtherExecutes, serverVars, GoalAccepted,
       Begin, Blocked, Skip, Reaches, Misses, Fails, Succeeds
  <2>2. AtPoint /\ LoopInv /\ MoveInv /\ move'.from = previous
    BY <2>1 DEF Commands, IInv
  <2>3. /\ Last \in Nat \ {0} /\ next \in 1 .. Last
        /\ next \in FirstCommanded(goal) .. Last
        /\ FirstCommanded(goal) \in Nat
    BY <2>2, AtPointFacts
  <2>4. pc = "executing" /\ next # FirstCommanded(goal)
        /\ move.point = next - 1 /\ previous = arm
    BY <2>2 DEF LoopInv, AtPoint
  <2>5. next > FirstCommanded(goal) /\ next - 1 # Last
    BY <2>3, <2>4
  <2>6. Near(Target(goal, next - 1), previous, PathTolerance)
    BY <2>2, <2>4, <2>5 DEF LoopInv, ToleranceAt
  <2>7. QED
    BY <2>2, <2>4, <2>6 DEF MoveInv
<1>2. QED
  BY <1>1, IInvHolds, PTL DEF Spec, NothingAfterAMiss

\* A success ends with the arm read within the goal tolerance of the last point.
THEOREM SuccessArrives == Spec => SuccessMeansArrived
<1> DEFINE A == result' = "SUCCESSFUL" /\ result # "SUCCESSFUL" =>
                  /\ Near(Target(goal, Len(goal.points)), previous, GoalTolerance)
                  /\ Sent => previous = arm
<1>1. IInv /\ [Next]_vars => [A]_vars
  <2> SUFFICES ASSUME IInv, Next, result' = "SUCCESSFUL", result # "SUCCESSFUL" PROVE A
    OBVIOUS
  <2>1. Succeeds
    BY DEF Next, SessionChanges, Poll, OtherAccepted, OtherExecutes, serverVars, GoalAccepted,
       Begin, Blocked, Skip, Reaches, Misses, Fails, Ends
  <2>2. QED
    BY <2>1, DoneFacts DEF Last
<1>2. QED
  BY <1>1, IInvHolds, PTL DEF Spec, SuccessMeansArrived

-----------------------------------------------------------------------------
(***************************************************************************)
(* JointTargets: the joint that takes longest.                             *)
(***************************************************************************)

\* Comparing fractions crosswise is transitive.
LEMMA CrosswiseTransitive ==
  ASSUME NEW a \in Nat, NEW b \in Nat \ {0}, NEW c \in Nat, NEW d \in Nat \ {0},
         NEW e \in Nat, NEW f \in Nat \ {0},
         a * d <= c * b, c * f <= e * d
  PROVE  a * f <= e * b
<1>1. (a * d) * f <= (c * b) * f /\ (c * f) * b <= (e * d) * b
  <2>1. \A m, n \in Nat, k \in Nat \ {0} : m <= n => m * k <= n * k
    OBVIOUS
  <2>2. a * d \in Nat /\ c * b \in Nat /\ c * f \in Nat /\ e * d \in Nat
    OBVIOUS
  <2> QED BY <2>1, <2>2
<1>2. (a * f) * d <= (e * b) * d
  BY <1>1
<1>3. \A m, n \in Nat, k \in Nat \ {0} : m * k <= n * k => m <= n
  <2> SUFFICES ASSUME NEW m \in Nat, NEW n \in Nat, NEW k \in Nat \ {0}, m * k <= n * k, n + 1 <= m
               PROVE  FALSE
    OBVIOUS
  <2>1. (m - (n + 1)) * k >= 0
    OBVIOUS
  <2> QED BY <2>1
<1>4. a * f \in Nat /\ e * b \in Nat
  OBVIOUS
<1> QED BY <1>2, <1>3, <1>4

\* So one of finitely many joints takes longest: the joints that take no less long
\* than it are the smallest such set.
LEMMA SlowestExists ==
  ASSUME NEW from \in JointValues, NEW to \in JointValues
  PROVE  /\ Slowest(from, to) \in Joints
         /\ \A k \in Joints :
              Abs(to[k] - from[k]) * VelocityLimit[Slowest(from, to)]
                <= Abs(to[Slowest(from, to)] - from[Slowest(from, to)]) * VelocityLimit[k]
<1> DEFINE D(j) == Abs(to[j] - from[j])
           V(j) == VelocityLimit[j]
           Over(j, k) == D(j) * V(k) <= D(k) * V(j)
           Above(j) == {k \in Joints : Over(j, k)}
           Sets == {Above(j) : j \in Joints}
<1>1. \A j \in Joints : D(j) \in Nat /\ V(j) \in Nat \ {0}
  BY AbsTyped, ValidationAssumption DEF JointValues
<1>2. 1 \in Joints
  BY ValidationAssumption DEF Joints
<1> HIDE DEF D, V
<1>3. \A j, k \in Joints : Over(j, k) \/ Over(k, j)
  <2> TAKE j \in Joints, k \in Joints
  <2>1. D(j) * V(k) \in Nat /\ D(k) * V(j) \in Nat
    BY <1>1
  <2> QED BY <2>1
<1>4. \A j, k, l \in Joints : Over(j, k) /\ Over(k, l) => Over(j, l)
  BY <1>1, CrosswiseTransitive
<1> HIDE DEF Over
<1>5. Sets \subseteq FiniteSubsetsOf(Joints) /\ Sets # {}
  <2>1. \A j \in Joints : Above(j) \in FiniteSubsetsOf(Joints)
    <3> TAKE j \in Joints
    <3>1. Above(j) \in SUBSET Joints
      OBVIOUS
    <3> HIDE DEF Above
    <3> QED BY <3>1, JointsFinite, FS_Subset DEF FiniteSubsetsOf
  <2> HIDE DEF Above
  <2> QED BY <1>2, <2>1
<1>6. PICK T \in Sets : \A U \in Sets : ~(<<U, T>> \in StrictSubsetOrdering(Joints))
  <2> HIDE DEF Sets
  <2> QED BY <1>5, FS_StrictSubsetOrderingWellFounded, WFMin
<1>7. PICK j \in Joints : T = Above(j)
  OBVIOUS
<1>8. \A k \in Joints : Over(k, j)
  <2> SUFFICES ASSUME NEW k \in Joints, ~Over(k, j) PROVE FALSE
    OBVIOUS
  <2>1. Over(j, k) /\ Over(j, j)
    BY <1>3
  <2>2. Above(k) \subseteq Above(j) /\ j \in Above(j) /\ j \notin Above(k)
    BY <1>4, <2>1
  <2>3. Above(k) \in Sets /\ Above(k) \in SUBSET Joints /\ Above(j) \in SUBSET Joints
    OBVIOUS
  <2> HIDE DEF Above, Sets
  <2>4. <<Above(k), Above(j)>> \in StrictSubsetOrdering(Joints)
    <3>1. Above(k) # Above(j)
      BY <2>2
    <3> QED BY <2>2, <2>3, <3>1 DEF StrictSubsetOrdering
  <2> QED BY <1>6, <1>7, <2>3, <2>4
<1>9. \E l \in Joints : \A k \in Joints :
        Abs(to[k] - from[k]) * VelocityLimit[l] <= Abs(to[l] - from[l]) * VelocityLimit[k]
  BY <1>8 DEF Over, D, V
<1> QED BY <1>9 DEF Slowest

-----------------------------------------------------------------------------
(***************************************************************************)
(* JointTargets: the duration of a move and the percentage the driver      *)
(* makes of it.                                                            *)
(***************************************************************************)
LEMMA TimesMonotone ==
  /\ \A m, n, k \in Nat : m <= n => m * k <= n * k
  /\ \A m, n \in Int, k \in Nat \ {0} : m * k <= n * k => m <= n
<1>1. \A m, n, k \in Nat : m <= n => m * k <= n * k
  OBVIOUS
<1>2. ASSUME NEW m \in Int, NEW n \in Int, NEW k \in Nat \ {0}, m * k <= n * k, n + 1 <= m
      PROVE  FALSE
  <2>1. (m - (n + 1)) * k >= 0
    BY <1>2
  <2> QED BY <1>2, <2>1
<1> QED BY <1>1, <1>2

\* far: a hundred times the way of the slowest joint; limit: its velocity limit.
LEMMA DurationsKeep ==
  ASSUME NEW far \in Nat \ {0}, NEW limit \in Nat \ {0}, NEW p \in 1 .. MaxPercent,
         NEW T \in IF far * (Ticks + 1) < MinTicks * (limit * p * Ticks) THEN {MinTicks}
                   ELSE Nearest(far * (Ticks + 1), limit * p * Ticks)
  PROVE  /\ T \in Nat /\ T >= MinTicks
         /\ far <= (p + 1) * (limit * T)
         /\ 2 * T >= Ticks => far <= p * (limit * T) /\ far > (p - 1) * (limit * T)
<1> DEFINE K == Ticks
           M == MinTicks
           W == limit * p
           Y == limit * T
           X == T * W
           n == far * (K + 1)
           d == W * K
<1>1. /\ K \in Nat \ {0} /\ M \in Nat \ {0} /\ 2 * M < K /\ p \in Nat \ {0}
      /\ p <= 2 * M /\ 2 * p <= K
  BY JointTargetsAssumption, ValidationAssumption
<1>2. W \in Nat \ {0} /\ d \in Nat \ {0} /\ n \in Nat
  <2>1. \A x, y \in Nat \ {0} : x * y \in Nat \ {0}
    OBVIOUS
  <2>2. W \in Nat \ {0}
    BY <1>1, <2>1
  <2> HIDE DEF W
  <2> QED BY <1>1, <2>1, <2>2
<1>3. n = far * K + far
  BY <1>1
<1>4. CASE n < M * d
  <2>1. T = M
    BY <1>4
  <2>2. far * K <= (M * W) * K
    <3>1. M * d = (M * W) * K
      BY <1>1, <1>2
    <3>2. far * K \in Nat /\ (M * W) * K \in Nat
      BY <1>1, <1>2
    <3> HIDE DEF n, d, W
    <3> QED BY <1>3, <1>4, <3>1, <3>2
  <2>3. far <= M * W
    <3>1. M * W \in Int
      BY <1>1, <1>2
    <3> HIDE DEF W
    <3> QED BY <1>1, <2>2, <3>1, TimesMonotone
  <2>4. M * W = p * Y /\ Y \in Nat /\ (p + 1) * Y = p * Y + Y
    BY <1>1, <2>1
  <2>5. far <= (p + 1) * Y
    <3>1. p * Y \in Int
      BY <1>1, <2>4
    <3> HIDE DEF Y, W
    <3> QED BY <2>3, <2>4, <3>1
  <2> QED BY <1>1, <2>1, <2>5
<1>5. CASE ~(n < M * d)
  <2>1. T \in {n \div d, n \div d + 1} /\ Abs(2 * (T * d - n)) <= d
    BY <1>5 DEF Nearest
  <2> HIDE DEF n, d
  <2>2. n \div d \in Int /\ (n \div d) * d <= n /\ n < (n \div d) * d + d
    BY <1>2
  <2>3. T \in Nat /\ T >= M
    <3> DEFINE q == n \div d
    <3>1. q >= M
      <4> SUFFICES ASSUME q + 1 <= M PROVE FALSE
        BY <1>1, <2>2
      <4>1. q \in Int /\ n < (q + 1) * d /\ M * d <= n
        <5>1. M * d \in Int
          BY <1>1, <1>2
        <5> QED BY <1>2, <1>5, <2>2, <5>1
      <4> HIDE DEF q
      <4>2. (M - (q + 1)) * d >= 0
        BY <1>1, <1>2, <4>1
      <4>3. (M - (q + 1)) * d = M * d - (q + 1) * d
        BY <1>1, <1>2, <4>1
      <4> QED BY <1>1, <1>2, <4>1, <4>2, <4>3
    <3> QED BY <1>1, <2>1, <2>2, <3>1
  <2>4. T * d = X * K /\ X \in Nat /\ d = W * K /\ X = p * Y /\ Y \in Nat \ {0}
        /\ (p + 1) * Y = X + Y /\ (p - 1) * Y = X - Y /\ W = p * limit
    <3>1. Y \in Nat \ {0}
      BY <1>1, <2>3
    <3>2. T * d = X * K /\ X \in Nat /\ d = W * K
      BY <1>1, <1>2, <2>3 DEF d
    <3>3. X = p * Y /\ W = p * limit
      BY <1>1, <2>3
    <3> HIDE DEF Y, X, W
    <3> QED BY <1>1, <3>1, <3>2, <3>3
  <2>5. 2 * (X * K) - W * K <= 2 * (far * K + far) /\ 2 * (far * K + far) <= 2 * (X * K) + W * K
    <3>1. T * d \in Int /\ T * d - n \in Int
      BY <1>2, <2>3
    <3>2. -d <= 2 * (T * d - n) /\ 2 * (T * d - n) <= d
      BY <1>2, <2>1, <3>1 DEF Abs
    <3>3. -d <= 2 * (T * d) - 2 * n /\ 2 * (T * d) - 2 * n <= d
      BY <1>2, <3>1, <3>2
    <3> HIDE DEF X, W, Y
    <3>4. X * K \in Int /\ W * K \in Int /\ far * K \in Int
      BY <1>1, <1>2, <2>4
    <3> QED BY <1>2, <1>3, <2>4, <3>3, <3>4
  <2> HIDE DEF X, Y, W
  <2>6. W <= 2 * Y
    <3>1. p <= 2 * T
      BY <1>1, <2>3
    <3>2. p * limit <= (2 * T) * limit
      BY <1>1, <2>3, <3>1, TimesMonotone
    <3> QED BY <2>3, <2>4, <3>2 DEF Y
  <2>7. far <= X + Y
    <3>1. (2 * far) * K <= (2 * X + W) * K
      BY <1>1, <1>2, <2>4, <2>5
    <3>2. 2 * far <= 2 * X + W
      BY <1>1, <1>2, <2>4, <3>1, TimesMonotone
    <3> QED BY <1>2, <2>4, <2>6, <3>2
  <2>8. ASSUME 2 * T >= K PROVE far <= X /\ far > X - Y
    <3>1. K * W <= 2 * X
      <4>1. K * W <= (2 * T) * W
        BY <1>1, <1>2, <2>3, <2>8, TimesMonotone
      <4> QED BY <1>2, <2>3, <4>1 DEF X
    <3>2. far <= X
      <4> SUFFICES ASSUME X + 1 <= far PROVE FALSE
        BY <2>4
      <4>1. (X + 1) * K <= far * K
        BY <1>1, <2>4, TimesMonotone
      <4>2. (X + 1) * K = X * K + K /\ X * K \in Int /\ W * K \in Int /\ far * K \in Int /\ K * W = W * K
        BY <1>1, <1>2, <2>4
      <4> QED BY <1>1, <1>2, <2>4, <2>5, <3>1, <4>1, <4>2
    <3>3. far > X - Y
      <4> SUFFICES ASSUME far + Y <= X PROVE FALSE
        BY <2>4
      <4>1. (far + Y) * K <= X * K
        BY <1>1, <2>4, TimesMonotone
      <4>2. (far + Y) * K = far * K + Y * K /\ {X * K, W * K, far * K, Y * K} \subseteq Int
        BY <1>1, <1>2, <2>4
      <4>3. 2 * (Y * K) + 2 * Y <= 4 * X
        BY <1>1, <1>2, <2>4, <2>5, <3>1, <4>1, <4>2
      <4>4. (2 * K + 2) * Y <= (4 * p) * Y
        BY <1>1, <2>4, <4>3
      <4>5. 2 * K + 2 <= 4 * p
        BY <1>1, <2>4, <4>4, TimesMonotone
      <4> QED BY <1>1, <4>5
    <3> QED BY <3>2, <3>3
  <2> QED BY <1>1, <2>3, <2>4, <2>7, <2>8 DEF Y
<1> QED BY <1>4, <1>5

\* A duration of Durations, with what the slowest joint has to go.
LEMMA ClientDuration ==
  ASSUME NEW from \in JointValues, NEW to \in JointValues, to # from,
         NEW p \in 1 .. MaxPercent, NEW T \in Durations(from, to, p)
  PROVE  LET s == Slowest(from, to)
             far == 100 * Abs(to[s] - from[s])
         IN  /\ T \in Nat /\ T >= MinTicks /\ far > 0
             /\ far <= (p + 1) * (VelocityLimit[s] * T)
             /\ 2 * T >= Ticks =>
                  /\ far <= p * (VelocityLimit[s] * T)
                  /\ far > (p - 1) * (VelocityLimit[s] * T)
<1> DEFINE s == Slowest(from, to)
           D(j) == Abs(to[j] - from[j])
           far == 100 * D(s)
<1>1. s \in Joints /\ \A k \in Joints : D(k) * VelocityLimit[s] <= D(s) * VelocityLimit[k]
  BY SlowestExists
<1>2. \A j \in Joints : D(j) \in Nat /\ VelocityLimit[j] \in Nat \ {0}
  BY AbsTyped, ValidationAssumption DEF JointValues
<1>3. PICK j \in Joints : D(j) > 0
  <2>1. PICK j \in Joints : to[j] # from[j]
    BY DEF JointValues
  <2>2. to[j] - from[j] \in Int /\ to[j] - from[j] # 0
    BY <2>1 DEF JointValues
  <2> QED BY <2>2 DEF Abs
<1>4. T \in IF far * (Ticks + 1) < MinTicks * (VelocityLimit[s] * p * Ticks) THEN {MinTicks}
            ELSE Nearest(far * (Ticks + 1), VelocityLimit[s] * p * Ticks)
  BY DEF Durations
<1> HIDE DEF s, D
<1>5. D(s) > 0
  <2>1. \A m, n \in Nat \ {0} : m * n > 0
    OBVIOUS
  <2>2. D(j) * VelocityLimit[s] > 0
    BY <1>1, <1>2, <1>3, <2>1
  <2>3. D(s) # 0
    <3> SUFFICES ASSUME D(s) = 0 PROVE FALSE
      OBVIOUS
    <3>1. D(s) * VelocityLimit[j] = 0
      BY <1>2
    <3> QED BY <1>1, <1>2, <2>2, <3>1
  <2> QED BY <1>1, <1>2, <2>3
<1>6. far \in Nat \ {0}
  BY <1>1, <1>2, <1>5
<1> HIDE DEF far
<1>7. /\ T \in Nat /\ T >= MinTicks
      /\ far <= (p + 1) * (VelocityLimit[s] * T)
      /\ 2 * T >= Ticks => far <= p * (VelocityLimit[s] * T) /\ far > (p - 1) * (VelocityLimit[s] * T)
  BY <1>1, <1>2, <1>4, <1>6, DurationsKeep
<1> QED BY <1>6, <1>7 DEF far, s, D

LEMMA TwoPointsFacts ==
  ASSUME NEW from \in JointValues, NEW to \in JointValues, NEW T \in Nat
  PROVE  LET t == TwoPoints(from, to, T) IN
           /\ t.supported /\ NamesMatch(t)
           /\ Len(t.points) = 2
           /\ t.points[1] = Point(from, 0) /\ t.points[2] = Point(to, T)
           /\ Target(t, 1) = from /\ Target(t, 2) = to
<1> DEFINE t == TwoPoints(from, to, T)
<1>1. /\ t.supported /\ t.points = <<Point(from, 0), Point(to, T)>>
      /\ t.names = [j \in Joints |-> j]
  BY DEF TwoPoints
<1>2. Len(t.points) = 2 /\ t.points[1] = Point(from, 0) /\ t.points[2] = Point(to, T)
  BY <1>1
<1>3. DOMAIN t.names = Joints /\ Joints = 1 .. JointCount /\ \A j \in Joints : t.names[j] = j
  BY <1>1 DEF Joints
<1>4. Len(t.names) = JointCount
  BY <1>3, ValidationAssumption
<1>5. NamesMatch(t)
  BY <1>3, <1>4 DEF NamesMatch
<1>6. \A j \in Joints : Place(t, j) = j
  BY <1>3 DEF Place
<1>7. Target(t, 1) = from /\ Target(t, 2) = to
  <2>1. t.points[1].positions = from /\ t.points[2].positions = to
    BY <1>2 DEF Point
  <2>2. from = [j \in Joints |-> from[j]] /\ to = [j \in Joints |-> to[j]]
    BY DEF JointValues
  <2>3. ASSUME NEW v \in JointValues PROVE Reordered(t, v) = [j \in Joints |-> v[j]]
    BY <1>6 DEF Reordered
  <2> QED BY <2>1, <2>2, <2>3 DEF Target
<1> QED BY <1>1, <1>2, <1>5, <1>7

\* A percentage keeps the plan of two points exactly when it keeps it for the
\* slowest joint.
LEMMA SlowestDecides ==
  ASSUME NEW from \in JointValues, NEW to \in JointValues, NEW T \in Nat \ {0}, NEW n \in Nat
  PROVE  LET s == Slowest(from, to) IN
           KeepsPlan(TwoPoints(from, to, T), 2, from, n) <=>
             100 * Abs(to[s] - from[s]) <= n * (VelocityLimit[s] * T)
<1> DEFINE t == TwoPoints(from, to, T)
           s == Slowest(from, to)
           D(j) == Abs(to[j] - from[j])
           V(j) == VelocityLimit[j]
<1>1. s \in Joints /\ \A k \in Joints : D(k) * V(s) <= D(s) * V(k)
  BY SlowestExists
<1>2. \A j \in Joints : D(j) \in Nat /\ V(j) \in Nat \ {0}
  BY AbsTyped, ValidationAssumption DEF JointValues
<1>3. /\ t.points[2].time - Since(t, 2) = T
      /\ t.points[2].velocities = <<>> /\ Target(t, 2) = to
  <2>1. /\ t.points[1] = Point(from, 0) /\ t.points[2] = Point(to, T)
        /\ Target(t, 2) = to
    BY TwoPointsFacts
  <2>2. t.points[2 - 1].time = 0
    BY <2>1 DEF Point
  <2>3. Since(t, 2) = 0
    BY <2>2 DEF Since
  <2> QED BY <2>1, <2>3 DEF Point
<1> HIDE DEF t
<1>4. KeepsPlan(t, 2, from, n) <=> \A j \in Joints : 100 * D(j) <= n * V(j) * T
  BY <1>3 DEF KeepsPlan
<1> HIDE DEF s, D, V
<1>5. \A j \in Joints : n * V(j) * T = n * (V(j) * T)
  BY <1>2
<1>6. ASSUME 100 * D(s) <= n * (V(s) * T), NEW j \in Joints
      PROVE  100 * D(j) <= n * (V(j) * T)
  <2> DEFINE a == 100 * D(j)
             b == 100 * D(s)
             m == n * (V(j) * T)
  <2>1. /\ a \in Nat /\ b \in Nat /\ m \in Nat /\ n * (V(s) * T) \in Nat
        /\ V(s) \in Nat \ {0} /\ V(j) \in Nat \ {0}
    BY <1>1, <1>2
  <2>2. a * V(s) <= b * V(j)
    <3>1. D(j) * V(s) \in Nat /\ D(s) * V(j) \in Nat /\ D(j) * V(s) <= D(s) * V(j)
      BY <1>1, <1>2
    <3>2. a * V(s) = 100 * (D(j) * V(s)) /\ b * V(j) = 100 * (D(s) * V(j))
      BY <1>1, <1>2
    <3> QED BY <3>1, <3>2
  <2>3. b * V(j) <= (n * (V(s) * T)) * V(j)
    BY <1>6, <2>1, TimesMonotone
  <2>4. (n * (V(s) * T)) * V(j) = m * V(s)
    BY <1>1, <1>2
  <2> HIDE DEF a, b, m
  <2>5. a * V(s) <= m * V(s)
    <3>1. a * V(s) \in Nat /\ b * V(j) \in Nat /\ m * V(s) \in Nat
      BY <2>1
    <3> QED BY <2>2, <2>3, <2>4, <3>1
  <2>6. a <= m
    BY <2>1, <2>5, TimesMonotone
  <2> QED BY <2>6 DEF a, m
<1>7. KeepsPlan(t, 2, from, n) <=> 100 * D(s) <= n * (V(s) * T)
  BY <1>1, <1>4, <1>5, <1>6
<1> QED BY <1>7 DEF t, s, D, V


-----------------------------------------------------------------------------
(***************************************************************************)
(* JointTargets: the invariant of the client, and the controller in it.    *)
(***************************************************************************)

\* A goal the client makes of a valid target, for a percentage.
Made(g, percent) ==
  \E from \in Positions, plan \in JointPlans :
    /\ ValidJointTarget(plan, from)
    /\ percent = Resolved(plan)
    /\ \E T \in Durations(from, plan.positions, percent) : g = TwoPoints(from, plan.positions, T)

\* What is on its way, and what was accepted from this client last, the client has made.
JointInv ==
  /\ sample \in Positions \cup {None}
  /\ sent # None => Made(sent.goal, sent.percent)
  /\ asked \in 0 .. MaxPercent
  /\ asked # 0 => Made(goal, asked)

LEMMA MadeTyped ==
  ASSUME NEW g, NEW percent, Made(g, percent)
  PROVE  /\ percent \in 1 .. MaxPercent
         /\ g \in ClientTrajectories /\ g \in Trajectories /\ g \in RawTrajectory
<1>1. PICK from \in Positions, plan \in JointPlans :
        /\ ValidJointTarget(plan, from)
        /\ percent = Resolved(plan)
        /\ \E T \in Durations(from, plan.positions, percent) : g = TwoPoints(from, plan.positions, T)
  BY DEF Made
<1>2. percent \in 1 .. MaxPercent
  BY <1>1, ValidationAssumption DEF ValidJointTarget, Resolved
<1>3. percent \in Percents
  BY <1>1, <1>2, ClientAssumption
<1>4. g \in ClientTrajectories
  <2> DEFINE Of(f, q, n) == {TwoPoints(f, q.positions, T) : T \in Durations(f, q.positions, n)}
  <2>1. g \in Of(from, plan, percent)
    BY <1>1
  <2> HIDE DEF Of
  <2>2. g \in UNION {Of(f, q, n) : f \in Positions, q \in JointPlans, n \in Percents}
    BY <1>3, <2>1
  <2> QED BY <2>2 DEF ClientTrajectories, Of
<1> QED BY <1>2, <1>4, ClientAssumption, ControllerAssumption

\* With the step of the client goes a step of the controller's, or none.
LEMMA JointStepIsControllers ==
  ASSUME JointInv, [JointNext]_jointVars PROVE [Next]_vars
<1>1. CASE Accepted
  <2>1. sent.goal \in Trajectories /\ GoalAccepted(sent.goal)
    BY <1>1, MadeTyped DEF JointInv, Accepted
  <2> QED BY <2>1 DEF Next
<1>2. CASE OtherGoal
  BY <1>2 DEF OtherGoal, Next
<1>3. CASE DriverSteps
  BY <1>3 DEF DriverSteps, Next
<1>4. CASE JointStateCallback \/ Send \/ Rejected \/ UNCHANGED jointVars
  BY <1>4 DEF JointStateCallback, Send, Rejected, jointVars
<1> QED BY <1>1, <1>2, <1>3, <1>4 DEF JointNext

LEMMA JointInvInit == JointInit => JointInv
  BY ValidationAssumption DEF JointInit, JointInv

LEMMA JointInvInductive ==
  ASSUME TypeOK, JointInv, [JointNext]_jointVars PROVE JointInv'
<1>1. CASE JointStateCallback
  <2>1. cache \in Positions
    BY <1>1 DEF JointStateCallback, TypeOK
  <2> QED BY <1>1, <2>1 DEF JointStateCallback, JointInv, vars, Made
<1>2. CASE Send
  <2>1. PICK plan \in JointPlans :
          /\ ValidJointTarget(plan, sample)
          /\ \E duration \in Durations(sample, plan.positions, Resolved(plan)) :
               sent' = [goal |-> TwoPoints(sample, plan.positions, duration),
                        percent |-> Resolved(plan)]
    BY <1>2 DEF Send
  <2>2. sample \in Positions /\ UNCHANGED <<sample, asked, goal>>
    BY <1>2 DEF Send, JointInv, vars
  <2>3. Made(sent'.goal, sent'.percent)
    BY <2>1, <2>2 DEF Made
  <2>4. Made(sent.goal, sent.percent)'
    BY <2>3 DEF Made
  <2> QED BY <2>2, <2>4 DEF JointInv, Made
<1>3. CASE Accepted
  <2>1. /\ Made(sent.goal, sent.percent)
        /\ goal' = sent.goal /\ asked' = sent.percent /\ sent' = None /\ sample' = sample
    BY <1>3 DEF Accepted, GoalAccepted, JointInv
  <2>2. Made(goal, asked)' /\ asked' \in 0 .. MaxPercent
    <3>1. Made(goal', asked')
      BY <2>1
    <3> QED BY <2>1, <3>1, MadeTyped DEF Made
  <2> QED BY <2>1, <2>2 DEF JointInv
<1>4. CASE Rejected
  BY <1>4 DEF Rejected, JointInv, vars, Made
<1>5. CASE OtherGoal
  BY <1>5, ValidationAssumption DEF OtherGoal, JointInv, Made
<1>6. CASE DriverSteps \/ UNCHANGED jointVars
  <2>1. UNCHANGED <<goal, sample, sent, asked>>
    BY <1>6 DEF DriverSteps, clientVars, jointVars, vars, SessionChanges, Poll, OtherAccepted,
       OtherExecutes, serverVars, Begin, Blocked, Skip, Reaches, Misses, Fails, Succeeds, Commands
  <2> QED BY <2>1 DEF JointInv, Made
<1> QED BY <1>1, <1>2, <1>3, <1>4, <1>5, <1>6 DEF JointNext

LEMMA JointInvHolds == JointSpec => [](IInv /\ JointInv)
<1>1. JointInit => IInv /\ JointInv
  BY JointInvInit, InitIInv DEF JointInit
<1>2. IInv /\ JointInv /\ [JointNext]_jointVars => (IInv /\ JointInv)'
  <2> SUFFICES ASSUME IInv, JointInv, [JointNext]_jointVars PROVE IInv' /\ JointInv'
    OBVIOUS
  <2>1. IInv'
    BY JointStepIsControllers, IInvInductive
  <2> QED BY <2>1, JointInvInductive DEF IInv
<1> QED BY <1>1, <1>2, PTL DEF JointSpec

\* A client's joint targets make of the controller a controller: all that the
\* theorems above say of Spec holds with the client.
THEOREM JointImplementsController == JointSpec => Spec
<1>1. JointInit => Init
  BY DEF JointInit
<1>2. JointInv /\ [JointNext]_jointVars => [Next]_vars
  BY JointStepIsControllers
<1> QED BY <1>1, <1>2, JointInvHolds, PTL DEF JointSpec, Spec

\* The joint targets' states are well typed: what the client makes is among the
\* trajectories, at a percentage the driver allows.
THEOREM JointTypeCorrect == JointSpec => []JointTypeOK
<1>1. IInv /\ JointInv => JointTypeOK
  BY MadeTyped DEF IInv, JointInv, JointTypeOK
<1> QED BY <1>1, JointInvHolds, PTL

\* A direct move is no longer than its cap whatever the client asks for.
THEOREM JointMoveIsBounded == JointSpec => []DirectMoveBounded
  BY JointImplementsController, DirectMoveIsBounded, PTL

-----------------------------------------------------------------------------
(***************************************************************************)
(* JointTargets: what the driver makes of the client's goals.              *)
(***************************************************************************)

\* A goal the client makes is valid, unless the arm was outside its limits when the
\* client saw it or the driver takes one point.
LEMMA MadeValid ==
  ASSUME NEW g, NEW percent, Made(g, percent), NEW at \in JointValues,
         g.points[1].positions = at, Within(Lower, at, Upper), MaxPoints # 1
  PROVE  /\ ValidTrajectory(g)
         /\ Target(g, 1) = at /\ Len(g.points) = 2 /\ Near(Target(g, 2), at, Delta)
<1>1. PICK from \in Positions, plan \in JointPlans :
        /\ ValidJointTarget(plan, from)
        /\ percent = Resolved(plan)
        /\ \E T \in Durations(from, plan.positions, percent) : g = TwoPoints(from, plan.positions, T)
  BY DEF Made
<1> DEFINE to == plan.positions
<1>2. PICK T \in Durations(from, to, percent) : g = TwoPoints(from, to, T)
  BY <1>1
<1>3. /\ percent \in 1 .. MaxPercent /\ g \in RawTrajectory
      /\ from \in JointValues /\ to \in JointValues /\ to # from
      /\ Within(Lower, to, Upper) /\ Near(to, from, Delta)
  BY <1>1, MadeTyped, ControllerAssumption, JointTargetsAssumption DEF ValidJointTarget
<1>4. T \in Nat \ {0}
  <2>1. T \in Nat /\ T >= MinTicks
    BY <1>3, ClientDuration
  <2> QED BY <2>1, JointTargetsAssumption
<1> HIDE DEF to
<1>5. /\ g.supported /\ NamesMatch(g) /\ Len(g.points) = 2
      /\ g.points[1] = Point(from, 0) /\ g.points[2] = Point(to, T)
      /\ Target(g, 1) = from /\ Target(g, 2) = to
  BY <1>2, <1>3, <1>4, TwoPointsFacts
<1>6. from = at
  BY <1>5 DEF Point
<1>7. /\ g.points[1].time = 0 /\ g.points[2].time = T
      /\ g.points[1].velocities = <<>> /\ g.points[2].velocities = <<>>
      /\ g.points[1].positions = from /\ g.points[2].positions = to
  BY <1>5 DEF Point
<1>8. Len(from) = JointCount /\ Len(to) = JointCount
  <2>1. g.points[1] \in RawPoint /\ g.points[2] \in RawPoint
    BY <1>3, <1>5, PointTyped
  <2>2. from \in Seq(Int) /\ to \in Seq(Int)
    BY <1>7, <2>1 DEF RawPoint
  <2>3. \A v \in Seq(Int) : v \in JointValues => Len(v) = JointCount
    BY ValidationAssumption DEF JointValues, Joints
  <2> QED BY <1>3, <2>2, <2>3
<1>9. PointValid(g, 1) /\ PointValid(g, 2)
  BY <1>3, <1>4, <1>5, <1>6, <1>7, <1>8 DEF PointValid
<1>10. StepValid(g, 2)
  <2>1. Near(to, from, MaxJointStep)
    <3>1. \A j \in Joints : Abs(to[j] - from[j]) <= Delta /\ Abs(to[j] - from[j]) \in Nat
      BY <1>3, AbsTyped DEF Near, JointValues
    <3>2. Delta \in Nat /\ Delta <= MaxJointStep
      BY ValidationAssumption, ControllerAssumption, JointTargetsAssumption DEF Delta
    <3>3. MaxJointStep \in Nat
      BY ValidationAssumption
    <3> QED BY <3>1, <3>2, <3>3 DEF Near
  <2>2. g.points[2].time > g.points[2 - 1].time /\ Target(g, 2 - 1) = from
    BY <1>4, <1>5, <1>7
  <2> QED BY <1>5, <2>1, <2>2 DEF StepValid
<1>11. Len(g.points) \in 1 .. MaxPoints
  BY <1>5, ValidationAssumption
<1>12. ValidTrajectory(g)
  BY <1>5, <1>9, <1>10, <1>11 DEF ValidTrajectory
<1> QED BY <1>3, <1>5, <1>6, <1>12

\* The driver starts it, when the arm is where the client saw it.
LEMMA MadeStartable ==
  ASSUME TypeOK, NEW g, NEW percent, Made(g, percent), CanExecute,
         g.points[1].positions = cache, Within(Lower, cache, Upper), MaxPoints # 1
  PROVE  Startable(g)
<1>1. cache \in JointValues
  <2>1. PICK from \in Positions, plan \in JointPlans :
          \E T \in Durations(from, plan.positions, percent) : g = TwoPoints(from, plan.positions, T)
    BY DEF Made
  <2>2. cache = from
    BY <2>1 DEF TwoPoints, Point
  <2> QED BY <2>2, ControllerAssumption
<1>2. cache # NoSample
  BY <1>1, ControllerAssumption
<1>3. /\ ValidTrajectory(g)
      /\ Target(g, 1) = cache /\ Len(g.points) = 2 /\ Near(Target(g, 2), cache, Delta)
  BY <1>1, MadeValid
<1>4. Near(Target(g, 1), cache, StartTolerance)
  <2>1. \A j \in Joints : Abs(cache[j] - cache[j]) = 0
    BY <1>1 DEF Abs, JointValues
  <2> QED BY <1>3, <2>1, ControllerAssumption DEF Near
<1>5. ASSUME ExecutionMode = "goal_only"
      PROVE  AllowGoalOnly /\ Near(Target(g, Len(g.points)), cache, GoalOnlyMaxDelta)
  <2>1. Target(g, 2) \in JointValues
    BY <1>3, MadeTyped, TargetTyped
  <2>2. \A j \in Joints : /\ Abs(Target(g, 2)[j] - cache[j]) \in Nat
                          /\ Abs(Target(g, 2)[j] - cache[j]) <= Delta
    BY <1>1, <1>3, <2>1, AbsTyped DEF Near, JointValues
  <2>3. Delta \in Nat /\ Delta <= GoalOnlyMaxDelta /\ GoalOnlyMaxDelta \in Nat
    BY <1>5, ControllerAssumption, JointTargetsAssumption DEF Delta
  <2> QED BY <1>3, <1>5, <2>2, <2>3 DEF Near, CanExecute
<1> QED BY <1>2, <1>3, <1>4, <1>5 DEF Startable

\* The client's own checks refuse what the driver's would: a goal of the client's is
\* rejected only by a driver that is busy or not ready, or when the arm has moved.
THEOREM RefusedOnlyThen == JointSpec => RefusedOnlyWhenBusyOrMoved
<1> DEFINE A == sent # None /\ sent' = None /\ reserved' = reserved =>
                  \/ ~CanExecute
                  \/ reserved # "nobody"
                  \/ sent.goal.points[1].positions # cache
                  \/ ~Within(Lower, cache, Upper)
                  \/ MaxPoints = 1
<1>1. IInv /\ JointInv /\ [JointNext]_jointVars => [A]_jointVars
  <2> SUFFICES ASSUME IInv, JointInv, JointNext, sent # None, sent' = None, reserved' = reserved,
                      CanExecute, reserved = "nobody",
                      sent.goal.points[1].positions = cache, Within(Lower, cache, Upper),
                      MaxPoints # 1
               PROVE  FALSE
    OBVIOUS
  <2>1. Rejected
    BY DEF JointNext, JointStateCallback, Send, Accepted, GoalAccepted, OtherGoal, DriverSteps,
       clientVars
  <2>2. ~Startable(sent.goal)
    BY <2>1 DEF Rejected
  <2>3. Made(sent.goal, sent.percent)
    BY DEF JointInv
  <2> QED BY <2>2, <2>3, MadeStartable DEF IInv
<1> QED BY <1>1, JointInvHolds, PTL DEF JointSpec, RefusedOnlyWhenBusyOrMoved

\* The driver works out of the duration the percentage the duration was made for: one
\* more at most, and exactly it when the move takes half a second.
THEOREM PercentIsNearSelected == JointSpec => []PercentNearSelected
<1>1. ASSUME IInv, JointInv PROVE PercentNearSelected
  <2> SUFFICES ASSUME AsSeen
               PROVE  /\ move.percent <= asked + 1
                      /\ 2 * goal.points[2].time >= Ticks => move.percent = asked
    BY DEF PercentNearSelected
  <2>1. /\ Made(goal, asked) /\ asked \in 1 .. MaxPercent
        /\ move.point = 2 /\ move.from = goal.points[1].positions
        /\ ValidTrajectory(goal) /\ goal \in RawTrajectory
        /\ 2 \in FirstCommanded(goal) .. Len(goal.points)
        /\ move.percent = SegmentPercent(goal, 2, move.from, Since(goal, 2))
    BY <1>1, GoalFacts DEF AsSeen, JointInv, IInv, MoveInv, Last
  <2>2. PICK from \in Positions, plan \in JointPlans :
          /\ ValidJointTarget(plan, from)
          /\ \E T \in Durations(from, plan.positions, asked) :
               goal = TwoPoints(from, plan.positions, T)
    BY <2>1 DEF Made
  <2> DEFINE to == plan.positions
             s == Slowest(from, to)
             far == 100 * Abs(to[s] - from[s])
             Y(T) == VelocityLimit[s] * T
  <2>3. PICK T \in Durations(from, to, asked) : goal = TwoPoints(from, to, T)
    BY <2>2
  <2>4. from \in JointValues /\ to \in JointValues /\ to # from
    BY <2>2, ControllerAssumption, JointTargetsAssumption DEF ValidJointTarget
  <2> HIDE DEF to
  <2>5. /\ T \in Nat /\ T >= MinTicks /\ far > 0
        /\ far <= (asked + 1) * Y(T)
        /\ 2 * T >= Ticks => far <= asked * Y(T) /\ far > (asked - 1) * Y(T)
    BY <2>1, <2>3, <2>4, ClientDuration
  <2>6. T \in Nat \ {0}
    BY <2>5, JointTargetsAssumption
  <2>7. move.from = from /\ goal.points[2].time = T
    <3>1. goal.points[1] = Point(from, 0) /\ goal.points[2] = Point(to, T)
      BY <2>3, <2>4, <2>6, TwoPointsFacts
    <3> QED BY <2>1, <3>1 DEF Point
  <2>8. \A n \in Nat : KeepsPlan(goal, 2, from, n) <=> far <= n * Y(T)
    BY <2>3, <2>4, <2>6, SlowestDecides
  <2>9. far \in Nat /\ Y(T) \in Nat \ {0}
    <3>1. s \in Joints
      BY <2>4, SlowestExists
    <3>2. VelocityLimit[s] \in Nat \ {0} /\ to[s] - from[s] \in Int
      BY <2>4, <3>1, ValidationAssumption DEF JointValues
    <3>3. Abs(to[s] - from[s]) \in Nat
      BY <3>2, AbsTyped
    <3> QED BY <2>6, <3>2, <3>3
  <2>10. /\ move.percent \in 1 .. MaxPercent
         /\ IF KeepsPlan(goal, 2, from, 0)
            THEN move.percent = DefaultPercent
            ELSE /\ KeepsPlan(goal, 2, from, move.percent) \/ move.percent = MaxPercent
                 /\ ~KeepsPlan(goal, 2, from, move.percent - 1)
    BY <2>1, <2>4, <2>7, SegmentSpeed
  <2> HIDE DEF far, Y
  <2> DEFINE n == move.percent
             y == Y(T)
  <2>11. n \in Nat \ {0} /\ asked \in Nat \ {0} /\ n <= MaxPercent /\ asked <= MaxPercent
         /\ MaxPercent \in Nat
    BY <2>1, <2>10, ValidationAssumption
  <2>12. (far <= n * y \/ n = MaxPercent) /\ ~(far <= (n - 1) * y)
    <3>1. ~KeepsPlan(goal, 2, from, 0)
      BY <2>5, <2>8, <2>9
    <3> HIDE DEF y
    <3>2. (KeepsPlan(goal, 2, from, n) \/ n = MaxPercent) /\ ~KeepsPlan(goal, 2, from, n - 1)
      BY <2>10, <3>1
    <3> QED BY <2>8, <2>11, <3>2 DEF y
  <2> HIDE DEF n, y
  <2>13. y \in Nat \ {0} /\ \A k, m \in Nat : k <= m => k * y <= m * y
    BY <2>9, TimesMonotone DEF y
  <2>14. \A k, m \in Nat : far <= k * y /\ k <= m => far <= m * y
    <3> TAKE k \in Nat, m \in Nat
    <3>1. k * y \in Nat /\ m * y \in Nat
      BY <2>13
    <3> QED BY <2>9, <2>13, <3>1
  <2>15. n <= asked + 1
    <3> SUFFICES ASSUME asked + 1 <= n - 1 PROVE FALSE
      BY <2>11
    <3>1. asked + 1 \in Nat /\ n - 1 \in Nat
      BY <2>11
    <3> QED BY <2>5, <2>12, <2>14, <3>1 DEF y
  <2>16. ASSUME 2 * T >= Ticks PROVE n = asked
    <3>1. far <= asked * y /\ ~(far <= (asked - 1) * y)
      <4>1. (asked - 1) * y \in Int
        BY <2>11, <2>13
      <4> QED BY <2>5, <2>9, <2>16, <4>1 DEF y
    <3>2. n - 1 \in Nat /\ asked - 1 \in Nat
      BY <2>11
    <3>3. ~(asked <= n - 1)
      BY <2>11, <2>12, <2>14, <3>1, <3>2
    <3>4. ~(n <= asked - 1)
      BY <2>11, <2>12, <2>14, <3>1, <3>2
    <3> QED BY <2>11, <3>3, <3>4
  <2> QED BY <2>7, <2>15, <2>16 DEF n
<1>2. IInv /\ JointInv => PercentNearSelected
  BY <1>1
<1> QED BY <1>2, JointInvHolds, PTL

=============================================================================
