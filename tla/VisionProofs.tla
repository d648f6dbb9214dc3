----------------------------- MODULE VisionProofs -----------------------------
(***************************************************************************)
(* Theorems about VisionBridge and ObjectSelection, for every set of       *)
(* batches a detector may send and of requests operators may make, every   *)
(* matrix and every limit.                                                 *)
(***************************************************************************)
EXTENDS ObjectSelection, SequenceTheorems, FiniteSetTheorems, WellFoundedInduction, TLAPS

-----------------------------------------------------------------------------
(***************************************************************************)
(* What a batch that passes every check is.                                *)
(***************************************************************************)

\* A nonempty set of integers that is finite has a least member: the set of what is
\* not above it is the smallest such set.
LEMMA LeastExists ==
  ASSUME NEW S \in SUBSET Int, S # {}, IsFiniteSet(S)
  PROVE  \E n \in S : \A m \in S : n <= m
<1> DEFINE UpTo(n) == {m \in S : m <= n}
           Heads == {UpTo(n) : n \in S}
<1>1. Heads \subseteq FiniteSubsetsOf(S) /\ Heads # {}
  <2>1. \A n \in S : UpTo(n) \in SUBSET S
    OBVIOUS
  <2> HIDE DEF UpTo
  <2>2. \A n \in S : UpTo(n) \in FiniteSubsetsOf(S)
    BY <2>1, FS_Subset DEF FiniteSubsetsOf
  <2> QED BY <2>2
<1>2. PICK T \in Heads : \A U \in Heads : ~(<<U, T>> \in StrictSubsetOrdering(S))
  <2> HIDE DEF Heads
  <2> QED BY <1>1, FS_StrictSubsetOrderingWellFounded, WFMin
<1>3. PICK n \in S : T = UpTo(n)
  OBVIOUS
<1>4. \A m \in S : n <= m
  <2> SUFFICES ASSUME NEW m \in S, m < n PROVE FALSE
    OBVIOUS
  <2>1. UpTo(m) \subseteq UpTo(n) /\ n \in UpTo(n) /\ n \notin UpTo(m)
    <3>1. \A k \in S : k <= m => k <= n
      BY S \subseteq Int
    <3>2. n <= n /\ ~(n <= m)
      BY S \subseteq Int
    <3> QED BY <3>1, <3>2
  <2>2. <<UpTo(m), UpTo(n)>> \in StrictSubsetOrdering(S)
    <3>1. UpTo(m) \in SUBSET S /\ UpTo(n) \in SUBSET S
      OBVIOUS
    <3> HIDE DEF UpTo
    <3>2. UpTo(m) # UpTo(n)
      BY <2>1
    <3> QED BY <2>1, <3>1, <3>2 DEF StrictSubsetOrdering
  <2>3. UpTo(m) \in Heads
    OBVIOUS
  <2> QED BY <1>2, <1>3, <2>2, <2>3
<1> QED BY <1>4

LEMMA BatchTyped ==
  ASSUME NEW b \in Batches
  PROVE  /\ b.detections \in Seq(Detected) /\ Len(b.detections) \in Nat
         /\ DOMAIN b.detections = 1 .. Len(b.detections)
         /\ \A i \in DOMAIN b.detections : b.detections[i] \in Detected
         /\ b.count \in Nat /\ b.sequence \in Nat /\ b.length \in Int
         /\ {b.envelope, b.rest} \subseteq Verdicts
  BY BridgeAssumption

\* The checks are the first three, one for each detection, and the last two.
LEMMA ChecksAre ==
  ASSUME NEW b \in Batches
  PROVE  /\ Checks(b) \in Seq(Verdicts) /\ Len(Checks(b)) = Len(b.detections) + 5
         /\ Checks(b)[1] = b.envelope
         /\ Checks(b)[2] = Refusing(Len(b.detections) > MaxDetections)
         /\ Checks(b)[3] = Refusing(b.count # Len(b.detections))
         /\ \A i \in 1 .. Len(b.detections) : Checks(b)[3 + i] = b.detections[i].fields
         /\ Checks(b)[4 + Len(b.detections)]
              = Refusing(\E i, j \in DOMAIN b.detections :
                           i # j /\ b.detections[i].track = b.detections[j].track)
<1> DEFINE n == Len(b.detections)
           first == <<b.envelope, Refusing(n > MaxDetections), Refusing(b.count # n)>>
           each == [i \in DOMAIN b.detections |-> b.detections[i].fields]
           last == <<Refusing(\E i, j \in DOMAIN b.detections :
                                i # j /\ b.detections[i].track = b.detections[j].track), b.rest>>
           front == first \o each
<1>1. first \in Seq(Verdicts) /\ Len(first) = 3
  BY BatchTyped DEF Refusing, Verdicts
<1>2. last \in Seq(Verdicts) /\ Len(last) = 2
  BY BatchTyped DEF Refusing, Verdicts
<1>3. n \in Nat /\ each \in Seq(Verdicts) /\ Len(each) = n
        /\ \A i \in 1 .. n : each[i] = b.detections[i].fields
  <2>1. n \in Nat /\ DOMAIN b.detections = 1 .. n
    BY BatchTyped
  <2>2. \A i \in 1 .. n : b.detections[i].fields \in Verdicts
    BY <2>1, BatchTyped DEF Detected
  <2>3. each = [i \in 1 .. n |-> b.detections[i].fields] /\ each \in [1 .. n -> Verdicts]
    BY <2>1, <2>2
  <2> HIDE DEF n, each
  <2>4. each \in Seq(Verdicts) /\ DOMAIN each = 1 .. n
    BY <2>1, <2>3, SeqDef
  <2>5. Len(each) = n
    BY <2>1, <2>4, LenProperties
  <2> QED BY <2>1, <2>3, <2>4, <2>5
<1>4. Checks(b) = front \o last
  BY DEF Checks
<1>5. first[1] = b.envelope /\ first[2] = Refusing(n > MaxDetections)
        /\ first[3] = Refusing(b.count # n)
        /\ last[1] = Refusing(\E i, j \in DOMAIN b.detections :
                                i # j /\ b.detections[i].track = b.detections[j].track)
  OBVIOUS
<1> HIDE DEF first, each, last, n
<1>6. /\ front \in Seq(Verdicts) /\ Len(front) = 3 + n
      /\ \A i \in 1 .. 3 + n : front[i] = IF i <= 3 THEN first[i] ELSE each[i - 3]
  <2>1. /\ front \in Seq(Verdicts) /\ Len(front) = Len(first) + Len(each)
        /\ \A i \in 1 .. Len(first) + Len(each) :
             front[i] = IF i <= Len(first) THEN first[i] ELSE each[i - Len(first)]
    BY <1>1, <1>3, ConcatProperties
  <2> HIDE DEF front
  <2> QED BY <1>1, <1>3, <2>1
<1> HIDE DEF front
<1>7. /\ Checks(b) \in Seq(Verdicts) /\ Len(Checks(b)) = n + 5
      /\ \A i \in 1 .. 3 + n : Checks(b)[i] = front[i]
      /\ Checks(b)[4 + n] = last[1]
  <2>1. /\ front \o last \in Seq(Verdicts) /\ Len(front \o last) = Len(front) + Len(last)
        /\ \A i \in 1 .. Len(front) + Len(last) :
             (front \o last)[i] = IF i <= Len(front) THEN front[i] ELSE last[i - Len(front)]
    BY <1>2, <1>6, ConcatProperties
  <2>2. /\ Checks(b) \in Seq(Verdicts) /\ Len(Checks(b)) = (3 + n) + 2
        /\ \A i \in 1 .. (3 + n) + 2 :
             Checks(b)[i] = IF i <= 3 + n THEN front[i] ELSE last[i - (3 + n)]
    BY <1>2, <1>4, <1>6, <2>1
  <2>3. Checks(b)[4 + n] = last[(4 + n) - (3 + n)] /\ (4 + n) - (3 + n) = 1
    BY <1>3, <2>2
  <2>4. \A i \in 1 .. 3 + n : Checks(b)[i] = front[i]
    BY <1>3, <2>2
  <2> QED BY <1>3, <2>2, <2>3, <2>4
<1>8. \A i \in 1 .. 3 : Checks(b)[i] = first[i]
  BY <1>3, <1>6, <1>7
<1>9. ASSUME NEW i \in 1 .. n PROVE Checks(b)[3 + i] = b.detections[i].fields
  <2>1. 3 + i \in 1 .. 3 + n /\ ~(3 + i <= 3) /\ (3 + i) - 3 = i
    BY <1>3
  <2>2. Checks(b)[3 + i] = each[(3 + i) - 3]
    BY <1>6, <1>7, <2>1
  <2> QED BY <1>3, <2>1, <2>2
<1> QED BY <1>5, <1>7, <1>8, <1>9 DEF n

\* A good verdict says that nothing was bad.
LEMMA GoodVerdict ==
  ASSUME NEW b \in Batches, Verdict(b) = "good"
  PROVE  \A i \in 1 .. Len(b.detections) + 5 : Checks(b)[i] = "good"
<1> DEFINE bad == {i \in DOMAIN Checks(b) : Checks(b)[i] # "good"}
<1>1. DOMAIN Checks(b) = 1 .. Len(b.detections) + 5 /\ Len(b.detections) \in Nat
  <2>1. Checks(b) \in Seq(Verdicts) /\ Len(Checks(b)) = Len(b.detections) + 5
    BY ChecksAre
  <2> QED BY <2>1, BatchTyped, LenProperties
<1>2. bad = {}
  <2> SUFFICES ASSUME bad # {} PROVE FALSE
    OBVIOUS
  <2>1. bad \in SUBSET Int /\ IsFiniteSet(bad)
    <3>1. bad \in SUBSET (1 .. Len(b.detections) + 5) /\ Len(b.detections) + 5 \in Int
      BY <1>1
    <3> HIDE DEF bad
    <3>2. IsFiniteSet(1 .. Len(b.detections) + 5)
      BY <3>1, FS_Interval
    <3>3. IsFiniteSet(bad)
      BY <3>1, <3>2, FS_Subset
    <3> QED BY <3>1, <3>3
  <2> HIDE DEF bad
  <2>2. \E i \in bad : \A j \in bad : i <= j
    BY <2>1, LeastExists
  <2>3. Checks(b)[CHOOSE i \in bad : \A j \in bad : i <= j] = "good"
    BY DEF Verdict, bad
  <2>4. (CHOOSE i \in bad : \A j \in bad : i <= j) \in bad
    BY <2>2
  <2> QED BY <2>3, <2>4 DEF bad
<1> QED BY <1>1, <1>2

\* So a batch that is published has no more detections than configured, as many as
\* it says, every one of them parsed and each with a track ID of its own.
LEMMA GoodBatch ==
  ASSUME NEW b \in Batches, Verdict(b) = "good"
  PROVE  /\ Len(b.detections) \in 0 .. MaxDetections
         /\ b.count = Len(b.detections)
         /\ \A i \in 1 .. Len(b.detections) : b.detections[i].fields = "good"
         /\ \A i, j \in 1 .. Len(b.detections) :
              b.detections[i].track = b.detections[j].track => i = j
<1> DEFINE n == Len(b.detections)
<1>1. n \in Nat /\ DOMAIN b.detections = 1 .. n /\ MaxDetections \in Nat
  BY BatchTyped, BridgeAssumption
<1>2. Checks(b)[2] = "good" /\ Checks(b)[3] = "good" /\ Checks(b)[4 + n] = "good"
        /\ \A i \in 1 .. n : Checks(b)[3 + i] = "good"
  <2>1. 2 \in 1 .. n + 5 /\ 3 \in 1 .. n + 5 /\ 4 + n \in 1 .. n + 5
          /\ \A i \in 1 .. n : 3 + i \in 1 .. n + 5
    BY <1>1
  <2> QED BY <2>1, GoodVerdict
<1>3. ~(n > MaxDetections) /\ ~(b.count # n)
        /\ ~(\E i, j \in DOMAIN b.detections :
               i # j /\ b.detections[i].track = b.detections[j].track)
  <2>1. Refusing(n > MaxDetections) = "good" /\ Refusing(b.count # n) = "good"
          /\ Refusing(\E i, j \in DOMAIN b.detections :
                        i # j /\ b.detections[i].track = b.detections[j].track) = "good"
    BY <1>2, ChecksAre
  <2> QED BY <2>1 DEF Refusing
<1>4. ASSUME NEW i \in 1 .. n PROVE b.detections[i].fields = "good"
  BY <1>2, ChecksAre
<1>5. n \in 0 .. MaxDetections /\ b.count = n
  BY <1>1, <1>3, BatchTyped
<1> QED BY <1>1, <1>3, <1>4, <1>5

-----------------------------------------------------------------------------
(***************************************************************************)
(* What is published for a batch.                                          *)
(***************************************************************************)
LEMMA MessageIs ==
  ASSUME NEW b \in Batches
  PROVE  Message(b) = {Normalized(b.detections[i], b) : i \in 1 .. Len(b.detections)}
  BY BatchTyped DEF Message, Items

LEMMA NormalizedTyped ==
  ASSUME NEW b \in Batches, NEW i \in 1 .. Len(b.detections)
  PROVE  Normalized(b.detections[i], b) \in Detections
<1> DEFINE d == b.detections[i]
<1>1. d \in Detected /\ b.length \in Int
  BY BatchTyped
<1> HIDE DEF d
<1>2. Matrix[1] \in Int /\ Matrix[2] \in Int /\ Matrix[3] \in Int /\ Matrix[4] \in Int
        /\ Translation[1] \in Int /\ Translation[2] \in Int
  BY BridgeAssumption
<1>3. Transform(d, b) \in Int \X Int
  <2>1. d.x \in Int /\ (IF b.edge = "top" THEN d.s ELSE b.length - d.s) \in Int
    BY <1>1 DEF Detected
  <2>2. \A u, v, w, y, t \in Int : u * v + w * y + t \in Int
    OBVIOUS
  <2> QED BY <1>2, <2>1, <2>2 DEF Transform
<1>4. Valid(d) \in BOOLEAN
  BY <1>1, BridgeAssumption DEF Valid, Detected
<1> QED BY <1>1, <1>3, <1>4 DEF Normalized, Detections, Detected, d

LEMMA MessageTyped ==
  ASSUME NEW b \in Batches
  PROVE  Message(b) \subseteq Detections
  BY MessageIs, NormalizedTyped

\* A message holds finitely many detections.
LEMMA MessageFinite ==
  ASSUME NEW b \in Batches
  PROVE  IsFiniteSet(Message(b))
<1> DEFINE n == Len(b.detections)
           f == [i \in 1 .. n |-> Normalized(b.detections[i], b)]
<1>1. n \in Nat
  BY BatchTyped
<1>2. f \in Surjection(1 .. n, Message(b))
  BY MessageIs DEF Surjection
<1>3. IsFiniteSet(1 .. n)
  BY <1>1, FS_Interval
<1> QED BY <1>2, <1>3, FS_Surjection

\* In a good batch, track IDs tell the detections apart, so none is lost in the set.
LEMMA MessageCounts ==
  ASSUME NEW b \in Batches, Verdict(b) = "good", NEW S \in SUBSET (1 .. Len(b.detections))
  PROVE  Cardinality({Normalized(b.detections[i], b) : i \in S}) = Cardinality(S)
<1> DEFINE T == {Normalized(b.detections[i], b) : i \in S}
           f == [i \in S |-> Normalized(b.detections[i], b)]
<1>1. \A i, j \in S : Normalized(b.detections[i], b) = Normalized(b.detections[j], b) => i = j
  <2>1. \A i \in S : Normalized(b.detections[i], b).track = b.detections[i].track
    BY DEF Normalized
  <2> QED BY <2>1, GoodBatch
<1>2. f \in Bijection(S, T)
  BY <1>1 DEF Bijection, Injection, Surjection, IsInjective
<1>3. IsFiniteSet(S)
  <2>1. Len(b.detections) \in Int
    BY BatchTyped
  <2>2. IsFiniteSet(1 .. Len(b.detections))
    BY <2>1, FS_Interval
  <2> QED BY <2>2, FS_Subset
<1> HIDE DEF T, f
<1>4. Cardinality(T) = Cardinality(S)
  BY <1>2, <1>3, FS_Bijection DEF ExistsBijection
<1> QED BY <1>4 DEF T

\* The counts of a status are those of the message published with it.
LEMMA ReportedCounts ==
  ASSUME NEW b \in Batches, Verdict(b) = "good"
  PROVE  /\ Cardinality(Message(b)) = Len(b.detections)
         /\ Reported(b).dangerous = Cardinality({d \in Message(b) : d.danger})
         /\ Reported(b).dangerous + Reported(b).normal = Len(b.detections)
         /\ Reported(b) \in Statuses
<1> DEFINE n == Len(b.detections)
           D == {i \in 1 .. n : b.detections[i].danger}
           R == {i \in 1 .. n : ~b.detections[i].danger}
<1>1. n \in 0 .. MaxDetections /\ DOMAIN b.detections = 1 .. n /\ MaxDetections \in Nat
  BY GoodBatch, BatchTyped, BridgeAssumption
<1>2. IsFiniteSet(1 .. n) /\ Cardinality(1 .. n) = n
  BY <1>1, FS_Interval
<1>3. Cardinality(Message(b)) = n
  BY <1>2, MessageIs, MessageCounts
<1>4. {d \in Message(b) : d.danger} = {Normalized(b.detections[i], b) : i \in D}
  <2>1. \A i \in 1 .. n : Normalized(b.detections[i], b).danger = b.detections[i].danger
    BY DEF Normalized
  <2> QED BY <2>1, MessageIs
<1>5. Cardinality({d \in Message(b) : d.danger}) = Cardinality(D)
  BY <1>4, MessageCounts
<1>6. Cardinality(D) \in Nat /\ Cardinality(R) \in Nat /\ Cardinality(D) + Cardinality(R) = n
  <2>1. D \in SUBSET (1 .. n) /\ R = (1 .. n) \ D /\ (1 .. n) \cap D = D
    OBVIOUS
  <2> HIDE DEF D, R
  <2>2. IsFiniteSet(D) /\ IsFiniteSet(R)
    BY <1>2, <2>1, FS_Subset, FS_Difference
  <2>3. Cardinality((1 .. n) \ D) = Cardinality(1 .. n) - Cardinality((1 .. n) \cap D)
    BY <1>2, FS_Difference
  <2>4. Cardinality(D) \in Nat /\ Cardinality(R) \in Nat
    BY <2>2, FS_CardinalityType
  <2>5. Cardinality(R) = n - Cardinality(D)
    BY <1>2, <2>1, <2>3, Zenon
  <2> HIDE DEF n
  <2> QED BY <1>1, <2>4, <2>5
<1>7. Reported(b) = [kind |-> "OK", dangerous |-> Cardinality(D), normal |-> Cardinality(R)]
  BY <1>1 DEF Reported
<1> HIDE DEF D, R
<1> QED BY <1>1, <1>3, <1>5, <1>6, <1>7 DEF Statuses

-----------------------------------------------------------------------------
(***************************************************************************)
(* The bridge.                                                             *)
(***************************************************************************)

\* What the bridge has published is the whole of a batch that passed every check.
PublishedInv ==
  \/ published = None /\ accepted = None
  \/ accepted \in Batches /\ Verdict(accepted) = "good" /\ published = Message(accepted)

\* While it runs, its status is about the batch it handled last.
StatusInv ==
  running /\ handled # None =>
    \/ handled = accepted /\ bridgeStatus = Reported(accepted)
    \/ Verdict(handled) = "refused" /\ bridgeStatus.kind = "ERROR"

BridgeIInv == BridgeTypeOK /\ PublishedInv /\ StatusInv

LEMMA BridgeInitHolds == BridgeInit => BridgeIInv
  BY BridgeAssumption
  DEF BridgeInit, BridgeIInv, BridgeTypeOK, PublishedInv, StatusInv, Statuses

LEMMA CallbackStep == BridgeIInv /\ DetectionCallback => BridgeIInv'
<1> SUFFICES ASSUME BridgeIInv, DetectionCallback PROVE BridgeIInv'
  OBVIOUS
<1> USE DEF BridgeIInv
<1>1. inbox \in Batches /\ inbox # None /\ handled' = inbox /\ inbox' = None /\ running = TRUE
  BY DEF DetectionCallback, BridgeTypeOK
<1>2. CASE Verdict(inbox) = "refused"
  <2>1. /\ bridgeStatus' = [kind |-> "ERROR", dangerous |-> 0, normal |-> 0]
        /\ UNCHANGED <<running, published, accepted>>
    BY <1>2 DEF DetectionCallback
  <2>2. bridgeStatus' \in Statuses
    BY <2>1, BridgeAssumption DEF Statuses
  <2>3. BridgeTypeOK' /\ PublishedInv'
    BY <1>1, <2>1, <2>2 DEF BridgeTypeOK, PublishedInv
  <2>4. StatusInv'
    BY <1>1, <1>2, <2>1 DEF StatusInv
  <2> QED BY <2>3, <2>4
<1>3. CASE Verdict(inbox) = "good" /\ Representable(inbox)
  <2>1. /\ published' = Message(inbox) /\ accepted' = inbox /\ bridgeStatus' = Reported(inbox)
        /\ UNCHANGED running
    BY <1>3 DEF DetectionCallback
  <2>2. bridgeStatus' \in Statuses /\ published' \subseteq Detections
    BY <1>1, <1>3, <2>1, ReportedCounts, MessageTyped
  <2>3. BridgeTypeOK'
    BY <1>1, <2>1, <2>2 DEF BridgeTypeOK
  <2>4. PublishedInv'
    BY <1>1, <1>3, <2>1 DEF PublishedInv
  <2>5. StatusInv'
    BY <1>1, <2>1 DEF StatusInv
  <2> QED BY <2>3, <2>4, <2>5
<1>4. CASE ~(Verdict(inbox) = "refused") /\ ~(Verdict(inbox) = "good" /\ Representable(inbox))
  <2>1. running' = FALSE /\ UNCHANGED <<published, accepted, bridgeStatus>>
    BY <1>4 DEF DetectionCallback
  <2> QED BY <1>1, <2>1 DEF BridgeTypeOK, PublishedInv, StatusInv
<1> QED BY <1>2, <1>3, <1>4

LEMMA BridgeStepHolds == BridgeIInv /\ [BridgeNext]_bridgeVars => BridgeIInv'
<1> SUFFICES ASSUME BridgeIInv, [BridgeNext]_bridgeVars PROVE BridgeIInv'
  OBVIOUS
<1> USE DEF BridgeIInv
<1>1. CASE Detect
  BY <1>1 DEF Detect, BridgeTypeOK, PublishedInv, StatusInv
<1>2. CASE DetectionCallback
  BY <1>2, CallbackStep
<1>3. CASE BridgeRestarts
  <2>1. bridgeStatus' \in Statuses
    BY <1>3, BridgeAssumption DEF BridgeRestarts, Statuses
  <2> QED BY <1>3, <2>1 DEF BridgeRestarts, BridgeTypeOK, PublishedInv, StatusInv
<1>4. CASE UNCHANGED bridgeVars
  BY <1>4 DEF bridgeVars, BridgeTypeOK, PublishedInv, StatusInv
<1> QED BY <1>1, <1>2, <1>3, <1>4 DEF BridgeNext

LEMMA BridgeInvariant == BridgeSpec => []BridgeIInv
  BY BridgeInitHolds, BridgeStepHolds, PTL DEF BridgeSpec

LEMMA WholeBatchesHolds == BridgeIInv => WholeBatches
<1> SUFFICES ASSUME BridgeIInv, published # None PROVE WholeBatches
  BY DEF WholeBatches
<1> DEFINE b == accepted
           n == Len(b.detections)
<1>1. b \in Batches /\ Verdict(b) = "good" /\ published = Message(b)
  BY DEF BridgeIInv, PublishedInv
<1>2. DOMAIN b.detections = 1 .. n
  BY <1>1, BatchTyped
<1>3. \A d \in Items(b) : d.fields = "good"
  BY <1>1, <1>2, GoodBatch DEF Items
<1>4. Cardinality(published) = b.count
  BY <1>1, GoodBatch, ReportedCounts
<1>5. ASSUME NEW d \in published, NEW e \in published, d.track = e.track PROVE d = e
  <2>1. PICK i \in 1 .. n : d = Normalized(b.detections[i], b)
    BY <1>1, MessageIs
  <2>2. PICK j \in 1 .. n : e = Normalized(b.detections[j], b)
    BY <1>1, MessageIs
  <2>3. b.detections[i].track = b.detections[j].track
    BY <1>5, <2>1, <2>2 DEF Normalized
  <2> QED BY <1>1, <2>1, <2>2, <2>3, GoodBatch
<1> QED BY <1>3, <1>4, <1>5 DEF WholeBatches

LEMMA StatusIsCurrentHolds == BridgeIInv => StatusIsCurrent
<1> SUFFICES ASSUME BridgeIInv, running, handled # None PROVE StatusIsCurrent
  BY DEF StatusIsCurrent
<1>1. handled \in Batches
  BY DEF BridgeIInv, BridgeTypeOK
<1>2. CASE handled = accepted /\ bridgeStatus = Reported(accepted)
  <2>1. Verdict(accepted) = "good" /\ published = Message(accepted)
    BY <1>1, <1>2, BridgeAssumption DEF BridgeIInv, PublishedInv
  <2>2. bridgeStatus.kind = "OK"
    BY <1>2 DEF Reported
  <2> QED BY <1>1, <1>2, <2>1, <2>2, ReportedCounts DEF StatusIsCurrent
<1>3. CASE Verdict(handled) = "refused" /\ bridgeStatus.kind = "ERROR"
  BY <1>3 DEF StatusIsCurrent
<1> QED BY <1>2, <1>3 DEF BridgeIInv, StatusInv

-----------------------------------------------------------------------------
(***************************************************************************)
(* What a request selects.                                                 *)
(***************************************************************************)
LEMMA NamedIsShown ==
  ASSUME NEW r, NEW batch, NEW single
  PROVE  Named(r, batch, single).among \in SUBSET batch
  BY DEF Named, OfLabel, OfFamily

LEMMA SelectedIsShown ==
  ASSUME NEW r, NEW batch
  PROVE  Selected(r, batch) \subseteq batch
<1> DEFINE named == Named(r, batch, AimedName(r, batch))
<1>1. named.among \subseteq batch
  BY NamedIsShown
<1>2. \A among : Unique(among) \subseteq among
  BY DEF Unique
<1>3. \A among, n : At(n, among) \subseteq among
  BY DEF At
<1>4. Chosen(r, named) \subseteq named.among
  BY <1>2, <1>3 DEF Chosen
<1>5. OfTrack(r.track, batch) \subseteq batch
  BY DEF OfTrack
<1> QED BY <1>1, <1>2, <1>3, <1>4, <1>5 DEF Selected

\* Places are counted from one, so zero is nobody's.
LEMMA PlacesFromOne ==
  ASSUME NEW batch, batch \subseteq Detections, IsFiniteSet(batch),
         NEW among \in SUBSET batch
  PROVE  At(0, among) = {}
<1> SUFFICES ASSUME NEW d \in among, Place(d, among) = 0 PROVE FALSE
  BY DEF At
<1> DEFINE before == {e \in among : e.track <= d.track}
<1>1. d \in before
  BY DEF Detections
<1>2. IsFiniteSet(before)
  BY FS_Subset
<1> QED BY <1>1, <1>2, FS_EmptySet DEF Place

LEMMA UniqueIs ==
  ASSUME NEW among, NEW chosen, chosen \subseteq among, chosen # {}, Cardinality(among) = 1,
         IsFiniteSet(among)
  PROVE  chosen = among
  BY FS_Singleton

\* Nothing is selected by a name that is not there.
LEMMA NothingChosen ==
  ASSUME NEW r, NEW named, named.among = {}
  PROVE  Chosen(r, named) = {}
  BY DEF Chosen, At, Unique

\* Words that name no two visible labels of one word have one name for the question
\* and the motion, when each finds one.
LEMMA OneName ==
  ASSUME NEW r \in Requests, NEW batch, r.track = None, ~r.object,
         ~SaysTwoNames(r, batch),
         Chosen(r, Named(r, batch, AimedName(r, batch))) # {},
         Named(r, batch, ToldName(r, batch)).name # "none"
  PROVE  Named(r, batch, ToldName(r, batch)) = Named(r, batch, AimedName(r, batch))
<1> DEFINE told == ToldName(r, batch)
           aimed == AimedName(r, batch)
<1>1. CASE ExactNames(r, batch) # {} \/ SaidFamily(r) # {}
  BY <1>1 DEF Named
<1>2. CASE ExactNames(r, batch) = {} /\ SaidFamily(r) = {}
  <2>1. r.families = {}
    BY <1>2 DEF SaidFamily
  <2>2. \A l, m \in told \cup aimed : l = m
    BY <1>2, <2>1 DEF SaysTwoNames, ToldName, AimedName, First, Visible
  <2>3. told # {}
    BY <1>2 DEF Named
  <2>4. aimed # {}
    <3> SUFFICES ASSUME aimed = {} PROVE FALSE
      OBVIOUS
    <3>1. Named(r, batch, aimed) = [name |-> "none", among |-> {}]
      BY <1>2 DEF Named
    <3> QED BY <3>1, NothingChosen
  <2>5. told = aimed
    BY <2>2, <2>3, <2>4
  <2> QED BY <2>5
<1> QED BY <1>1, <1>2

\* The two programs resolve one request alike.
LEMMA SameSelection ==
  ASSUME NEW r \in Requests, NEW batch, batch \subseteq Detections, IsFiniteSet(batch),
         Cardinality(Answered(r, batch)) = 1, Selected(r, batch) # {},
         ~SaysTwoNames(r, batch)
  PROVE  Answered(r, batch) = Selected(r, batch)
<1> DEFINE named == Named(r, batch, ToldName(r, batch))
           aimed == Named(r, batch, AimedName(r, batch))
<1>1. CASE r.track # None
  BY <1>1 DEF Answered, Selected
<1>2. CASE r.track = None /\ Numbered(r, "object")
  <2>1. r.object
    BY <1>2, SelectionAssumption DEF Numbered
  <2> QED BY <1>2, <2>1 DEF Answered, Selected
\* An object there is only one of, answered by whatever name.
<1>3. CASE r.track = None /\ ~Numbered(r, "object") /\ r.object
  <2>1. Selected(r, batch) = Unique(batch)
    BY <1>3 DEF Selected
  <2>2. Cardinality(batch) = 1 /\ Selected(r, batch) = batch
    BY <2>1 DEF Unique
  <2>3. Answered(r, batch) = AnsweredByName(r, batch)
    BY <1>3 DEF Answered
  <2>4. Answered(r, batch) \subseteq batch
    <3>1. named.among \in SUBSET batch
      BY NamedIsShown
    <3> HIDE DEF named
    <3>2. AnsweredByName(r, batch) \subseteq named.among \/ AnsweredByName(r, batch) \subseteq batch
      BY DEF AnsweredByName, Unique, At, named
    <3> QED BY <2>3, <3>1, <3>2
  <2>5. Answered(r, batch) # {}
    BY FS_EmptySet
  <2> QED BY <2>2, <2>4, <2>5, UniqueIs
<1>4. CASE r.track = None /\ ~Numbered(r, "object") /\ ~r.object
  <2>1. Answered(r, batch) = AnsweredByName(r, batch) /\ Selected(r, batch) = Chosen(r, aimed)
    BY <1>4 DEF Answered, Selected
  <2>7. named.name # "none" => named = aimed
    BY <1>4, <2>1, OneName
  <2>2. named.among \in SUBSET batch /\ IsFiniteSet(named.among)
    BY NamedIsShown, FS_Subset
  <2> HIDE DEF named, aimed
  <2>3. Cardinality(named.among) \in Nat
    BY <2>2, FS_CardinalityType
  <2>4. CASE named.name = "none"
    <3>1. Answered(r, batch) = Unique(batch)
      BY <2>1, <2>4, FS_EmptySet DEF AnsweredByName, named
    <3>2. Cardinality(batch) = 1 /\ Answered(r, batch) = batch
      BY <3>1, FS_EmptySet DEF Unique
    <3> QED BY <3>2, SelectedIsShown, UniqueIs
  <2>5. CASE named.name # "none" /\ Numbered(r, named.name)
    <3> DEFINE n == r.ordinal[named.name]
    <3>1. n \in Nat
      BY <2>5, SelectionAssumption DEF Numbered
    <3>2. Selected(r, batch) = At(n, named.among)
      BY <2>1, <2>5, <2>7 DEF Chosen
    <3>3. n # 0
      BY <2>2, <3>2, PlacesFromOne
    <3>4. ~(n > Cardinality(named.among))
      BY <2>1, <2>5, FS_EmptySet DEF AnsweredByName, named
    <3>5. Answered(r, batch) = At(n, named.among)
      BY <2>1, <2>5, <3>3, <3>4 DEF AnsweredByName, named
    <3> QED BY <3>2, <3>5
  <2>6. CASE named.name # "none" /\ ~Numbered(r, named.name)
    <3>1. Selected(r, batch) = Unique(named.among)
      BY <2>1, <2>6, <2>7 DEF Chosen
    <3>2. Cardinality(named.among) = 1 /\ Selected(r, batch) = named.among
      BY <3>1 DEF Unique
    <3>3. Answered(r, batch) = IF r.plural THEN named.among ELSE Unique(named.among)
      BY <2>1, <2>6 DEF AnsweredByName, named
    <3> QED BY <3>2, <3>3 DEF Unique
  <2> QED BY <2>4, <2>5, <2>6
<1> QED BY <1>1, <1>2, <1>3, <1>4

-----------------------------------------------------------------------------
(***************************************************************************)
(* The requests among the batches.                                         *)
(***************************************************************************)

\* A request is under way only when something has been published.
AskedInv == asked # None => accepted \in Batches

IInv == BridgeIInv /\ TypeOK /\ AskedInv

\* The requests leave the bridge as it is.
LEMMA BridgeUndisturbed == Spec => BridgeSpec
<1>1. Init => BridgeInit
  BY DEF Init
<1>2. [Next]_vars => [BridgeNext]_bridgeVars
  BY DEF Next, Bridge, ArmMoves, Preview, Refresh, Forget, vars
<1> QED BY <1>1, <1>2, PTL DEF Spec, BridgeSpec

LEMMA AlignedTyped ==
  ASSUME NEW d \in Detections, NEW from \in Poses
  PROVE  Aligned(d, from) \in Int \X Int \X Int
<1>1. d.xy \in Int \X Int /\ from \in Int \X Int \X Int /\ Offset \in Int \X Int
  BY SelectionAssumption DEF Detections
<1> QED BY <1>1 DEF Aligned

LEMMA StagesTyped ==
  ASSUME NEW r \in Requests, NEW d \in Detections, NEW from \in Poses
  PROVE  Stages(r, d, from) \in Seq(Int \X Int \X Int) /\ Len(Stages(r, d, from)) \in 1 .. 3
<1>1. Aligned(d, from) \in Int \X Int \X Int
  BY AlignedTyped
<1>2. CASE r.pick
  <2> DEFINE s == [i \in 1 .. 3 |-> <<Aligned(d, from)[1], Aligned(d, from)[2], PickZ[i]>>]
  <2>1. \A i \in 1 .. 3 : PickZ[i] \in Int
    <3>1. PickZ \in Int \X Int \X Int
      BY SelectionAssumption
    <3>2. PickZ[1] \in Int /\ PickZ[2] \in Int /\ PickZ[3] \in Int
      BY <3>1
    <3>3. \A i \in 1 .. 3 : i = 1 \/ i = 2 \/ i = 3
      OBVIOUS
    <3> QED BY <3>2, <3>3
  <2>2. s \in [1 .. 3 -> Int \X Int \X Int]
    BY <1>1, <2>1
  <2> HIDE DEF s
  <2>3. s \in Seq(Int \X Int \X Int) /\ DOMAIN s = 1 .. 3
    BY <2>2, SeqDef
  <2>4. Len(s) = 3
    BY <2>3, LenProperties
  <2> QED BY <1>2, <2>3, <2>4 DEF Stages, s
<1>3. CASE ~r.pick
  BY <1>1, <1>3 DEF Stages
<1> QED BY <1>2, <1>3

LEMMA InitHolds == Init => IInv
<1> SUFFICES ASSUME Init PROVE IInv
  OBVIOUS
<1>1. BridgeIInv
  BY BridgeInitHolds DEF Init
<1>2. TypeOK /\ AskedInv
  BY <1>1 DEF Init, TypeOK, AskedInv, BridgeIInv
<1> QED BY <1>1, <1>2 DEF IInv

LEMMA PreviewStep == IInv /\ Preview => TypeOK' /\ AskedInv'
<1> SUFFICES ASSUME IInv, Preview PROVE TypeOK' /\ AskedInv'
  OBVIOUS
<1>1. accepted \in Batches /\ published \subseteq Detections
  BY DEF Preview, IInv, BridgeIInv, PublishedInv, BridgeTypeOK
<1>2. PICK r \in Requests : \E d \in Selected(r, published) :
        asked' = r /\ selection' = d /\ preview' = Aligned(d, pose)
  BY DEF Preview
<1>3. PICK d \in Selected(r, published) :
        asked' = r /\ selection' = d /\ preview' = Aligned(d, pose)
  BY <1>2
<1>4. d \in Detections /\ pose \in Poses /\ preview' \in Int \X Int \X Int
  <2>1. d \in Detections /\ pose \in Poses
    BY <1>1, SelectedIsShown DEF IInv, TypeOK
  <2> QED BY <1>3, <2>1, AlignedTyped
<1>5. asked' \in Requests /\ asked' # None /\ selection' \in Detections /\ selection' # None
        /\ preview' # None
  BY <1>3, <1>4, SelectionAssumption
<1>6. BridgeTypeOK' /\ pose' \in Poses
  BY DEF Preview, IInv, TypeOK, bridgeVars, BridgeTypeOK
<1>7. plan' \in Seq(Int \X Int \X Int) /\ Len(plan') <= 3
  BY DEF Preview
<1>8. TypeOK'
  BY <1>4, <1>5, <1>6, <1>7 DEF TypeOK
<1>9. AskedInv'
  BY <1>1 DEF Preview, bridgeVars, AskedInv
<1> QED BY <1>8, <1>9

LEMMA RefreshStep == IInv /\ Refresh => TypeOK' /\ AskedInv'
<1> SUFFICES ASSUME IInv, Refresh PROVE TypeOK' /\ AskedInv'
  OBVIOUS
<1>1. accepted \in Batches /\ published \subseteq Detections
  BY BridgeAssumption, MessageTyped DEF Refresh, IInv, BridgeIInv, PublishedInv, AskedInv
<1>2. PICK d \in Reacquired(selection, published) : plan' = Stages(asked, d, pose) /\ selection' = d
  BY DEF Refresh
<1>3. d \in Detections /\ pose \in Poses /\ asked \in Requests
  BY <1>1, <1>2 DEF Refresh, IInv, TypeOK, Reacquired, OfTrack
<1>4. plan' \in Seq(Int \X Int \X Int) /\ Len(plan') <= 3
  <2>1. /\ Stages(asked, d, pose) \in Seq(Int \X Int \X Int)
        /\ Len(Stages(asked, d, pose)) \in 1 .. 3
    BY <1>3, StagesTyped
  <2>2. Len(plan') \in 1 .. 3 /\ plan' \in Seq(Int \X Int \X Int)
    BY <1>2, <2>1, Zenon
  <2>3. \A n \in 1 .. 3 : n <= 3
    OBVIOUS
  <2> QED BY <2>2, <2>3, Zenon
<1>5. selection' \in Detections /\ selection' # None
  BY <1>2, <1>3, SelectionAssumption
<1>6. BridgeTypeOK' /\ pose' \in Poses
  BY DEF Refresh, IInv, TypeOK, bridgeVars, BridgeTypeOK
<1>7. TypeOK'
  BY <1>4, <1>5, <1>6 DEF Refresh, IInv, TypeOK
<1>8. AskedInv'
  BY <1>1 DEF Refresh, bridgeVars, AskedInv
<1> QED BY <1>7, <1>8

LEMMA StepHolds == IInv /\ [Next]_vars => IInv'
<1> SUFFICES ASSUME IInv, [Next]_vars PROVE IInv'
  OBVIOUS
<1>1. BridgeIInv'
  <2>1. [BridgeNext]_bridgeVars
    BY DEF Next, Bridge, ArmMoves, Preview, Refresh, Forget, vars
  <2> QED BY <2>1, BridgeStepHolds DEF IInv
<1>2. TypeOK' /\ AskedInv'
  <2>1. CASE Bridge
    <3>1. accepted \in Batches => accepted' \in Batches
      BY <2>1 DEF Bridge, BridgeNext, Detect, DetectionCallback, BridgeRestarts, IInv, BridgeIInv, BridgeTypeOK
    <3> QED BY <1>1, <2>1, <3>1 DEF Bridge, selectionVars, IInv, TypeOK, AskedInv, BridgeIInv
  <2>2. CASE ArmMoves
    BY <1>1, <2>2 DEF ArmMoves, bridgeVars, IInv, TypeOK, AskedInv, BridgeIInv
  <2>3. CASE Preview
    BY <2>3, PreviewStep
  <2>4. CASE Refresh
    BY <2>4, RefreshStep
  <2>5. CASE Forget
    BY <1>1, <2>5 DEF Forget, bridgeVars, IInv, TypeOK, AskedInv, BridgeIInv
  <2>6. CASE UNCHANGED vars
    BY <1>1, <2>6 DEF vars, bridgeVars, selectionVars, IInv, TypeOK, AskedInv, BridgeIInv
  <2> QED BY <2>1, <2>2, <2>3, <2>4, <2>5, <2>6 DEF Next
<1> QED BY <1>1, <1>2 DEF IInv

LEMMA Invariant == Spec => []IInv
  BY InitHolds, StepHolds, PTL DEF Spec

-----------------------------------------------------------------------------
(***************************************************************************)
(* Theorems.                                                               *)
(***************************************************************************)

\* Every reachable state is well typed, for any batches and requests: no counter of a
\* status goes beyond the configured number, and every stage sent is a position.
THEOREM TypeCorrect == Spec => []TypeOK
  BY Invariant, PTL DEF IInv

\* A batch is published whole and unambiguous or not at all, for any detector
\* (parse_model_detection_batch).
THEOREM BatchesAreWhole == Spec => []WholeBatches
  BY BridgeUndisturbed, BridgeInvariant, WholeBatchesHolds, PTL

\* The latched status is about the batch handled last, for any detector
\* (_detection_callback).
THEOREM StatusTellsOfTheLast == Spec => []StatusIsCurrent
  BY BridgeUndisturbed, BridgeInvariant, StatusIsCurrentHolds, PTL

\* The object answered about is the object moved to, for any names, ordinals and
\* batches, unless the words name two visible labels of one word; nothing is said of
\* words that only one of the two accepts (coordinate_question_answer,
\* parse_vision_motion).
THEOREM AnswersAndMovesAgree == Spec => []AnsweredIsMovedTo
<1>1. IInv => AnsweredIsMovedTo
  <2> SUFFICES ASSUME IInv, published # None, NEW r \in Requests,
                      Cardinality(Answered(r, published)) = 1, Selected(r, published) # {},
                      ~SaysTwoNames(r, published)
               PROVE  Answered(r, published) = Selected(r, published)
    BY DEF AnsweredIsMovedTo
  <2>1. published \subseteq Detections /\ IsFiniteSet(published)
    BY MessageTyped, MessageFinite DEF IInv, BridgeIInv, PublishedInv
  <2> QED BY <2>1, SameSelection
<1> QED BY <1>1, Invariant, PTL

\* What is sent is for the object that was shown, and is where the calibration says
\* that object is (_refresh_target_after_confirmation).
THEOREM SentWhereItIs == Spec => SentToTheObjectShown
<1> DEFINE Sent ==
      /\ selection'.label = selection.label /\ selection'.identity = selection.identity
      /\ \A i \in DOMAIN plan' :
           <<plan'[i][1], plan'[i][2]>> \in AboveIn(accepted, selection.track)
<1>1. IInv /\ [Next]_vars => [plan' # <<>> /\ plan = <<>> => Sent]_vars
  <2> SUFFICES ASSUME IInv, Next, plan' # <<>>, plan = <<>> PROVE Sent
    OBVIOUS
  <2>1. Refresh
    BY DEF Next, Bridge, ArmMoves, Preview, Forget, selectionVars
  <2>2. accepted \in Batches /\ published = Message(accepted)
    BY <2>1, BridgeAssumption DEF Refresh, IInv, AskedInv, BridgeIInv, PublishedInv
  <2>3. PICK d \in Reacquired(selection, published) :
          Buildable(asked, d, pose) /\ plan' = Stages(asked, d, pose) /\ selection' = d
    BY <2>1 DEF Refresh
  <2>4. d \in published /\ d.track = selection.track /\ d.label = selection.label
          /\ d.identity = selection.identity /\ d.valid
    BY <2>3 DEF Reacquired, OfTrack, Buildable, Travels
  <2>5. PICK e \in Items(accepted) : d = Normalized(e, accepted)
    BY <2>2, <2>4 DEF Message
  <2>6. e.track = selection.track /\ d.xy = Transform(e, accepted)
    BY <2>4, <2>5 DEF Normalized
  <2>7. e.at[1] = e.x /\ e.at[2] = IF accepted.edge = "top" THEN e.s ELSE accepted.length - e.s
    BY <2>2, BridgeAssumption DEF Items
  <2>8. \A i \in DOMAIN plan' : plan'[i][1] = d.xy[1] + Offset[1] /\ plan'[i][2] = d.xy[2] + Offset[2]
    BY <2>3 DEF Stages, Aligned
  <2>9. /\ d.xy[1] = Matrix[1] * e.at[1] + Matrix[2] * e.at[2] + Translation[1]
        /\ d.xy[2] = Matrix[3] * e.at[1] + Matrix[4] * e.at[2] + Translation[2]
    BY <2>6, <2>7 DEF Transform
  <2>10. <<d.xy[1] + Offset[1], d.xy[2] + Offset[2]>> \in AboveIn(accepted, selection.track)
    BY <2>6, <2>9 DEF AboveIn
  <2> QED BY <2>3, <2>4, <2>8, <2>10
<1> QED BY <1>1, Invariant, PTL DEF Spec, SentToTheObjectShown

\* Every stage sent is within the configured shift of the preview, travel of the arm
\* and heights, for any of them (build_pick_motion_plan).
THEOREM PlansAreWithinLimits == Spec => PlanIsWithinLimits
<1> DEFINE Limited ==
      \A i \in DOMAIN plan' :
        /\ Apart(plan'[i], preview) <= Square(MaxShift)
        /\ Apart(plan'[i], pose) <= Square(MaxTravel)
        /\ IF i = 1 THEN Gap(plan'[1][3], pose[3]) <= MaxApproach
           ELSE Gap(plan'[i][3], plan'[i - 1][3]) <= MaxVertical
<1>1. IInv /\ [Next]_vars => [plan' # <<>> /\ plan = <<>> => Limited]_vars
  <2> SUFFICES ASSUME IInv, Next, plan' # <<>>, plan = <<>> PROVE Limited
    OBVIOUS
  <2>1. Refresh
    BY DEF Next, Bridge, ArmMoves, Preview, Forget, selectionVars
  <2>2. PICK d \in Reacquired(selection, published) :
          /\ Buildable(asked, d, pose)
          /\ Apart(Aligned(d, pose), preview) <= Square(MaxShift)
          /\ plan' = Stages(asked, d, pose)
    BY <2>1 DEF Refresh
  <2>3. \A i \in DOMAIN plan' : plan'[i][1] = Aligned(d, pose)[1] /\ plan'[i][2] = Aligned(d, pose)[2]
    BY <2>2 DEF Stages
  <2>4. \A i \in DOMAIN plan' :
          Apart(plan'[i], preview) <= Square(MaxShift) /\ Apart(plan'[i], pose) <= Square(MaxTravel)
    BY <2>2, <2>3 DEF Apart, Buildable, Travels
  <2>5. PickZ[1] \in Int /\ PickZ[2] \in Int /\ PickZ[3] \in Int /\ MaxApproach \in Nat
          /\ pose[3] \in Int
    <3>1. PickZ \in Int \X Int \X Int /\ pose \in Int \X Int \X Int /\ MaxApproach \in Nat
      BY SelectionAssumption DEF IInv, TypeOK
    <3> QED BY <3>1
  <2>6. CASE asked.pick
    <3>1. DOMAIN plan' = 1 .. 3 /\ \A i \in 1 .. 3 : plan'[i][3] = PickZ[i]
      BY <2>2, <2>6 DEF Stages
    <3>2. /\ Gap(PickZ[1], pose[3]) <= MaxApproach
          /\ Gap(PickZ[1], PickZ[2]) <= MaxVertical /\ Gap(PickZ[3], PickZ[2]) <= MaxVertical
      BY <2>2, <2>6 DEF Buildable, Pickable
    <3>3. Gap(PickZ[2], PickZ[1]) = Gap(PickZ[1], PickZ[2])
      BY <2>5 DEF Gap
    <3>4. ASSUME NEW i \in 1 .. 3
          PROVE  IF i = 1 THEN Gap(plan'[1][3], pose[3]) <= MaxApproach
                 ELSE Gap(plan'[i][3], plan'[i - 1][3]) <= MaxVertical
      <4>1. CASE i = 1
        BY <3>1, <3>2, <4>1
      <4>2. CASE i = 2
        BY <3>1, <3>2, <3>3, <4>2
      <4>3. CASE i = 3
        BY <3>1, <3>2, <4>3
      <4> QED BY <4>1, <4>2, <4>3
    <3> QED BY <2>4, <3>1, <3>4
  <2>7. CASE ~asked.pick
    <3>1. plan' = <<Aligned(d, pose)>>
      BY <2>2, <2>7 DEF Stages
    <3>2. DOMAIN plan' = {1} /\ plan'[1][3] = pose[3]
      BY <3>1 DEF Aligned
    <3>3. Gap(pose[3], pose[3]) = 0
      BY <2>5 DEF Gap
    <3> QED BY <2>4, <2>5, <3>2, <3>3
  <2> QED BY <2>6, <2>7
<1> QED BY <1>1, Invariant, PTL DEF Spec, PlanIsWithinLimits
=============================================================================
