----------------------------- MODULE VisionBridge -----------------------------
(***************************************************************************)
(* FanucpyVisionBridge: a detector's batch is validated as a whole, its    *)
(* places are mapped to the robot's frame, and it is published with a      *)
(* latched status.                                                         *)
(*                                                                         *)
(* What a batch says in text and numbers is abstracted to what becomes of  *)
(* each part of it: "good", "refused" by a DetectionSchemaError, or        *)
(* "raises" anything else (a nesting or a number of digits json.loads does *)
(* not take, an integer too large for float).  Lengths are integers, in    *)
(* millimetres.                                                            *)
(***************************************************************************)
EXTENDS Integers, Sequences, FiniteSets

CONSTANTS
  Batches,          \* what the detector may send
  MaxDetections,    \* maximum_detections
  EyeToHand,        \* eye_to_hand_enabled
  Matrix,           \* eye_to_hand_matrix: <<a00, a01, a10, a11>>
  Translation,      \* eye_to_hand_translation_mm
  Largest,          \* the largest integer a field of the message holds
  None              \* no message, no coordinate

Verdicts == {"good", "refused", "raises"}

Detected == [track : Int, label : STRING, danger : BOOLEAN, identity : STRING, fields : Verdicts,
             geometry : BOOLEAN, x : Int, s : Int, at : Int \X Int]

\* A detection's at is where the object is in the projected image; s is what the
\* detector reports, measured from the conveyor's finish edge.
\* EyeToHandAffine.from_parameters refuses a singular matrix.
ASSUME BridgeAssumption ==
  /\ Batches \subseteq [envelope : Verdicts, rest : Verdicts, sequence : Nat, edge : {"top", "bottom"},
                       length : Nat \ {0}, count : Nat, detections : Seq(Detected)]
  /\ \A b \in Batches : \A i \in DOMAIN b.detections :
       LET d == b.detections[i] IN
       d.at = <<d.x, IF b.edge = "top" THEN d.s ELSE b.length - d.s>>
  /\ None \notin Batches
  /\ MaxDetections \in Nat \ {0}
  /\ EyeToHand \in BOOLEAN
  /\ Matrix \in Int \X Int \X Int \X Int
  /\ Matrix[1] * Matrix[4] # Matrix[2] * Matrix[3]
  /\ Translation \in Int \X Int
  /\ Largest \in Nat

VARIABLES
  inbox,      \* the batch the subscription holds; its depth is one
  running,    \* whether the node is
  published,  \* the message published last
  accepted,   \* history: the batch it was made from
  handled,    \* history: the batch handled last
  bridgeStatus  \* the latched status

bridgeVars == <<inbox, running, published, accepted, handled, bridgeStatus>>

BridgeInit ==
  /\ inbox = None
  /\ running = TRUE
  /\ published = None
  /\ accepted = None
  /\ handled = None
  /\ bridgeStatus = [kind |-> "WAITING", dangerous |-> 0, normal |-> 0]

-----------------------------------------------------------------------------
Items(b) == {b.detections[i] : i \in DOMAIN b.detections}

Refusing(condition) == IF condition THEN "refused" ELSE "good"

\* Mutant: track IDs are not compared.
ChecksButDuplicates(b) ==
  <<b.envelope, Refusing(Len(b.detections) > MaxDetections), Refusing(b.count # Len(b.detections))>>
    \o [i \in DOMAIN b.detections |-> b.detections[i].fields]
    \o <<b.rest>>

\* parse_model_detection_batch, in its order: the payload and the fields before the
\* detections, their number, each of them (_parse_detection), and the rest.
Checks(b) ==
  <<b.envelope, Refusing(Len(b.detections) > MaxDetections), Refusing(b.count # Len(b.detections))>>
    \o [i \in DOMAIN b.detections |-> b.detections[i].fields]
    \o <<Refusing(\E i, j \in DOMAIN b.detections :
                    i # j /\ b.detections[i].track = b.detections[j].track),
         b.rest>>

Verdict(b) ==
  LET bad == {i \in DOMAIN Checks(b) : Checks(b)[i] # "good"} IN
  IF bad = {} THEN "good" ELSE Checks(b)[CHOOSE i \in bad : \A j \in bad : i <= j]

\* Assigning an integer the message has no room for is an assertion error.
Representable(b) == b.sequence <= Largest /\ \A d \in Items(b) : d.track \in (-Largest)..Largest

\* EyeToHandAffine.transform.
Transform(d, b) ==
  LET y == IF b.edge = "top" THEN d.s ELSE b.length - d.s IN
  <<Matrix[1] * d.x + Matrix[2] * y + Translation[1],
    Matrix[3] * d.x + Matrix[4] * y + Translation[2]>>

Valid(d) == EyeToHand /\ d.geometry

\* _to_ros_message; VisionDetection's default coordinates are zero.
Normalized(d, b) ==
  [track |-> d.track, label |-> d.label, danger |-> d.danger, identity |-> d.identity,
   valid |-> Valid(d), xy |-> IF Valid(d) THEN Transform(d, b) ELSE <<0, 0>>]

Message(b) == {Normalized(d, b) : d \in Items(b)}

\* label_counts of the two categories, summed over the labels.
Reported(b) ==
  [kind |-> "OK",
   dangerous |-> Cardinality({i \in DOMAIN b.detections : b.detections[i].danger}),
   normal |-> Cardinality({i \in DOMAIN b.detections : ~b.detections[i].danger})]

-----------------------------------------------------------------------------
\* The detector publishes; a batch not yet taken is replaced.
Detect ==
  /\ running
  /\ inbox' \in Batches
  /\ UNCHANGED <<running, published, accepted, handled, bridgeStatus>>

\* Mutant: the status is only published while nothing is wrong.
CallbackQuietly ==
  /\ running
  /\ inbox # None
  /\ inbox' = None
  /\ handled' = inbox
  /\ CASE Verdict(inbox) = "refused" -> UNCHANGED <<running, published, accepted, bridgeStatus>>
       [] Verdict(inbox) = "good" /\ Representable(inbox) ->
            /\ published' = Message(inbox)
            /\ accepted' = inbox
            /\ bridgeStatus' = Reported(inbox)
            /\ UNCHANGED running
       [] OTHER -> running' = FALSE /\ UNCHANGED <<published, accepted, bridgeStatus>>

\* _detection_callback: only a DetectionSchemaError is expected; what else is raised
\* leaves rclpy.spin.
DetectionCallback ==
  /\ running
  /\ inbox # None
  /\ inbox' = None
  /\ handled' = inbox
  /\ CASE Verdict(inbox) = "refused" ->
            /\ bridgeStatus' = [kind |-> "ERROR", dangerous |-> 0, normal |-> 0]
            /\ UNCHANGED <<running, published, accepted>>
       [] Verdict(inbox) = "good" /\ Representable(inbox) ->
            /\ published' = Message(inbox)
            /\ accepted' = inbox
            /\ bridgeStatus' = Reported(inbox)
            /\ UNCHANGED running
       [] OTHER -> running' = FALSE /\ UNCHANGED <<published, accepted, bridgeStatus>>

\* The node ends, whatever for, and is launched again.
BridgeRestarts ==
  /\ running' = TRUE
  /\ inbox' = None
  /\ handled' = None
  /\ bridgeStatus' = [kind |-> "WAITING", dangerous |-> 0, normal |-> 0]
  /\ UNCHANGED <<published, accepted>>

BridgeNext == Detect \/ DetectionCallback \/ BridgeRestarts

BridgeSpec == BridgeInit /\ [][BridgeNext]_bridgeVars

-----------------------------------------------------------------------------
(***************************************************************************)
(* Properties.                                                             *)
(***************************************************************************)
Detections == [track : Int, label : STRING, danger : BOOLEAN, identity : STRING,
               valid : BOOLEAN, xy : Int \X Int]

Statuses == [kind : {"WAITING", "ERROR", "OK"}, dangerous : 0..MaxDetections, normal : 0..MaxDetections]

BridgeTypeOK ==
  /\ inbox \in Batches \cup {None}
  /\ running \in BOOLEAN
  /\ published # None => published \subseteq Detections
  /\ accepted \in Batches \cup {None}
  /\ handled \in Batches \cup {None}
  /\ bridgeStatus \in Statuses

\* A batch is published whole and unambiguous or not at all: every one of its
\* detections was parsed, and no two have one track ID, which the assistant selects
\* objects and their aliases by.
WholeBatches ==
  published # None =>
    /\ \A d \in Items(accepted) : d.fields = "good"
    /\ Cardinality(published) = accepted.count
    /\ \A d, e \in published : d.track = e.track => d = e

\* The latched status is about the batch handled last: an OK is about the message
\* published last, and the consumer of a message that was followed by a batch
\* refused is told so.
StatusIsCurrent ==
  running /\ handled # None =>
    IF bridgeStatus.kind = "OK"
    THEN /\ handled = accepted
         /\ bridgeStatus.dangerous = Cardinality({d \in published : d.danger})
         /\ bridgeStatus.dangerous + bridgeStatus.normal = Cardinality(published)
    ELSE bridgeStatus.kind = "ERROR" /\ Verdict(handled) = "refused"

\* "The bridge rejects malformed JSON, [...] non-finite coordinates" (README.md of
\* the bridge): no batch ends it.
BatchesDoNotEndIt == [][running => running']_bridgeVars
=============================================================================
