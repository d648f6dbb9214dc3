-------------------------------- MODULE MCObjects --------------------------------
(***************************************************************************)
(* Instance of ObjectSelection for TLC: two track IDs, labels of one and   *)
(* of several words in both families and in none, one object that moves    *)
(* and one whose track ID is taken by another object.                      *)
(***************************************************************************)
EXTENDS ObjectSelection

MCMatrix == <<0, -1, -1, 0>>
MCTranslation == <<0, 4>>
MCFamilies == {"battery", "bottle"}
MCLabels == {"battery", "pet-bottle", "pet-bottle-clear", "cardboard", "cup"}
MCFamily == [l \in MCLabels |-> CASE l = "battery" -> "battery"
                                  [] l \in {"pet-bottle", "pet-bottle-clear"} -> "bottle"
                                  [] OTHER -> l]
MCWords == [l \in MCLabels |-> CASE l = "pet-bottle" -> 2 [] l = "pet-bottle-clear" -> 3 [] OTHER -> 1]
MCSorted == <<"pet-bottle-clear", "pet-bottle", "cardboard", "battery", "cup">>
MCPrecedence == [l \in MCLabels |-> CHOOSE i \in DOMAIN MCSorted : MCSorted[i] = l]

Seen(track, label, x, y, geometry) ==
  [track |-> track, label |-> label, danger |-> label = "battery", identity |-> "tracker",
   geometry |-> geometry, at |-> <<x, y>>, x |-> x, s |-> 4 - y, fields |-> "good"]

Batch(sequence, detections) ==
  [envelope |-> "good", rest |-> "good", sequence |-> sequence, edge |-> "bottom", length |-> 4,
   count |-> Len(detections), detections |-> detections]

\* The same batch measured from the other edge.
FromTop(b) ==
  [b EXCEPT !.edge = "top", !.detections = [i \in DOMAIN b.detections |->
     [b.detections[i] EXCEPT !.s = b.detections[i].at[2]]]]

MCBatches ==
  {Batch(1, <<Seen(1, "battery", 1, 1, TRUE), Seen(2, "battery", 2, 3, TRUE)>>),
   Batch(2, <<Seen(1, "battery", 1, 2, TRUE), Seen(2, "pet-bottle", 2, 3, TRUE)>>),
   Batch(3, <<Seen(2, "pet-bottle-clear", 2, 3, TRUE), Seen(1, "pet-bottle", 1, 3, TRUE)>>),
   Batch(4, <<Seen(2, "pet-bottle", 2, 2, TRUE)>>),
   Batch(5, <<Seen(2, "cardboard", 1, 1, TRUE), Seen(1, "battery", 2, 2, FALSE)>>),
   FromTop(Batch(6, <<Seen(1, "battery", 1, 1, TRUE)>>)),
   Batch(8, <<Seen(2, "cup", 1, 1, TRUE), Seen(1, "cardboard", 2, 2, TRUE)>>),
   \* refused: one track ID twice, a malformed detection, a wrong count, too many; and
   \* one that raises what the bridge does not expect, and one it has no room for
   Batch(7, <<Seen(1, "battery", 1, 1, TRUE), Seen(1, "pet-bottle", 2, 2, TRUE)>>),
   Batch(7, <<[Seen(1, "battery", 1, 1, TRUE) EXCEPT !.fields = "refused"]>>),
   [Batch(7, <<Seen(1, "battery", 1, 1, TRUE)>>) EXCEPT !.count = 2],
   Batch(7, [i \in 1..3 |-> Seen(i, "battery", i, i, TRUE)]),
   [Batch(7, <<>>) EXCEPT !.envelope = "raises"],
   Batch(Largest + 1, <<Seen(1, "battery", 1, 1, TRUE)>>)}

Ask(track, object, names, families, ordinal, pick) ==
  [track |-> track, object |-> object, names |-> names, told |-> names, aimed |-> names,
   families |-> families, ordinal |-> ordinal, pick |-> pick, explicit |-> object,
   plural |-> FALSE]

\* "of the TOLD", "to the AIMED", for sets of labels.
Say(told, aimed) ==
  [Ask(None, FALSE, told \cup aimed, {}, <<>>, FALSE) EXCEPT !.told = told, !.aimed = aimed,
                                                           !.explicit = TRUE]

Number(name, n) == [m \in {name} |-> n]

MCRequests ==
       {Ask(t, FALSE, {}, {}, <<>>, p) : t \in {1, 2}, p \in BOOLEAN}
  \cup {Ask(None, FALSE, {"battery"}, {"battery"}, o, FALSE) : o \in {<<>>, Number("battery", 2)}}
  \cup {Ask(None, FALSE, {}, {"battery"}, Number("battery", n), TRUE) : n \in {0, 1}}
  \cup {Ask(None, TRUE, {}, {"battery"}, <<>>, FALSE),
        Ask(None, TRUE, {}, {}, Number("object", 2), TRUE),
        Ask(None, FALSE, {"pet-bottle", "pet-bottle-clear"}, {"bottle"}, <<>>, TRUE),
        Ask(None, FALSE, {}, {"bottle"}, <<>>, FALSE),
        Ask(None, FALSE, {"cardboard"}, {}, <<>>, FALSE),
        \* the cup over the cardboard, the cup, and one label where only one looks for it
        Say({"cup"}, {"cardboard"}), Say({"cup"}, {"cup", "cardboard"}), Say({"cup"}, {"cup"}),
        Say({}, {"cup"})}

MCPoses == {<<-2, 2, 5>>, <<-2, 2, 8>>, <<-5, 2, 5>>}
MCOffset == <<0, 0>>
MCPickZ == <<4, 2, 4>>
=============================================================================
