---------------------------- MODULE ObjectSelection ----------------------------
(***************************************************************************)
(* What an operator's words mean among the objects a batch shows, and the  *)
(* targets built from the one selected.  The batches come from             *)
(* VisionBridge; the words of a request are abstracted to the names, the   *)
(* track ID and the ordinals found in them, and a label to its normalized  *)
(* words.                                                                  *)
(*                                                                         *)
(* Two functions written apart from each other read the words: one answers *)
(* where an object is, one selects the object to move to.  They look for a *)
(* label of one word in different places of a sentence.                    *)
(***************************************************************************)
EXTENDS VisionBridge

CONSTANTS
  Families,    \* "battery" and "bottle"
  Family,      \* _family_name of each label
  Words,       \* the number of words of a label
  Precedence,  \* the place of a label in exact_names: the longest first, and labels
               \* of one length by the alphabet
  Requests,    \* what operators ask
  Poses,       \* where the arm can be: <<x, y, z>>
  Offset,      \* vision_xy_offset_mm
  MaxTravel,   \* max_vision_xy_travel_mm
  MaxShift,    \* max_vision_target_refresh_shift_mm
  PickZ,       \* pick_approach_z_mm, pick_descend_z_mm, pick_retract_z_mm
  MaxApproach, \* max_pick_approach_z_change_mm
  MaxVertical  \* max_pick_vertical_stage_mm

Labels == DOMAIN Family
Names == Labels \cup Families \cup {"object"}

\* track: the digits after "track"; object: "object" or "objects" is among the
\* words; names: the labels whose words are among them; told: those that follow "of",
\* "for" or "is", or stand before an ordinal, where a question looks for them; aimed:
\* those that follow "to", "towards", "with", "above" or "over", where a motion looks
\* for them; families: the family words;
\* ordinal: the number beside a name, for the names that have one beside them, and the
\* word "object" is among the words if it has one;
\* explicit: coordinates are asked for, not only "where"; plural: "all", "batteries".
ASSUME SelectionAssumption ==
  /\ Family \in [Labels -> Labels \cup Families]
  /\ Words \in [Labels -> Nat \ {0}]
  /\ Precedence \in [Labels -> Nat]
  /\ \A l, m \in Labels : Precedence[l] = Precedence[m] => l = m
  /\ \A r \in Requests :
       /\ r.track \in Nat \cup {None}
       /\ {r.object, r.explicit, r.plural, r.pick} \subseteq BOOLEAN
       /\ r.names \subseteq Labels /\ r.told \subseteq r.names /\ r.aimed \subseteq r.names
       /\ r.families \subseteq Families
       /\ DOMAIN r.ordinal \subseteq Names /\ \A n \in DOMAIN r.ordinal : r.ordinal[n] \in Nat
       /\ "object" \in DOMAIN r.ordinal => r.object
  /\ Poses \subseteq Int \X Int \X Int
  /\ Offset \in Int \X Int
  /\ {MaxTravel, MaxShift, MaxApproach, MaxVertical} \subseteq Nat
  /\ PickZ \in Int \X Int \X Int
  /\ \A b \in Batches : \A i \in DOMAIN b.detections : b.detections[i].label \in Labels
  /\ None \notin Nat \cup Requests /\ None \notin Detections /\ None \notin Int \X Int \X Int

VARIABLES
  pose,      \* where the arm is
  asked,     \* the request under way
  selection, \* the detection selected for it
  preview,   \* the target shown to the operator
  plan       \* the targets sent after the confirmation

selectionVars == <<pose, asked, selection, preview, plan>>
vars == <<bridgeVars, selectionVars>>

-----------------------------------------------------------------------------
(***************************************************************************)
(* Names and ordinals.                                                     *)
(***************************************************************************)
\* aliased_vision_observations counts in the order of the track IDs.
Place(d, among) == Cardinality({e \in among : e.track <= d.track})

At(ordinal, among) == {d \in among : Place(d, among) = ordinal}

OfLabel(l, batch) == {d \in batch : d.label = l}
OfFamily(f, batch) == {d \in batch : Family[d.label] = f}
OfTrack(n, batch) == {d \in batch : d.track = n}

Visible(said, batch) == said \cap {d.label : d \in batch}

\* exact_names holds the visible labels in their order; the first that fits is taken.
First(labels) == {l \in labels : \A m \in labels : Precedence[l] <= Precedence[m]}

\* A label of several words, wherever it is said.
ExactNames(r, batch) == First({l \in Visible(r.names, batch) : Words[l] > 1})

\* A label of one word, found last: where a question has it, and where a motion has it.
ToldName(r, batch) == First(Visible(r.told, batch))
AimedName(r, batch) == First(Visible(r.aimed, batch))

\* "battery" is looked for before "bottle".
SaidFamily(r) == IF "battery" \in r.families THEN {"battery"} ELSE r.families

\* _named_ordinal.
Numbered(r, name) == name \in DOMAIN r.ordinal

\* The name a request is resolved by, and the detections that have it.  The two
\* functions have one rule but for `single', the label of one word each of them found.
Named(r, batch, single) ==
  LET exact == ExactNames(r, batch)
      family == SaidFamily(r)
      ofLabel(labels) == LET name == CHOOSE l \in labels : TRUE
                         IN  [name |-> name, among |-> OfLabel(name, batch)]
  IN  CASE exact # {} -> ofLabel(exact)
        [] exact = {} /\ family # {} ->
             LET name == CHOOSE f \in family : TRUE
             IN  [name |-> name, among |-> OfFamily(name, batch)]
        [] exact = {} /\ family = {} /\ single # {} -> ofLabel(single)
        [] OTHER -> [name |-> "none", among |-> {}]

Unique(among) == IF Cardinality(among) = 1 THEN among ELSE {}

-----------------------------------------------------------------------------
(***************************************************************************)
(* coordinate_question_answer: the detections whose coordinates are told.  *)
(***************************************************************************)
AnsweredByName(r, batch) ==
  LET named == Named(r, batch, ToldName(r, batch))
      many == Cardinality(named.among)
  IN  CASE named.name = "none" -> IF r.explicit THEN Unique(batch) ELSE {}
        [] named.name # "none" /\ Numbered(r, named.name) ->
             IF r.ordinal[named.name] > many THEN {}
             ELSE At(IF r.ordinal[named.name] = 0 THEN many ELSE r.ordinal[named.name], named.among)
        [] OTHER -> IF r.plural THEN named.among ELSE Unique(named.among)

\* A detection list is indexed with the ordinal less one; Python takes -1 for the
\* last.
Answered(r, batch) ==
  CASE r.track # None -> OfTrack(r.track, batch)
    [] r.track = None /\ Numbered(r, "object") -> At(r.ordinal["object"], batch)
    [] OTHER -> AnsweredByName(r, batch)

-----------------------------------------------------------------------------
(***************************************************************************)
(* parse_vision_motion: the detection to move to, if there is one.         *)
(***************************************************************************)
\* Mutant: objects are numbered the other way round.
ChosenCountingDown(r, named) ==
  IF Numbered(r, named.name)
  THEN At(1 + Cardinality(named.among) - r.ordinal[named.name], named.among)
  ELSE Unique(named.among)

\* _choose_ordinal.
Chosen(r, named) ==
  IF Numbered(r, named.name)
  THEN At(r.ordinal[named.name], named.among)
  ELSE Unique(named.among)

Selected(r, batch) ==
  CASE r.track # None -> OfTrack(r.track, batch)
    [] r.track = None /\ r.object ->
         IF Numbered(r, "object") THEN At(r.ordinal["object"], batch) ELSE Unique(batch)
    [] OTHER -> Chosen(r, Named(r, batch, AimedName(r, batch)))

\* Mutant: a track ID is believed to stay with its object.
ReacquiredByTrack(d, batch) == OfTrack(d.track, batch)

\* select_visible_track: the same track, label and identity source.
Reacquired(d, batch) ==
  {e \in OfTrack(d.track, batch) : e.label = d.label /\ e.identity = d.identity}

-----------------------------------------------------------------------------
(***************************************************************************)
(* Targets.                                                                *)
(***************************************************************************)
Square(n) == n * n
Apart(p, q) == Square(p[1] - q[1]) + Square(p[2] - q[2])

\* build_vision_cartesian_target: X and Y of the object, Z of the arm.
Aligned(d, from) == <<d.xy[1] + Offset[1], d.xy[2] + Offset[2], from[3]>>

Travels(d, from) == d.valid /\ Apart(Aligned(d, from), from) <= Square(MaxTravel)

Gap(a, b) == IF a < b THEN b - a ELSE a - b

\* Mutant: only the way down is bounded.
PickableDown(from) ==
  /\ PickZ[2] < PickZ[1] /\ PickZ[2] <= PickZ[3]
  /\ Gap(PickZ[1], PickZ[2]) <= MaxVertical

\* build_pick_motion_plan: the heights are checked before the alignment.
Pickable(from) ==
  /\ PickZ[2] < PickZ[1] /\ PickZ[2] <= PickZ[3]
  /\ Gap(PickZ[1], from[3]) <= MaxApproach
  /\ Gap(PickZ[1], PickZ[2]) <= MaxVertical /\ Gap(PickZ[3], PickZ[2]) <= MaxVertical

Buildable(r, d, from) == Travels(d, from) /\ (r.pick => Pickable(from))

Stages(r, d, from) ==
  IF r.pick
  THEN [i \in 1..3 |-> <<Aligned(d, from)[1], Aligned(d, from)[2], PickZ[i]>>]
  ELSE <<Aligned(d, from)>>

-----------------------------------------------------------------------------
Init ==
  /\ BridgeInit
  /\ pose \in Poses
  /\ asked = None
  /\ selection = None
  /\ preview = None
  /\ plan = <<>>

\* The camera, the detector and the bridge go on; the arm may be moved.
Bridge == BridgeNext /\ UNCHANGED selectionVars

ArmMoves ==
  /\ pose' \in Poses
  /\ UNCHANGED <<bridgeVars, asked, selection, preview, plan>>

Preview ==
  /\ asked = None
  /\ published # None
  /\ \E r \in Requests : \E d \in Selected(r, published) :
       /\ Buildable(r, d, pose)
       /\ asked' = r
       /\ selection' = d
       /\ preview' = Aligned(d, pose)
  /\ plan' = <<>>
  /\ UNCHANGED <<bridgeVars, pose>>

\* _refresh_target_after_confirmation and the pick plan: the target is built again
\* from another batch and another pose.
Refresh ==
  /\ asked # None /\ plan = <<>>
  /\ \E d \in Reacquired(selection, published) :
       /\ Buildable(asked, d, pose)
       /\ Apart(Aligned(d, pose), preview) <= Square(MaxShift)
       /\ plan' = Stages(asked, d, pose)
       /\ selection' = d
  /\ UNCHANGED <<bridgeVars, pose, asked, preview>>

\* The operator declines, the object is gone, or the motion is over.
Forget ==
  /\ asked # None
  /\ asked' = None
  /\ selection' = None
  /\ preview' = None
  /\ plan' = <<>>
  /\ UNCHANGED <<bridgeVars, pose>>

Next == Bridge \/ ArmMoves \/ Preview \/ Refresh \/ Forget

Spec == Init /\ [][Next]_vars

-----------------------------------------------------------------------------
(***************************************************************************)
(* Properties.                                                             *)
(***************************************************************************)
TypeOK ==
  /\ BridgeTypeOK
  /\ pose \in Poses
  /\ asked \in Requests \cup {None}
  /\ selection # None => selection \in Detections
  /\ preview # None => preview \in Int \X Int \X Int
  /\ plan \in Seq(Int \X Int \X Int) /\ Len(plan) <= 3
  /\ (asked = None) = (selection = None) /\ (asked = None) = (preview = None)

\* Two visible labels of one word stand where the two functions look for one, and
\* nothing that comes before such a label in their order is said.
SaysTwoNames(r, batch) ==
  /\ r.track = None /\ ~r.object /\ r.families = {} /\ ExactNames(r, batch) = {}
  /\ \E l, m \in Visible(r.told \cup r.aimed, batch) : l # m

\* When words are answered with the coordinates of one object and also select an
\* object to move to, it is the same object, whatever track ID, ordinals, classes and
\* families are mixed in them; except that "of the cup over the cardboard" is answered
\* with the cup and moved to the cardboard, so words that name two visible labels of
\* one word are left out.  Nothing is said of words one of the two refuses: number
\* zero is answered with the last object and refused as a motion
\* (AnsweredByItsAlias).
AnsweredIsMovedTo ==
  published # None =>
    \A r \in Requests :
      Cardinality(Answered(r, published)) = 1 /\ Selected(r, published) # {}
        => Answered(r, published) = Selected(r, published) \/ SaysTwoNames(r, published)

\* Where the calibration says an object is, and the assistant's offset moves it to.
AboveIn(b, track) ==
  {<<Matrix[1] * d.at[1] + Matrix[2] * d.at[2] + Translation[1] + Offset[1],
     Matrix[3] * d.at[1] + Matrix[4] * d.at[2] + Translation[2] + Offset[2]>> :
     d \in {e \in Items(b) : e.track = track}}

\* What is sent is for the very object that was shown, though the names of objects
\* change with every batch and track IDs are taken by others; and every stage of it
\* is where the calibration says that object is, whichever edge of the picture the
\* detector measured from.
SentToTheObjectShown ==
  [][plan' # <<>> /\ plan = <<>>
       => /\ selection'.label = selection.label /\ selection'.identity = selection.identity
          /\ \A i \in DOMAIN plan' :
               <<plan'[i][1], plan'[i][2]>> \in AboveIn(accepted, selection.track)]_vars

\* Every stage that is sent is no farther from the preview than the configured shift
\* and from the arm than the configured travel, and none of a pick's is higher above
\* the one before it, or lower, than configured.
PlanIsWithinLimits ==
  [][plan' # <<>> /\ plan = <<>>
       => \A i \in DOMAIN plan' :
            /\ Apart(plan'[i], preview) <= Square(MaxShift)
            /\ Apart(plan'[i], pose) <= Square(MaxTravel)
            /\ IF i = 1 THEN Gap(plan'[1][3], pose[3]) <= MaxApproach
               ELSE Gap(plan'[i][3], plan'[i - 1][3]) <= MaxVertical]_vars

\* README.md of the assistant: "The requested class must be visible".
RequestedClassIsSelected ==
  asked # None /\ asked.track = None /\ asked.families # {}
    => Family[selection.label] \in asked.families

\* OLLAMA.md: aliases are assigned in the order of the track IDs; the object an
\* alias is answered with is the one that has it.
AnsweredByItsAlias ==
  published # None =>
    \A r \in Requests : \A f \in r.families :
      r.track = None /\ ~Numbered(r, "object") /\ Numbered(r, f) /\ r.names = {}
        => \A d \in Answered(r, published) : Place(d, OfFamily(Family[d.label], published)) = r.ordinal[f]
=============================================================================
