--------------------------- MODULE LandmarkMapping ---------------------------
(* The mapping of raw Holistic frames to canonical points                   *)
(* (src/bitsign_motion/mediapipe_mapping.py, map_holistic_to_canonical):    *)
(* MediaPipe gives two hands in slots without sides; each frame decides     *)
(* which slot is the left hand and which the right by the distances to the  *)
(* pose's wrists, fits each hand and the face to the pose, and writes a     *)
(* diagnostic beside the points.                                            *)
(*                                                                          *)
(* A distance is an integer, and any pair of distances to the two wrists    *)
(* may occur.  The outcome of a fit's linear algebra is chosen from its     *)
(* possible outcomes: no fit, or a residual, and whether a reflection would *)
(* fit better.                                                              *)
EXTENDS Integers, FiniteSets, Sequences
CONSTANTS
  Distances,  \* from a hand's wrist to a wrist of the pose
  Ambiguity, Maximum,   \* hand_assignment_ambiguity and maximum_hand_wrist
  FrameCount

ASSUME Thresholds ==
  /\ Distances \subseteq Nat /\ 0 \in Distances /\ FrameCount \in Nat \ {0}
  /\ Ambiguity \in Nat /\ Maximum \in Nat /\ 0 < Ambiguity /\ Ambiguity < Maximum

Sides == {"left", "right"}
Slots == {1, 2}
Tracks == Sides \cup {"pose", "face"}

VARIABLES
  step,      \* what the current frame comes to next
  raw,       \* its hands: the usable slots, their distances, and the pose's wrists
  slot,      \* assigned_slots: the slot of each side, 0 for none
  states,    \* the assignment state of each slot
  reasons,   \* the frame's reasons, as a set
  present,   \* for each hand the slot its coordinates come from, 0 for none;
             \* for the pose and the face 1 or 0
  scored,    \* the hands whose scores were copied
  ambiguous, handsRejected, facesRejected, invalid,  \* the counters
  frames     \* FrameMappingDiagnostic of each frame, and its points
mappingVars == <<step, raw, slot, states, reasons, present, scored,
                 ambiguous, handsRejected, facesRejected, invalid, frames>>
counters == <<ambiguous, handsRejected, facesRejected, invalid>>

NoRaw == [usable |-> {}, wrists |-> FALSE, dist |-> [s \in Slots |-> [d \in Sides |-> 0]]]
Blank == [d \in Tracks |-> 0]

MappingInit ==
  /\ step = "torso" /\ raw = NoRaw /\ slot = [d \in Sides |-> 0]
  /\ states = [s \in Slots |-> "missing"] /\ reasons = {} /\ present = Blank /\ scored = {}
  /\ ambiguous = 0 /\ handsRejected = 0 /\ facesRejected = 0 /\ invalid = 0 /\ frames = <<>>

-----------------------------------------------------------------------------
(* Which hand is which *)

Far(a, b) == IF a > b THEN a - b ELSE b - a
Same(r, s) == [states |-> [t \in Slots |-> IF t \in r.usable THEN s ELSE "missing"],
               slot |-> [d \in Sides |-> 0]]
Assigned(r, f) ==
  [states |-> [s \in Slots |-> IF \E d \in Sides : f[d] = s THEN CHOOSE d \in Sides : f[d] = s
                               ELSE "missing"],
   slot |-> f]

\* (faulty) each hand goes to the wrist it is nearer to
AssignNearest(r) ==
  LET near(s) == IF r.dist[s]["left"] < r.dist[s]["right"] THEN "left" ELSE "right"
      f == [d \in Sides |-> IF \E s \in r.usable : near(s) = d
                            THEN CHOOSE s \in r.usable : near(s) = d ELSE 0]
  IN  IF r.usable = {} \/ ~r.wrists THEN Same(r, "unassignable-pose-wrists") ELSE Assigned(r, f)

\* _hand_assignment.
HandAssignment(r) ==
  LET only == CHOOSE s \in r.usable : TRUE
      dl == r.dist[only]["left"]
      dr == r.dist[only]["right"]
      side == IF dl < dr THEN "left" ELSE "right"
      direct  == r.dist[1]["left"] + r.dist[2]["right"]
      swapped == r.dist[1]["right"] + r.dist[2]["left"]
      both == IF direct < swapped THEN [d \in Sides |-> IF d = "left" THEN 1 ELSE 2]
                                  ELSE [d \in Sides |-> IF d = "left" THEN 2 ELSE 1]
  IN  IF r.usable = {} THEN Same(r, "missing")
      ELSE IF ~r.wrists THEN Same(r, "unassignable-pose-wrists")
      ELSE IF Cardinality(r.usable) = 1 THEN
             IF Far(dl, dr) <= Ambiguity THEN Same(r, "ambiguous")
             ELSE IF r.dist[only][side] > Maximum THEN Same(r, "rejected-distance")
             ELSE Assigned(r, [d \in Sides |-> IF d = side THEN only ELSE 0])
      ELSE IF Far(direct, swapped) <= Ambiguity THEN Same(r, "ambiguous")
      ELSE IF \E d \in Sides : r.dist[both[d]][d] > Maximum THEN Same(r, "rejected-distance")
      ELSE Assigned(r, both)

-----------------------------------------------------------------------------
(* A frame *)

\* The frame's record, and the next frame's start.
Close(valid, st, why, has) ==
  /\ frames' = Append(frames, [valid |-> valid, states |-> st, reasons |-> why,
                               present |-> has])
  /\ step' = IF Len(frames) + 1 = FrameCount THEN "done" ELSE "torso"
  /\ raw' = NoRaw /\ slot' = [d \in Sides |-> 0] /\ states' = [s \in Slots |-> "missing"]
  /\ reasons' = {} /\ present' = Blank /\ scored' = {}

\* Shoulders missing, or nearer to each other than minimum_shoulder_width:
\* nothing else of the frame is mapped.
SkipFrame ==
  /\ step = "torso"
  /\ invalid' = invalid + 1
  /\ Close(FALSE, [s \in Slots |-> "unmapped-torso"], {<<"torso", "missing-or-degenerate-shoulders">>}, Blank)
  /\ UNCHANGED <<ambiguous, handsRejected, facesRejected>>

AssignHands ==
  /\ step = "torso"
  /\ \E r \in [usable : SUBSET Slots, wrists : BOOLEAN, dist : [Slots -> [Sides -> Distances]]] :
       LET a == HandAssignment(r) IN
       /\ \A s \in Slots : (s \in r.usable /\ r.wrists) \/ r.dist[s] = NoRaw.dist[s]
       /\ raw' = r /\ states' = a.states /\ slot' = a.slot
       /\ IF \E s \in Slots : a.states[s] = "ambiguous"
             THEN ambiguous' = ambiguous + 1 /\ reasons' = {<<"hands", "ambiguous">>}
             ELSE UNCHANGED <<ambiguous, reasons>>
  /\ present' = [present EXCEPT !["pose"] = 1]
  /\ step' = "left"
  /\ UNCHANGED <<scored, handsRejected, facesRejected, invalid, frames>>

\* What can keep an assigned hand without coordinates, in the order of the
\* checks: the anchors, the orientation of image against world, the fit.
Obstacles == <<"missing-world-fit-anchors", "missing-image-orientation-anchors",
               "degenerate-image-world-orientation", "image-world-reflection",
               "missing-pose-fit-anchors", "degenerate-fit", "fit-residual">>
Rejections == {"degenerate-image-world-orientation", "image-world-reflection",
               "degenerate-fit", "fit-residual"}
After == [left |-> "right", right |-> "face"]

NoHand(d) ==
  /\ step = d /\ slot[d] = 0 /\ step' = After[d]
  /\ UNCHANGED <<raw, slot, states, reasons, present, scored, counters, frames>>

FitHand(d) ==
  /\ step = d /\ slot[d] # 0 /\ step' = After[d]
  /\ scored' = scored \cup {d}
  /\ \/ /\ present' = [present EXCEPT ![d] = slot[d]]
        /\ UNCHANGED <<reasons, handsRejected>>
     \/ \E i \in DOMAIN Obstacles :
          /\ reasons' = reasons \cup {<<d, Obstacles[i]>>}
          /\ handsRejected' = handsRejected + (IF Obstacles[i] \in Rejections THEN 1 ELSE 0)
          /\ UNCHANGED present
  /\ UNCHANGED <<raw, slot, states, ambiguous, facesRejected, invalid, frames>>

FaceRejections == {"degenerate-fit", "reflection-required", "fit-residual"}
\* The face is the frame's last track; of its points those that the canonical
\* form keeps may all be absent although its anchors are there.
FitFace ==
  /\ step = "face"
  /\ \/ \E here \in {0, 1} :
          /\ Close(TRUE, states, reasons, [present EXCEPT !["face"] = here])
          /\ UNCHANGED facesRejected
     \/ /\ Close(TRUE, states, reasons \cup {<<"face", "missing-fit-anchors">>}, present)
        /\ UNCHANGED facesRejected
     \/ \E why \in FaceRejections :
          /\ Close(TRUE, states, reasons \cup {<<"face", why>>}, present)
          /\ facesRejected' = facesRejected + 1
  /\ UNCHANGED <<ambiguous, handsRejected, invalid>>

MappingNext ==
  \/ SkipFrame \/ AssignHands \/ FitFace
  \/ \E d \in Sides : NoHand(d) \/ FitHand(d)

MappingSpec == MappingInit /\ [][MappingNext]_mappingVars

-----------------------------------------------------------------------------
(* Properties *)

\* The reference: an assignment gives the usable hands different sides; the
\* best one must beat every other by more than the ambiguity and leave each
\* hand within the maximum.
Pairings(r) ==
  {f \in [r.usable -> Sides] : \A s, t \in r.usable : s # t => f[s] # f[t]}
Cost(r, f) ==
  (IF 1 \in r.usable THEN r.dist[1][f[1]] ELSE 0) + (IF 2 \in r.usable THEN r.dist[2][f[2]] ELSE 0)
Clear(r, f) ==
  /\ r.usable # {} /\ r.wrists
  /\ \A g \in Pairings(r) \ {f} : Cost(r, f) + Ambiguity < Cost(r, g)
  /\ \A s \in r.usable : r.dist[s][f[s]] <= Maximum

\* AssignmentBest: a side gets a hand exactly when one assignment of the usable
\* hands to different sides is clearly the cheapest and no hand of it is too
\* far; then every usable hand is assigned by it, and no side twice.
AssignmentBest ==
  step \in Sides \cup {"face"} =>
    \/ /\ \E f \in Pairings(raw) : Clear(raw, f) /\ \A d \in Sides, s \in Slots :
             slot[d] = s <=> s \in raw.usable /\ f[s] = d
       /\ \A d \in Sides : slot[d] # 0 => states[slot[d]] = d
    \/ /\ \A f \in Pairings(raw) : ~Clear(raw, f)
       /\ \A d \in Sides : slot[d] = 0
       /\ \A s \in Slots : states[s] \notin Sides

\* MappingExplained: of every finished frame, a hand has coordinates exactly
\* when a slot was assigned to its side and no reason speaks of that side, and
\* it has the coordinates of that slot; the counters that the motion artifact
\* carries are the numbers of the frames' reasons of their kind.
Told(who, why) == Cardinality({e \in (1..Len(frames)) \X who \X why :
                                 <<e[2], e[3]>> \in frames[e[1]].reasons})
MappingExplained ==
  /\ \A k \in 1..Len(frames) : \A d \in Sides :
       LET of == {s \in Slots : frames[k].states[s] = d}
       IN  /\ Cardinality(of) <= 1
           /\ frames[k].present[d] # 0 <=> of # {} /\ \A w \in frames[k].reasons : w[1] # d
           /\ frames[k].present[d] \in of \cup {0}
  /\ step \in {"torso", "done"} =>
       /\ handsRejected = Told(Sides, Rejections)
       /\ facesRejected = Told({"face"}, FaceRejections)
       /\ ambiguous = Told({"hands"}, {"ambiguous"})
       /\ invalid = Told({"torso"}, {"missing-or-degenerate-shoulders"})

\* HandsAssigned: a frame's hands are the reference's, and what the artifact
\* says of every frame is the reason for what it holds (mediapipe_mapping.py:
\* 519-587 and 641-922).
HandsAssigned == AssignmentBest /\ MappingExplained
=============================================================================
