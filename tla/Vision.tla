------------------------------- MODULE Vision -------------------------------
(***************************************************************************)
(* The parts of the vision pipeline side by side.  What one hands to the   *)
(* next (detections, counts of tracks, matched faces, ids) is left open in *)
(* the module of the receiver, so that they share no variable and a        *)
(* behaviour is one of one part, the others staying as they began.  The    *)
(* proofs are about the specification of each part.                        *)
(***************************************************************************)
EXTENDS Hungarian, Tracker, WorldPersons, Cascade, FaceCache, ActionResults

VARIABLE part   \* the part whose behaviour it is

Rest ==
  /\ UNCHANGED part
  /\ part = "matching" \/ UNCHANGED hungarianVars
  /\ part = "tracks"   \/ UNCHANGED trackerVars
  /\ part = "persons"  \/ UNCHANGED personsVars
  /\ part = "cascade"  \/ UNCHANGED cascadeVars
  /\ part = "faces"    \/ UNCHANGED faceVars
  /\ part = "actions"  \/ UNCHANGED actionVars

visionVars == <<part, hungarianVars, trackerVars, personsVars, cascadeVars, faceVars,
                actionVars>>

VisionInit ==
  /\ part \in {"matching", "tracks", "persons", "cascade", "faces", "actions"}
  /\ HungarianInit /\ TrackerInit /\ PersonsInit /\ CascadeInit /\ FaceInit /\ ActionInit
  /\ part = "matching" \/ cost = [i \in 1..Rows |-> [j \in 1..Cols |-> Min(Costs)]]

VisionNext ==
  /\ Rest
  /\ \/ part = "matching" /\ HungarianNext
     \/ part = "tracks"   /\ TrackerNext
     \/ part = "persons"  /\ PersonsNext
     \/ part = "cascade"  /\ CascadeNext
     \/ part = "faces"    /\ FaceNext
     \/ part = "actions"  /\ ActionNext

VisionSpec ==
  /\ VisionInit /\ [][VisionNext]_visionVars
  /\ WF_visionVars(part = "tracks" /\ TrackerNext /\ Rest)
  /\ WF_visionVars(part = "cascade" /\ CascadeFrame /\ Rest)

=============================================================================
