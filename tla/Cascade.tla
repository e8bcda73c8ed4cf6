------------------------------ MODULE Cascade -------------------------------
(***************************************************************************)
(* inference_pipeline_process_frame (src/src/inference_pipeline.c) and the *)
(* frame difference that decides which frames it skips                     *)
(* (src/src/frame_diff.c): the state of the cascade, the counters behind   *)
(* it and the turns of the face detector.  The inference thread runs it;   *)
(* the counts of tracks come from the postprocess thread, for some older   *)
(* frame and without a lock.                                               *)
(*                                                                         *)
(* Frames are counted modulo Cycle, which all intervals divide.  A scene   *)
(* is what frame_diff_compute makes of the picture: "wild" is active with  *)
(* a change above face_motion_skip_threshold.  Left out: the networks, the *)
(* detections a face adds, the action predictor (module ActionResults).    *)
(***************************************************************************)
EXTENDS Integers, FiniteSets, FiniteSetsExt

CONSTANTS Settle,      \* CASCADE_SEARCHING_SETTLE_FRAMES
          LostFrames,  \* CASCADE_TRACKING_LOST_FRAMES
          Validate,    \* cascade_validation_interval
          StaticSkip, LowSkip,  \* max_static_skip, max_low_motion_skip
          ForceEvery,  \* force_process_every
          FaceTracking, FaceSearching, FaceNobody,  \* intervals of the face detector
          FaceDelay,   \* new_person_face_delay
          Cycle,       \* bound: frames are counted modulo this
          MaxPeople    \* bound: detections or tracks

ASSUME CascadeAssumption ==
  /\ {Settle, LostFrames, Validate, StaticSkip, LowSkip, ForceEvery, FaceTracking,
      FaceSearching, FaceNobody, FaceDelay, Cycle, MaxPeople} \subseteq Nat \ {0}
  /\ \A i \in {ForceEvery, FaceTracking, FaceSearching, FaceNobody} : Cycle % i = 0

VARIABLES mode,      \* cascade_state
          inMode,    \* cascade_frames_in_state
          lostFor,   \* cascade_lost_counter
          count,     \* frame_counter
          skips,     \* consecutive_skips
          faceIn,    \* new_person_face_counter
          people,    \* prev_det_count, -1 before the first frame
          known,     \* confirmed_track_count and total_track_count
          scene,     \* last_activity
          good, bad  \* history: processed frames in a row with, without confirmed
                     \* tracks; a validation and a crowd that leads to one break
                     \* no row without

cascadeVars == <<mode, inMode, lostFor, count, skips, faceIn, people, known, scene,
                 good, bad>>

Scenes == {"static", "low", "active", "wild"}
Counts == {k \in [confirmed : 0..MaxPeople, all : 0..MaxPeople] : k.confirmed <= k.all}

CascadeInit ==
  /\ mode = "searching" /\ inMode = 0 /\ lostFor = 0
  /\ count = 0 /\ skips = 0 /\ faceIn = 0 /\ people = -1
  /\ known = [confirmed |-> 0, all |-> 0]
  /\ scene = "active" /\ good = 0 /\ bad = 0

\* The postprocess thread stores what the tracker has.
Sync(k) ==
  /\ known' = k
  /\ UNCHANGED <<mode, inMode, lostFor, count, skips, faceIn, people, scene, good, bad>>

\* frame_diff_should_process.  All frames before this one have been counted.
Budget(s) == CASE s = "static" -> StaticSkip [] s = "low" -> LowSkip [] OTHER -> 0
Skipped(s) ==
  /\ people >= 0 /\ count % ForceEvery # 0
  /\ skips < Budget(s)

SkipFrame(s) ==
  /\ Skipped(s)
  /\ count' = (count + 1) % Cycle /\ skips' = skips + 1 /\ scene' = s
  /\ UNCHANGED <<mode, inMode, lostFor, faceIn, people, known, good, bad>>

\* The tracker has nothing: the detections stand in for the tracks.
Crowd(d) == d > (IF known.all > 0 THEN known.all ELSE d) + 1 /\ d >= 2

\* Bug: the frames without a track are still counted when one comes back.
MutTrackingStep(d) ==
  IF Crowd(d) THEN <<"validating", inMode, lostFor>>
  ELSE IF known.confirmed = 0 THEN
    IF lostFor + 1 >= LostFrames THEN <<"searching", 0, 0>>
    ELSE <<"tracking", (inMode + 1) % Validate, lostFor + 1>>
  ELSE <<IF (inMode + 1) % Validate = 0 THEN "validating" ELSE "tracking",
         (inMode + 1) % Validate, lostFor>>

\* cascade_update_state: the mode, frames in it (only their remainder matters in
\* TRACKING) and frames without a confirmed track.
TrackingStep(d) ==
  IF Crowd(d) THEN <<"validating", inMode, lostFor>>
  ELSE IF known.confirmed = 0 THEN
    IF lostFor + 1 >= LostFrames THEN <<"searching", 0, 0>>
    ELSE <<"tracking", (inMode + 1) % Validate, lostFor + 1>>
  ELSE <<IF (inMode + 1) % Validate = 0 THEN "validating" ELSE "tracking",
         (inMode + 1) % Validate, 0>>

SearchingStep ==
  IF known.confirmed = 0 THEN <<"searching", 0, lostFor>>
  ELSE IF inMode + 1 >= Settle THEN <<"tracking", 0, lostFor>>
  ELSE <<"searching", inMode + 1, lostFor>>

\* Bug: a validation does not lead back to tracking while nobody is confirmed.
MutCascadeStep(d) ==
  CASE mode = "searching"  -> SearchingStep
    [] mode = "tracking"   -> TrackingStep(d)
    [] mode = "validating" -> <<IF known.confirmed = 0 THEN "validating" ELSE "tracking",
                                0, lostFor>>

CascadeStep(d) ==
  CASE mode = "searching"  -> SearchingStep
    [] mode = "tracking"   -> TrackingStep(d)
    [] mode = "validating" -> <<"tracking", 0, lostFor>>

FaceInterval(m, d) == IF d = 0 THEN FaceNobody
                      ELSE IF m = "tracking" THEN FaceTracking ELSE FaceSearching

\* What is left of the countdown to an extra turn of the face detector.  Its turn comes
\* by the count of frames or when the countdown runs out; a new person starts one
\* (which the case for a first person never reaches); a wild picture puts it off.
Countdown(s, d, m) ==
  LET left  == IF faceIn > 0 THEN faceIn - 1 ELSE 0
      turn  == (count + 1) % FaceInterval(m, d) = 0 \/ faceIn = 1
      again == IF ~turn /\ people >= 0 /\ d > people THEN FaceDelay ELSE left
  IN IF turn /\ s = "wild" /\ again = 0 THEN 3 ELSE again

OneMore(n, limit) == IF n < limit THEN n + 1 ELSE limit

ProcessFrame(s, d) ==
  /\ ~Skipped(s)
  /\ \E next \in {CascadeStep(d)} :
       /\ mode' = next[1] /\ inMode' = next[2] /\ lostFor' = next[3]
       /\ faceIn' = Countdown(s, d, next[1])
  /\ count' = (count + 1) % Cycle /\ skips' = 0 /\ scene' = s /\ people' = d
  /\ good' = IF known.confirmed > 0 THEN OneMore(good, Settle) ELSE 0
  /\ bad' = IF mode = "validating" \/ (mode = "tracking" /\ Crowd(d)) THEN bad
            ELSE IF known.confirmed = 0 THEN OneMore(bad, LostFrames) ELSE 0
  /\ UNCHANGED known

CascadeFrame == \E s \in Scenes, d \in 0..MaxPeople : SkipFrame(s) \/ ProcessFrame(s, d)

CascadeNext == (\E k \in Counts : Sync(k)) \/ CascadeFrame

\* The camera goes on delivering frames.
CascadeSpec == CascadeInit /\ [][CascadeNext]_cascadeVars /\ WF_cascadeVars(CascadeFrame)

-----------------------------------------------------------------------------
CascadeTypeOK ==
  /\ mode \in {"searching", "tracking", "validating"}
  /\ inMode \in Nat /\ lostFor \in 0..(LostFrames - 1)
  /\ count \in 0..(Cycle - 1) /\ skips \in 0..(StaticSkip + LowSkip)
  /\ faceIn \in 0..(FaceDelay + 3) /\ people \in -1..MaxPeople
  /\ known \in Counts /\ scene \in Scenes
  /\ good \in 0..Settle /\ bad \in 0..LostFrames

\* The table above cascade_update_state: tracking begins only after Settle frames
\* in a row with a confirmed track, and searching only after LostFrames in a row
\* without one, although one counter serves two modes, frames are skipped and the
\* validations come in between.  (A crowd that leads to a validation is not looked
\* at for tracks: frames before and after it count as one row.)
FlipsEarned ==
  [][/\ mode = "searching" /\ mode' = "tracking" => good' >= Settle
     /\ mode = "tracking" /\ mode' = "searching" => bad' >= LostFrames]_cascadeVars

\* When the tracks are gone for good and no crowd forces validations, the cascade
\* goes back to searching, though most frames of an empty room are skipped.
BackToSearching ==
  <>[](known.confirmed = 0 /\ people <= 1) => <>[](mode = "searching")

=============================================================================
