--------------------------- MODULE ActionResults ----------------------------
(***************************************************************************)
(* The hand-over of predicted actions.  The inference thread pushes a pose *)
(* per frame into a sliding window (src/src/tcn_action_predictor.c); the   *)
(* TCN thread predicts from it every so many frames                        *)
(* (src/src/system_controller.c); the next frame with a pose fetches the   *)
(* result, once, and frames that are skipped repeat the last processed     *)
(* frame's result (src/src/inference_pipeline.c).                          *)
(*                                                                         *)
(* A prediction is the number of its run, 0 one without an action: below   *)
(* the threshold, or failed.  Left out: the window's contents, copied      *)
(* under the lock that pushes take, and the network.                       *)
(***************************************************************************)
EXTENDS Integers

CONSTANTS Window,      \* num_frames
          MinFrames,   \* min_frames_to_predict
          Interval,    \* action_inference_interval
          InFlight,    \* frames between inference and postprocess: the ring's slots
          MaxRuns      \* bound: predictions

ASSUME ActionAssumption ==
  /\ {Window, MinFrames, Interval, InFlight} \subseteq Nat \ {0} /\ MaxRuns \in Nat
  /\ MinFrames <= Window

VARIABLES fill,       \* buffer_frames
          uncounted,  \* frames the postprocess thread has yet to count
          sinceRun,   \* frame_count - last_run_frame, up to Interval
          tcn,        \* the TCN thread: "idle" or "running"
          runs,       \* predictions begun
          latest,     \* latest_action
          hasNew,     \* has_new_action
          kept,       \* the action in last_full_result, 0 for none
          keptPose,   \* "none" before has_last_result, then whether it has a pose
          shown,      \* the action in the frame's result, 0 for none
          skipped,    \* whether that frame was skipped
          newest      \* history: the latest action shown so far

actionVars == <<fill, uncounted, sinceRun, tcn, runs, latest, hasNew, kept, keptPose,
                shown, skipped, newest>>

ActionInit ==
  /\ fill = 0 /\ uncounted = 0 /\ sinceRun = 0
  /\ tcn = "idle" /\ runs = 0 /\ latest = 0 /\ hasNew = FALSE
  /\ kept = 0 /\ keptPose = "none" /\ shown = 0 /\ skipped = FALSE /\ newest = 0

Upto1(n, limit) == IF n < limit THEN n + 1 ELSE limit

\* tcn_action_predictor_get_latest, in a frame with a pose.
Fetched(pose, carried) == IF pose /\ hasNew THEN latest ELSE carried

ShowAction(pose, carried) ==
  /\ uncounted < InFlight /\ uncounted' = uncounted + 1
  /\ fill' = IF pose THEN Upto1(fill, Window) ELSE fill
  /\ shown' = Fetched(pose, carried)
  /\ newest' = IF shown' > newest THEN shown' ELSE newest
  /\ hasNew' = (hasNew /\ ~pose)
  /\ UNCHANGED <<sinceRun, tcn, runs, latest>>

\* Bug: the result still holds what the frame before had.
MutBlank == kept

\* The result a frame begins with: inference_result_init.
Blank == 0

ProcessedFrame(pose) ==
  /\ ShowAction(pose, Blank)
  /\ kept' = shown' /\ keptPose' = (IF pose THEN "yes" ELSE "no") /\ skipped' = FALSE

\* A frame can be skipped once one has been processed; without a pose in that one
\* nothing is fetched.
SkippedFrame ==
  /\ keptPose # "none"
  /\ ShowAction(keptPose = "yes", kept)
  /\ skipped' = TRUE /\ UNCHANGED <<kept, keptPose>>

\* The postprocess thread counts the frame.
CountFrame ==
  /\ uncounted > 0 /\ uncounted' = uncounted - 1
  /\ sinceRun' = Upto1(sinceRun, Interval)
  /\ UNCHANGED <<fill, tcn, runs, latest, hasNew, kept, keptPose, shown, skipped, newest>>

\* k1_tcn_thread: a prediction begins ...
RunBegins ==
  /\ tcn = "idle" /\ sinceRun >= Interval /\ fill >= MinFrames /\ runs < MaxRuns
  /\ tcn' = "running" /\ runs' = runs + 1 /\ sinceRun' = 0
  /\ UNCHANGED <<fill, uncounted, latest, hasNew, kept, keptPose, shown, skipped, newest>>

\* ... and its result replaces the last one, fetched or not.
RunEnds ==
  /\ tcn = "running" /\ tcn' = "idle"
  /\ latest' \in {0, runs} /\ hasNew' = TRUE
  /\ UNCHANGED <<fill, uncounted, sinceRun, runs, kept, keptPose, shown, skipped, newest>>

ActionNext ==
  \/ \E pose \in BOOLEAN : ProcessedFrame(pose)
  \/ SkippedFrame \/ CountFrame \/ RunBegins \/ RunEnds

ActionSpec == ActionInit /\ [][ActionNext]_actionVars

-----------------------------------------------------------------------------
ActionTypeOK ==
  /\ fill \in 0..Window /\ uncounted \in 0..InFlight /\ sinceRun \in 0..Interval
  /\ tcn \in {"idle", "running"} /\ runs \in 0..MaxRuns
  /\ {latest, kept, shown, newest} \subseteq 0..MaxRuns
  /\ {hasNew, skipped} \subseteq BOOLEAN /\ keptPose \in {"none", "yes", "no"}

\* Actions are shown in the order of the predictions, whenever those end between two
\* frames, are replaced before they are fetched, or wait for a pose.  Only a skipped
\* frame may fall back, to what the last processed frame showed.
ActionOrder ==
  shown # 0 => shown = newest \/ (skipped /\ shown = kept)

=============================================================================
