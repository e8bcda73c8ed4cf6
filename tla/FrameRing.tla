------------------------------ MODULE FrameRing ------------------------------
(***************************************************************************)
(* The four-slot frame ring of the K1 real-time pipeline                   *)
(* (src/system_controller.c, K1Pipeline and the k1_pipeline_slot_* calls)  *)
(* with the four worker threads that hand slots to one another, and the    *)
(* monitor that shuts them down, joins them and frees the ring.            *)
(*                                                                         *)
(*   capture --has_frame--> inference --has_inference--> postprocess       *)
(*      ^                                                    |             *)
(*      +------ active_slots-- ------ viz <---has_tracking---+             *)
(*                                                                         *)
(* A critical section of ring_mutex, or of a slot's own mutex, is one      *)
(* step; what a thread does between two of them is one step too.  A flag   *)
(* of the slots is the set of the slots where it is up.  Of the payloads   *)
(* only this is kept: whether the InferenceResult in a slot was computed   *)
(* from the picture (and K1 pose snapshot) that is in the slot now.        *)
(*                                                                         *)
(* pl->running is left out: every section that lowers it raises            *)
(* pl->shutdown too, so a loop that tests either of them leaves.           *)
(* frame_count is left out: any frame may be the one that reaches          *)
(* max_frames.  The TCN thread is left out: it never touches the ring.     *)
(* So is an inference thread without networks (inference_pipeline NULL),   *)
(* which hands on the first slot untouched and leaves.                     *)
(***************************************************************************)
EXTENDS Integers, FiniteSets

CONSTANTS RingSize,     \* K1_RING_SIZE
          HasLimit      \* sc->max_frames > 0

ASSUME RingSizeAssumption == RingSize \in Nat \ {0}
ASSUME HasLimitAssumption == HasLimit \in BOOLEAN

VARIABLES captured,    \* slots with has_frame
          inferred,    \* slots with has_inference
          tracked,     \* slots with has_tracking
          result,      \* a slot's InferenceResult: reset, of its picture, of another
          captureIdx, inferIdx, postIdx,
          active,      \* active_slots
          shutdown,
          waiting,     \* threads asleep in pthread_cond_wait
          pc,          \* where each thread is
          held,        \* the slot each thread is working in, -1 when in none
          monitor      \* "watch", "join", "freed"

vars == <<captured, inferred, tracked, result, captureIdx, inferIdx, postIdx,
          active, shutdown, waiting, pc, held, monitor>>

idxVars  == <<captureIdx, inferIdx, postIdx>>
flagVars == <<captured, inferred, tracked>>

Slots   == 0..(RingSize - 1)
Threads == {"capture", "inference", "postprocess", "viz"}
Stages  == {"start", "take", "work", "mark", "signal", "exit"}

-----------------------------------------------------------------------------
Init ==
  /\ captured = {} /\ inferred = {} /\ tracked = {}
  /\ result = [s \in Slots |-> "reset"]
  /\ captureIdx = 0 /\ inferIdx = 0 /\ postIdx = 0
  /\ active = 0
  /\ shutdown = FALSE
  /\ waiting = {}
  /\ pc = [t \in Threads |-> IF t = "capture" THEN "start" ELSE "take"]
  /\ held = [t \in Threads |-> -1]
  /\ monitor = "watch"

Goto(t, stage) == pc' = [pc EXCEPT ![t] = stage]

\* The thread is through with its slot: the local goes out of use.
LetGo(t) == held' = [held EXCEPT ![t] = -1]

\* pthread_cond_signal: each condition has one thread that ever waits on it.
Wake(t) == waiting' = waiting \ {t}

\* Bug: shutdown is set and nobody is told.
MutSilentShutdown == shutdown' = TRUE /\ UNCHANGED waiting

\* The four broadcasts under ring_mutex that go with shutdown = true.
Broadcast == shutdown' = TRUE /\ waiting' = {}

\* The slot that a scan of RingSize slots from start meets first in ready.
IsFirst(k, start, ready) ==
  /\ k \in ready
  /\ \A j \in ready : (k - start) % RingSize <= (j - start) % RingSize

\* A wait_* call that sees shutdown returns -1 and the thread's loop ends.
Leave(t) ==
  /\ pc[t] = "take" /\ t \notin waiting /\ shutdown
  /\ Goto(t, "exit")
  /\ UNCHANGED <<flagVars, idxVars, result, active, shutdown, waiting, held,
                 monitor>>

\* The cond_wait of a thread: it sleeps until a signal or a broadcast.
Sleep(t) ==
  /\ waiting' = waiting \cup {t}
  /\ UNCHANGED <<flagVars, idxVars, result, active, shutdown, pc, held,
                 monitor>>

-----------------------------------------------------------------------------
(* Capture thread: slot_acquire, fill the slot, slot_capture_done. *)

\* With neither camera nor receiver the thread leaves and tells nobody.
CaptureStart ==
  /\ pc["capture"] = "start"
  /\ \/ Goto("capture", "take")
     \/ Goto("capture", "exit")
  /\ UNCHANGED <<flagVars, idxVars, result, active, shutdown, waiting, held,
                 monitor>>

CaptureAcquire ==
  /\ pc["capture"] = "take" /\ "capture" \notin waiting /\ ~shutdown
  /\ active < RingSize
  /\ held' = [held EXCEPT !["capture"] = captureIdx]
  /\ captureIdx' = (captureIdx + 1) % RingSize
  /\ active' = active + 1
  /\ Goto("capture", "work")
  /\ UNCHANGED <<flagVars, result, inferIdx, postIdx, shutdown, waiting,
                 monitor>>

CaptureWait ==
  /\ pc["capture"] = "take" /\ "capture" \notin waiting /\ ~shutdown
  /\ active >= RingSize
  /\ Sleep("capture")

\* The pose snapshot, and the pixels if a frame came, have gone into the slot: a
\* result that is still in it is now of another picture.
Overwrite ==
  LET k == held["capture"] IN
    result' = [result EXCEPT ![k] = IF @ = "reset" THEN "reset" ELSE "other"]

\* Bug: the slot is handed back and still counted.
MutKeepsCount ==
  /\ Overwrite
  /\ captureIdx' = (captureIdx - 1) % RingSize
  /\ LetGo("capture")
  /\ UNCHANGED <<flagVars, inferIdx, postIdx, active, monitor>>

\* No frame came: the acquired slot, its pose overwritten, is handed back.
Unacquire ==
  /\ Overwrite
  /\ active' = active - 1
  /\ captureIdx' = (captureIdx - 1) % RingSize
  /\ LetGo("capture")
  /\ UNCHANGED <<flagVars, inferIdx, postIdx, monitor>>

\* No frame yet: the slot is handed back and the loop runs again 5 ms later.
CaptureNoFrame ==
  /\ pc["capture"] = "work"
  /\ Unacquire
  /\ Goto("capture", "take")
  /\ UNCHANGED <<shutdown, waiting>>

\* No frame for frame_timeout_s: capture shuts the pipeline down and leaves.
CaptureTimeout ==
  /\ pc["capture"] = "work"
  /\ Unacquire
  /\ Goto("capture", "exit")
  /\ Broadcast

\* A frame came: slot_capture_done raises has_frame.
CaptureDone ==
  /\ pc["capture"] = "work"
  /\ Overwrite
  /\ captured' = captured \cup {held["capture"]}
  /\ Goto("capture", "signal")
  /\ LetGo("capture")
  /\ UNCHANGED <<inferred, tracked, idxVars, active, shutdown, waiting, monitor>>

\* The signal that ends the *_done call of thread t, under ring_mutex.
Signal(t, waiter) ==
  /\ pc[t] = "signal"
  /\ Wake(waiter)
  /\ Goto(t, "take")
  /\ UNCHANGED <<flagVars, idxVars, result, active, shutdown, held, monitor>>

CaptureSignal == Signal("capture", "inference")

Capture == \/ CaptureStart \/ CaptureAcquire \/ CaptureWait \/ CaptureNoFrame
           \/ CaptureTimeout \/ CaptureDone \/ CaptureSignal \/ Leave("capture")

-----------------------------------------------------------------------------
(* Inference thread: slot_wait_captured, process, slot_infer_done.         *)
(* With slots in use but none ready it polls every millisecond: no step.   *)

\* Bug: the scan forgets to skip the slots that have a result.
MutToInferAll == captured

ToInfer == captured \ inferred

InferenceTake ==
  /\ pc["inference"] = "take" /\ "inference" \notin waiting /\ ~shutdown
  /\ active # 0
  /\ \E k \in Slots :
       /\ IsFirst(k, inferIdx, ToInfer)
       /\ inferIdx' = k
       /\ held' = [held EXCEPT !["inference"] = k]
       /\ result' = [result EXCEPT ![k] = "same"]
  /\ Goto("inference", "work")
  /\ UNCHANGED <<flagVars, captureIdx, postIdx, active, shutdown, waiting,
                 monitor>>

InferenceWait ==
  /\ pc["inference"] = "take" /\ "inference" \notin waiting /\ ~shutdown
  /\ active = 0
  /\ Sleep("inference")

\* inference_pipeline_process_frame has read the picture and written the result;
\* slot_infer_done raises has_inference.  If capture wrote into the slot meanwhile,
\* the result may be of either picture.
InferenceDone ==
  /\ pc["inference"] = "work"
  /\ LET k == held["inference"] IN
       result' \in {result, [result EXCEPT ![k] = "same"]}
  /\ inferred' = inferred \cup {held["inference"]}
  /\ Goto("inference", "signal")
  /\ LetGo("inference")
  /\ UNCHANGED <<captured, tracked, idxVars, active, shutdown, waiting, monitor>>

\* Bug: the wrong condition is signalled.
MutSignalViz == Signal("inference", "viz")

InferenceSignal == Signal("inference", "postprocess")

Inference == \/ InferenceTake \/ InferenceWait \/ InferenceDone
             \/ InferenceSignal \/ Leave("inference")

-----------------------------------------------------------------------------
(* Postprocess and viz scan from the same post_idx, and both move it. *)

PostTake(t, ready) ==
  /\ pc[t] = "take" /\ t \notin waiting /\ ~shutdown
  /\ \E k \in Slots :
       /\ IsFirst(k, postIdx, ready)
       /\ postIdx' = k
       /\ held' = [held EXCEPT ![t] = k]
  /\ Goto(t, "work")
  /\ UNCHANGED <<flagVars, result, captureIdx, inferIdx, active, shutdown,
                 waiting, monitor>>

PostWait(t, ready) ==
  /\ pc[t] = "take" /\ t \notin waiting /\ ~shutdown
  /\ ready = {}
  /\ Sleep(t)

\* Bug: the scan forgets to skip the slots that have been tracked.
MutToTrackAll == inferred

ToTrack == inferred \ tracked

PostprocessTake == PostTake("postprocess", ToTrack)
PostprocessWait == PostWait("postprocess", ToTrack)

\* Track the detections and register them in the world with the slot's pose;
\* if this is the frame that reaches max_frames, shut the pipeline down.
PostprocessTrack ==
  /\ pc["postprocess"] = "work"
  /\ Goto("postprocess", "mark")
  /\ \/ HasLimit /\ Broadcast
     \/ UNCHANGED <<shutdown, waiting>>
  /\ UNCHANGED <<flagVars, idxVars, result, active, held, monitor>>

\* slot_tracking_done raises has_tracking.
PostprocessDone ==
  /\ pc["postprocess"] = "mark"
  /\ tracked' = tracked \cup {held["postprocess"]}
  /\ Goto("postprocess", "signal")
  /\ LetGo("postprocess")
  /\ UNCHANGED <<captured, inferred, idxVars, result, active, shutdown,
                 waiting, monitor>>

PostprocessSignal == Signal("postprocess", "viz")

Postprocess == \/ PostprocessTake \/ PostprocessWait \/ PostprocessTrack
               \/ PostprocessDone \/ PostprocessSignal \/ Leave("postprocess")

-----------------------------------------------------------------------------
(* Viz thread: slot_wait_tracked, publish, slot_release. *)

VizTake == PostTake("viz", tracked)
VizWait == PostWait("viz", tracked)

\* Bug: the release forgets has_inference.
MutClearKeepsInference ==
  /\ pc["viz"] = "work"
  /\ LET k == held["viz"] IN
       /\ captured' = captured \ {k}
       /\ tracked'  = tracked \ {k}
       /\ result' = [result EXCEPT ![k] = "reset"]
  /\ Goto("viz", "signal")
  /\ LetGo("viz")
  /\ UNCHANGED <<inferred, idxVars, active, shutdown, waiting, monitor>>

\* Bug: the slot is counted as free in both sections of the release.
MutClearCountsTwice ==
  /\ pc["viz"] = "work"
  /\ LET k == held["viz"] IN
       /\ captured' = captured \ {k}
       /\ inferred' = inferred \ {k}
       /\ tracked'  = tracked \ {k}
       /\ result' = [result EXCEPT ![k] = "reset"]
  /\ active' = active - 1
  /\ Goto("viz", "signal")
  /\ LetGo("viz")
  /\ UNCHANGED <<idxVars, shutdown, waiting, monitor>>

\* The slot has been shown and written out.  slot_release, first section (slot
\* mutex): its flags and results are reset.
VizClear ==
  /\ pc["viz"] = "work"
  /\ LET k == held["viz"] IN
       /\ captured' = captured \ {k}
       /\ inferred' = inferred \ {k}
       /\ tracked'  = tracked \ {k}
       /\ result' = [result EXCEPT ![k] = "reset"]
  /\ Goto("viz", "signal")
  /\ LetGo("viz")
  /\ UNCHANGED <<idxVars, active, shutdown, waiting, monitor>>

\* slot_release, second section (ring mutex): the count drops, capture wakes.
VizRelease ==
  /\ pc["viz"] = "signal"
  /\ active' = active - 1
  /\ Wake("capture")
  /\ Goto("viz", "take")
  /\ UNCHANGED <<flagVars, idxVars, result, shutdown, held, monitor>>

Viz == VizTake \/ VizWait \/ VizClear \/ VizRelease \/ Leave("viz")

-----------------------------------------------------------------------------
(* The monitor: k1_pipeline_destroy. *)

\* The monitor loop ends: the stop button, SIGINT or a stuck capture thread
\* at any moment, and the shutdown flag when a worker has raised it.
MonitorShutdown ==
  /\ monitor = "watch"
  /\ Broadcast
  /\ monitor' = "join"
  /\ UNCHANGED <<flagVars, idxVars, result, active, pc, held>>

\* pthread_join of every worker, then the slots and the mutexes are freed.
MonitorJoin ==
  /\ monitor = "join"
  /\ \A t \in Threads : pc[t] = "exit"
  /\ monitor' = "freed"
  /\ UNCHANGED <<flagVars, idxVars, result, active, shutdown, waiting, pc,
                 held>>

Next == Capture \/ Inference \/ Postprocess \/ Viz \/ MonitorShutdown
        \/ MonitorJoin

\* Every thread is scheduled.  Nothing obliges the user to stop the pipeline:
\* the monitor is only obliged to leave its loop once a worker raised shutdown.
Fairness ==
  /\ WF_vars(Capture) /\ WF_vars(Inference)
  /\ WF_vars(Postprocess) /\ WF_vars(Viz)
  /\ WF_vars(shutdown /\ MonitorShutdown)
  /\ WF_vars(MonitorJoin)

Spec == Init /\ [][Next]_vars
FairSpec == Spec /\ Fairness

-----------------------------------------------------------------------------
TypeOK ==
  /\ captured \subseteq Slots /\ inferred \subseteq Slots
  /\ tracked \subseteq Slots
  /\ result \in [Slots -> {"reset", "same", "other"}]
  /\ captureIdx \in Slots /\ inferIdx \in Slots /\ postIdx \in Slots
  /\ active \in Int
  /\ shutdown \in BOOLEAN
  /\ waiting \subseteq Threads
  /\ pc \in [Threads -> Stages]
  /\ held \in [Threads -> Slots \cup {-1}]
  /\ monitor \in {"watch", "join", "freed"}

\* Thread t is inside the slot it took.
Inside(t) == pc[t] \in {"work", "mark"}

\* The three consuming stages never work in the same slot at the same time,
\* although postprocess and viz move one shared post_idx under each other and
\* the flags they scan are raised under another mutex than the one they hold.
ConsumersExclusive ==
  \A t, u \in {"inference", "postprocess", "viz"} :
    (t # u /\ Inside(t) /\ Inside(u)) => held[t] # held[u]

\* The stage of a slot, read off its three flags.
StageOf(s) == IF s \in tracked  THEN "tracked"
         ELSE IF s \in inferred THEN "inferred"
         ELSE IF s \in captured THEN "captured" ELSE "empty"

Lifecycle == INSTANCE SlotLifecycle
               WITH stage <- [s \in Slots |-> StageOf(s)]

\* Every slot keeps to its life cycle although three mutexes and four threads
\* move its flags, and although capture may fill a slot still in use.
SlotsKeepLifecycle == Lifecycle!Spec

\* 1 if the condition holds: the terms of the slot accounting.
One(b) == IF b THEN 1 ELSE 0

\* active_slots never undercounts: it covers every slot with a frame in it, the
\* slot capture is filling and the one viz has cleared but not yet given back,
\* and it never exceeds the ring, whatever order slots are released in.
SlotsAccounted ==
  /\ Cardinality(captured) + One(Inside("capture")) + One(pc["viz"] = "signal")
       <= active
  /\ active <= RingSize

\* The slots counted in active_slots that no frame and no thread accounts for.
\* There are such slots: capture fills captureIdx whatever is in it, and a slot
\* filled twice before its release is counted twice and released once.
LostSlots ==
  active - (Cardinality(captured) + One(Inside("capture"))
            + One(pc["viz"] = "signal"))

\* The last slot is never lost.
SlotsRemain == LostSlots < RingSize

\* Capture waits only for a slot that will come: a full ring has a frame in it, or
\* a slot in hand, whose release wakes capture, although slots get lost.
FullMeansWork ==
  active = RingSize =>
    captured # {} \/ Inside("capture") \/ pc["viz"] = "signal"

\* A flag is raised only after the ones before it, and a thread inside a slot
\* holds one whose flags put it at that thread's stage.
FlagsNest == tracked \subseteq inferred /\ inferred \subseteq captured

HoldersAtStage ==
  /\ Inside("capture")     => held["capture"] \in Slots
  /\ Inside("inference")   => held["inference"] \in captured \ inferred
  /\ Inside("postprocess") => held["postprocess"] \in inferred \ tracked
  /\ Inside("viz")         => held["viz"] \in tracked

\* After shutdown nobody sleeps, and the monitor frees only after the joins.
ShutdownPhases ==
  /\ shutdown => waiting = {}
  /\ monitor # "watch" => shutdown
  /\ monitor = "freed" => \A t \in Threads : pc[t] = "exit"

\* The inductive invariant of the ring.
RingInv == TypeOK /\ FlagsNest /\ HoldersAtStage /\ SlotsAccounted
           /\ SlotsRemain /\ ShutdownPhases

\* No wake-up is lost: a frame that entered the ring leaves it again unless the
\* pipeline is shut down, although a consumer tests the flags under ring_mutex
\* while the producer raises them under the slot's mutex and signals later.
FramesDrain ==
  \A s \in Slots : s \in captured ~> (s \notin captured \/ shutdown)

\* Whoever asks for the shutdown, and wherever the threads are then, every
\* thread leaves and the monitor's joins return.
ShutdownCompletes == shutdown ~> monitor = "freed"

\* The comment on the pose snapshot of the capture thread: a person is
\* registered in the world with the pose taken when the frame was captured.
PoseMatchesFrame ==
  pc["postprocess"] = "work" => result[held["postprocess"]] = "same"

=============================================================================
