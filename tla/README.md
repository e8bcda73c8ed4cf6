# LingQi TanTong: specifications, model checks and proofs

LingQi TanTong is a two-part vision system. An ESP32 camera (`src/receive/`)
streams JPEG pictures over CoAP/UDP to a SpacemiT K1 board (`src/src/`), which
detects and tracks persons in a pipeline of threads and shows the result in a
browser. This directory holds TLA+ models of the parts of that program whose
correctness depends on the order of things, the TLC configurations that check
them, and TLAPS proofs of what matters most.

Paths below are relative to the repository; `sc` is `src/system_controller.c`.

## 1. The system

| Component | State | Operations | Talks to |
|---|---|---|---|
| Frame ring, workers (`sc`) | four slots with three flags each, three scan indices, `active_slots`, `shutdown`, four conditions | `slot_acquire`, `capture_done`, `wait_captured`, `infer_done`, `wait_inferred`, `tracking_done`, `wait_tracked`, `release`, `k1_pipeline_destroy` | receiver, inference, tracker, web server |
| State machine, async control (`pipeline_state.c`, `sc`, `main.c`) | five states, `sc->running`, `sc->coap_receiver`, the detached monitor thread | `psm_transition`, `start_async`, `stop_async`, monitor loop, `system_controller_destroy`, SIGINT handler | ring, web server |
| CoAP receiver (`coap_receiver.c`) | `Block2Assembly`, the last JPEG, socket, IMU state | reader thread, `get_latest_frame`, `send_servo`, `destroy` | ESP32 server, capture thread, web server |
| CoAP server (`receive/coap_server.h`) | two stream clients with their progress, one picture buffer, the ETag counter | `tickStream`, `_registerStream`, `/frame`, `/imu`, `/servo`, pruning | receiver |
| Web server (`web_server.c`) | event-loop thread, frame ring, client list | commands, `push_frame_jpeg`, timers, `broadcast_event`, stop | async control, viz, monitor, gallery |
| Logger (`logger.c`) | one ring for each of 16 threads, writer thread, file | `log_*`, `log_flush`, rotation, shutdown | everyone |
| Tracker (`tracking_manager.c`) | tracks with hit and loss counters, id counter | `object_tracker_update`, `hungarian_solve` | postprocess, cascade |
| Cascade (`inference_pipeline.c`, `frame_diff.c`) | SEARCHING / TRACKING / VALIDATING, skip and countdown counters, last results | `process_frame` | inference thread, track counts |
| Face persistence cache (`sc`) | one slot for each of some tracks, with the age of its face | associate, update, look up, age | postprocess, tracker, gallery |
| Face gallery (`face_gallery.c`) | entries by track and identity | update, prune, clear, find, register | viz, web thread |
| World coordinates (`world_coord.c`) | person places with anchors, counts, recording | register, prune | postprocess, web server |
| TCN predictor (`tcn_action_predictor.c`, `sc`) | sliding window, last result and its flag | push, run, fetch | inference and TCN threads |

What is hard here: six to eight threads share the controller with flags that are
`volatile` and not locked; a stage's flag is raised under one mutex and waited for
under another; three parties can shut the pipeline down; the monitor is detached,
and a stop is a flag that it polls; a signal handler moves the same state machine;
the network loses, repeats and reorders packets, and two clients share one picture
buffer. `PROJECT.json` lists these hazards with their lines.

Within a thread, the difficulty is a long history: the tracker's lists are compacted,
merged and reordered while indices into them are in use; counters serve several
modes; tables that are full evict; results are kept for frames that are skipped.

What makes each part correct: a frame goes through every stage once and in order, and no
two consumers touch it at once; nothing that a live thread uses is freed; whoever shuts
down, everybody leaves; there is at most one pipeline, and IDLE is shown only when its
workers and its receiver are gone and its monitor has nothing left but a last broadcast
(the camera and the IMU stay open); a picture handed to the pipeline is of one piece,
and after any disturbance the stream recovers; identities (tracks, places, faces,
actions) stay with the person they were given to; and what is no longer seen, waits to
be written or waits to be sent does not stay for ever.

## 2. Modules

| Module | Models | Composed of |
|---|---|---|
| `SlotLifecycle` | what the ring promises of one slot: empty, captured, inferred, tracked, empty | - |
| `FrameRing` | the ring, its four workers, the monitor's shutdown and joins | refines `SlotLifecycle` |
| `PipelineLifecycle` | state machine, monitor, web and main threads, SIGINT, destroy | uses what `FrameRing` shows of the workers |
| `Block2Stream` | ESP32 server, network, receiver's assembly | - |
| `Hungarian` | `hungarian_solve` in the float arithmetic of the code | - |
| `Tracker` | `object_tracker_update`, all steps | uses what `Hungarian` shows of an assignment |
| `WorldPersons` | table of persons with world coordinates | - |
| `Cascade` | the cascade and the frames it skips | - |
| `FaceCache` | face persistence cache | - |
| `ActionResults` | hand-over of predicted actions | - |
| `Vision` | the six vision modules side by side | extends them |
| `LogQueues` | what the logger promises of its rings: a bounded queue of messages for each | - |
| `LogRings` | log rings, writer, flush, shutdown | refines `LogQueues` until two consumers meet |
| `FaceGallery` | update, prune, clear, find and write | - |
| `FrameQueue` | what the web server promises of its frames: a queue that drops its oldest and goes to all who listen | - |
| `WebHub` | frame ring, broadcasts, client list | refines `FrameQueue` |
| `Services` | the three services side by side | extends them |

The proofs are in modules of their own: `FrameRing_proofs`, `PipelineLifecycle_proofs`,
`Block2Stream_proofs`, `LogRings_proofs`, `Tracker_proofs` (`Hungarian` and `Tracker`),
`Vision_proofs` (`WorldPersons`, `Cascade`, `FaceCache`, `ActionResults`) and
`Services_proofs` (`WebHub`, `FaceGallery`). `BasicLemmas` holds what several of them
need: least and greatest elements of finite sets, ranks, the oldest entry of a table,
remainders, and sums of lists.

`Vision` and `Services` only let one configuration check several modules: their
parts share no variable, one part moves in a behaviour, and what one hands to
another is left open where it arrives. That is the worst case for the receiver, and
no claim is made about the pairs. The modules that do interact through shared state
(`FrameRing` with its workers; monitor, web and main threads; server, network and
receiver; logging threads with writer and flush; viz with the web thread) are each
modelled together in one module.

### FrameRing

A flag of the slots (`has_frame`, `has_inference`, `has_tracking`) is the set of
slots where it is up. Each `k1_pipeline_slot_*` call has two critical sections and
therefore two steps: the slot's mutex (the flag) and `ring_mutex` (the signal), so
every wake-up can come late. `pthread_cond_wait` puts a thread into `waiting`; the
signal takes it out, and the loop tests its condition again. A scan of the ring
under `ring_mutex` is one step; the flags it reads may be raised meanwhile under
the slot's own mutex, and a scan that overlaps such a store is taken to come before
or after it, which changes only which of two ready slots is picked first.

What is in a slot is reduced to `result`: whether its InferenceResult is of the
picture and pose in it now. If capture writes into a slot during the inference, the
result may be of either picture. `active_slots` counts slots and says nothing of
*which* are free, so `capture_idx` may point to a slot still in use; the model
keeps that. A slot that is filled twice before its release is counted twice and
released once: it is lost (`LostSlots`).

Capture begins with a look at what it has to read from: with neither camera nor
receiver it leaves and tells nobody (`CaptureStart`).

Left out: `pl->running` (every section that lowers it raises `shutdown` as well),
`frame_count` (any frame may be the last), thread creation that fails, the
TCN thread, which never touches the ring, and an inference thread without networks
(`inference_pipeline` NULL, `sc:926`), which hands on one slot untouched and leaves.

### PipelineLifecycle

One step is one access to the shared state: the machine under its mutex, `sc->running`
and `sc->coap_receiver` under nothing. The monitor is a sequence of stages named after
what it does next (`setup`, `ring`, `arm`, `watch`, `join`, `cleanup`, `clear`, `lower`,
`report`, `show`, `tell`). In `report` it has left `process_realtime_k1` and reads the
state, in `show` it asks for IDLE, and in `tell` it broadcasts and reads the state once
more for the log: the state may be IDLE, and a new run may have begun, while the old
monitor is still there. `stop_async` is *mark, clear, wait*; `start_async` is *check and
arm, mark, spawn*. The wait of `psm_wait_for` may end at any time, because it has a time
limit. The signal handler runs on the main thread, so main does not move while it is at
work; a second signal kills the process, in which nothing moves then.

The five workers of a run are one here: started, alive, gone. That they all leave
once `shutdown` is up is what `FrameRing` shows (`ShutdownCompletes`).

`sensor` and `opened` follow the camera and the K1 IMU: a run opens what it finds and
writes over the pointer of the run before; `k1_cleanup` closes neither, and the
destroy only the ones pointed to. `Sensors` names those that are followed. No start,
stop or failure depends on them.

Only the GUI mode is modelled: the other modes have one thread of control and no
asynchronous start or stop.

### Block2Stream

Sizes are in blocks. `Tick(due, ready, size)` is the whole of `tickStream`: the
bursts of the clients whose gap is over, and then, when nobody has a frame under
way, a capture and the first burst of it for every client that is ready. `/frame`
retakes the picture in the shared buffer at any time. A packet carries the frame
it was sent for and the picture that was in the buffer, so a mixed frame shows.
The receiver's side is `assembly_add_block` branch by branch. The network loses a
packet, delivers it now or later, and delivers it again.

The server's code is what the ESP32 runs beside the K1; the UDP network
(`Lose`, and a packet that stays in `net`) is the only external part.

`torn` and `seen` are history: frames under way when `/frame` retook the picture,
and what arrived of one frame without a break. They appear in properties only.

### Hungarian and Tracker

`Hungarian` has one action per turn of the inner loops, so that the question whether
they end can be asked at all. Costs, potentials and `minv` are floats: integers
rounded to `Bits` significant bits after every sum, ties to even. With the bits that
hold every value exactly the result is compared with every other assignment; with
fewer bits the rounding of the code shows: the costs that vanish beside the padding
(`hungarian_pad`), and reduced costs that come out below zero (`hungarian_loop`).

`Tracker` is one update of the tracker after another, in the order of the function:
predict, cascade, recover (stage B), spawn, remove, merge, each loop one action per
track or detection, since each of them changes the lists that it runs over. A box is
a place on a line and three units wide, which leaves every relation between boxes
that the thresholds tell apart (the same, overlapping a lot, a little, not at all).
A prediction may be anywhere within `Drift`. The assignment within an age group is
any that is complete, and any of the best if the matrix is square, which is what
`Matching` and `Optimal` in `Hungarian` show. `ages` is history.

### WorldPersons, FaceCache, ActionResults

The three hold what belongs to a track. A place of `WorldPersons` records in `from`
whose measurement its anchor began with; `FaceCache` records for each track the face
of its last match (`onTrack`, `lastFace`, `sinceFace`) and whether its slot was
taken from it (`crowdedOut`); `ActionResults` numbers the predictions, so that what
is shown can be compared with what was shown before. These histories appear in
properties only.

### Cascade

One action is one frame: the frame-difference decision, the state machine, the
counter that SEARCHING and TRACKING share, the countdown of the face detector. The
track counts it reads are those of any earlier frame (`Sync` may come or not), as in
the code, where postprocess writes them without a lock. Frames are counted modulo
`Cycle`, a common multiple of the intervals.

### LogRings, FaceGallery, WebHub

`LogRings` has no lock on the draining side, because the code has none: the writer
and any `log_flush` read `rpos`, copy the entry and store `rpos` in separate steps.
`crossed` is raised when two consumers have been at one entry; unless `Beyond`
is TRUE (it is not in the run) the behaviour is followed no further, as the code
promises nothing from there on. For `LogQueues` what waits in a ring is the entries
between its indices (`Unwritten`), without the first when a consumer has written that
one and has yet to store `rpos`: the message is out with the write. `FaceGallery` holds
its mutex in each step; `register_face` is two steps (find under one lock, write
under another). A clear leaves the entries active behind the count. The histories
`strayTracks` and `strayNames` are the tracks and names of such entries, and the names
that the web thread wrote into one, as long as they have an entry: they may be listed
twice, and the properties say that no others are.

In `WebHub` broadcast and client changes are one step each: they take `frame_mutex` or
run on the web thread. A push is two: `running` is tested before the lock, and what
follows happens whatever has become of the server. A connection may ask for `/ws`
several times in one read, for the handler does not test whether it is upgraded
already (`Upgrade(c, n)`; from the next read on Mongoose's own handler has the
connection, whatever came of the upgrade). It is then listed several times, is sent
each frame as often, and of its entries only the first goes when it closes; the others
stay, and serve a later connection with the same memory. `doubled` are the connections
that this happened to, as long as they have an entry, and `again` those that were sent
a frame twice. For `FrameQueue` what waits is read off the ring between the two
indices (`Waiting`), and who listens is the open connections on the list (`Served`).

## 3. Runs

| Run | Constants | Shows | States |
|---|---|---|---|
| `ring` | 2 slots, frame limit, fair | `RingInv`, `ConsumersExclusive`, `SlotsAccounted`, `FullMeansWork`, refinement of `SlotLifecycle`, `FramesDrain`, `ShutdownCompletes` | 29,598 |
| `ring_pose` | 4 slots | `PoseMatchesFrame` fails | - |
| `lifecycle` | 2 runs, camera, fair | `LifecycleInv`, `IdleMeansQuiet`, `OneMonitor`, `RunningIsWatched`, `StopObeyed`, `MainExits` | 259,262 |
| `lifecycle_stop` | 1 run, fair | `StopHonoured` fails | - |
| `lifecycle_free` | 1 run | `FreedAfterThreads` fails | - |
| `stream` | 2 clients, 3 pictures, frames of 1-3 blocks, 2 blocks a tick, 2 packets under way | `AssemblyCounts`, `WholeFrames`, `BufferKept`, `Healing` | 789,661 |
| `stream_order` | 1 client, 1 frame of 2 blocks | `AnyOrder` fails | - |
| `vision` | 3x3 costs, 3 tracks with 2 detections, 4 persons for 3 places, 3 faces for 2 slots, 4 predictions, fair | see below | 338,716 |
| `services` | 3 threads for 2 log rings, 3 tracks for 2 entries, 3 browsers for 2 places, up to 2 upgrades at once, fair | see below | 398,524 |
| `hungarian_loop` | 2 tracks, 4 detections, floats of 2 bits, fair | `Returns` fails | - |
| `hungarian_pad` | 2 tracks, 1 detection, floats of 12 bits | `Optimal` fails | - |
| `tracker_gate` | 2 tracks | `GatedOut` fails | - |

`vision` shows:

* `Matching`, `Optimal`: the assignment is one to one at every moment between two
  rows, and the cheapest when the matrix is square;
* `UniqueIds`, `FreshFirst`, `NewOnlyIfMore`: ids are unique and rise; a track lost for
  longer never takes a detection from one seen more recently; a frame brings no
  more new tracks than it has detections over the tracks that could take them;
* `TracksForgotten`: when nobody is detected any more, all tracks go;
* `OnePlace`, `OwnAnchor`: each person is listed once, and its position does not
  start with that of somebody who had the place before;
* `FaceCarried`, `ActionOrder`: a track is shown with the face of its own last match,
  without a gap and no longer than the limit; actions are shown in order;
* `FlipsEarned`, `BackToSearching`: the modes change only after the rows of frames
  that the table in the code asks for, and an empty room ends in SEARCHING.

`ring` and `lifecycle` show of what is easily overlooked:

* `FullMeansWork`: capture sleeps when `active_slots` has reached the ring. Since
  slots are lost, the count alone does not say that a release will come; the property
  does. With four slots up to three can be lost, never the fourth.
* `IdleMeansQuiet`, `OneMonitor`: a start that finds IDLE finds no worker, no receiver
  and no monitor that will change anything more. The old monitor may still be at its
  last broadcast, and both properties say so; sensors are not part of them.

`services` shows:

* `RingsAreQueues`, `DrainsAreComplete`, `Delivered`: until two consumers have met at an
  entry, each ring is a queue (`LogQueues`), although the index of its reader is moved by
  the writer and by every flush: what got a place is written, whole, once and in its
  thread's order; flush and shutdown leave nothing behind that was there when they
  were called;
* `OneEntryPerTrack`, `OneEntryPerName`: the gallery lists a track and a name once, also
  after a clear and beside names that the web thread gave, but for the tracks and names
  that these left behind (`strayTracks`, `strayNames`), and for those only while they
  have an entry;
* `BestKept`: what may become of a face that is listed, step by step and with no
  exception for what went before: it gives way to one of its name that is as good, to an
  update of its track, to its age, to a newcomer only if every place has an unexpired
  face and none is older, and to a clear or its naming in that very step;
* `GalleryForgets`: who is not seen leaves the list in the end;
* `HubKeepsQueue`, `EachFrameOnce`, `OnlyOpenClients`, `FramesReachClients`: although the
  writer moves the reader's index and the last client the place of one that leaves,
  the hub is a queue of the newest frames (`FrameQueue`), and they reach each open
  browser that found a place in order and up to the newest; once, and no others, but
  for connections that were listed twice.

Why the bounds are enough:

* *Ring.* Two slots are the least that wrap, fill and drain with two stages at work,
  and few enough for the liveness properties. The safety properties are proved for
  every size; `ring_pose` has the four slots of the code.
* *Life cycle.* Two runs let what is left of one meet the next, whether by a
  restart or by a stop that gave up. The safety proofs cover any number. Of the
  sensors the run follows the camera, which each run finds or not; the proofs both.
* *Stream.* Three pictures allow an old packet, a current one and one of the
  next; three blocks with two a tick interrupt a frame between bursts; two packets
  under way can overtake each other. `EtagMod` is above the number of pictures, so
  the ETag does not wrap; see section 6 for what happens when it does.

* *Vision.* Three rows and columns let a row be displaced twice by one path. Three
  tracks make the removal of the middle one differ from that of the last; two
  detections with up to three tracks leave some unmatched; every limit is short
  enough to pass and the limits differ from each other. There is one more person and
  one more face than places, so that tables fill and evict. The intervals of the
  cascade divide each other in some pairs and not in others, and three detections
  are a crowd.
* *Services.* Two slots make a ring that holds one entry: each message fills it. The
  third thread finds no ring, the third track and the third browser no place. Each
  property of the gallery is about one name, and there is one besides nobody; the
  theorems cover any number of names. Rings
  of one entry say nothing of the order within a ring: that rests on the theorems
  `WrittenOnceInOrder` and `RingsImplementQueues`, which have no bound. Two upgrades in
  one read (`MaxTogether`) fill the list with one browser, and leave an entry behind
  that meets the next connection of that memory.
* *Counters.* `MaxIds`, `MaxLogs`, `MaxPushed`, `MaxRuns` bound what counts up for ever.
  `TracksForgotten` is about frames without detections, which need no new id.

`CHECK_DEADLOCK FALSE` is set where the system really ends: the ring is freed, the
process exits, the last picture is sent, a matching is returned, the logger and the
web server are shut down.

### Fairness

`FrameRing!Fairness` gives every worker weak fairness: they are threads of their
own, and a thread that is not asleep is scheduled. Nobody is obliged to stop the
pipeline; the monitor is obliged to leave its loop only when a worker has raised
`shutdown`, because it polls that flag every 10 ms. In `PipelineLifecycle` the
monitor, the web thread's work in progress, main, the handler's return and the
workers' leaving are fair. The user's commands, signals, the failures, the frame
limit and the workers' coming alive are not. `StopObeyed` and `MainExits` allow for
the process being killed (`~Up`).

The vision threads are kept going by the camera: `TrackerNext` and `CascadeFrame` are
fair because the functions do not wait and frames go on coming. That detections
stop is an assumption of `TracksForgotten`, not of the model. The log writer is fair
(`Followed /\ WriterStep`): it is a thread that sleeps 5 ms at a time; nobody is
obliged to log, flush or shut down. The viz thread updates and prunes the gallery
with every frame, and the timer of the web thread sends as long as the server is on.

## 4. What the checks found

* `ring_pose` - capture may take a slot that still holds a result, and overwrites
  its pose (and picture); postprocess then registers persons with the pose of
  another frame (`sc:757`, against the comments at `sc:358` and `sc:750`).
* `lifecycle_stop` - a stop during start-up is overwritten by `sc->running = 1`
  (`sc:1420`); the pipeline goes on in state STOPPING, where no stop is accepted.
* `lifecycle_free` - SIGINT puts the machine into STOPPING, and neither main nor
  the destroy waits in that state: resources are freed under live threads
  (`sc:1859`, against `sc:1843`).
* `stream_order` - a block 0 always begins a new frame, so blocks are not accepted
  in any order (`coap_receiver.c:581`, against `:35`).
* `hungarian_loop` - `hungarian_solve` does not always return. Padding costs 1e9, which
  is also where `minv` starts, so a padded row never sets `way` and walks back along
  what an earlier row left there; rounding can make that a cycle
  (`tracking_manager.c:347`). Four detections and two tracks are enough.
* `hungarian_pad` - for the same reason the assignment is not the best one when tracks
  and detections of an age are not equally many (`tracking_manager.c:318`, against its
  heading at `:256`). The way of a matched track to a padded column costs 1e9 less a
  potential, which a float rounds back to 1e9: with more tracks than detections the
  first tracks in the list keep the detections, whatever they cost. With fewer, the
  padded rows walk back along stale paths and move tracks off their columns, in exact
  arithmetic too (`Optimal` fails for two rows and three columns with floats of any
  width).
* `tracker_gate` - the gate of the cascade rejects nothing: it asks for a large
  distance in overlap and in appearance, and the appearance costs 0.5 whenever it is
  not known, which is always (`tracking_manager.c:1068`, against `:1051`). A track is
  given a detection at the other end of the picture.

## 5. What is proved

Every safety property that a passing run checks is a theorem as well, and so are the
three refinements. The theorems hold for every value of the constants under the
`ASSUME` of each module and two hypotheses: `NoWrap` (*Block2Stream*) and, for
`Optimal` only, `Exact` (*Hungarian*).
The assumptions say that sizes, limits and intervals are naturals (positive where the
code divides by them or an array of none would not be one), and besides:

* `WorldPersons`: ids are naturals and 0 is one; `FaceCache`, `FaceGallery`: the value
  that stands for an empty entry (`Vacant`, `Empty`) is not itself an entry; the scores
  of a gallery, which are only compared, are a finite set of naturals, and the tracks
  of a face cache are finitely many;
* `LogRings`: the writer is not one of the flushing threads. Threads and browsers need
  not be finitely many;
* `ActionResults`: the fewest frames to predict from fit the window.

*FrameRing.* `ConsumersExclusive` is not inductive: nothing in it says what a thread's
slot has to do with the flags. `RingInv` adds that flags nest (`FlagsNest`), that a
thread inside a slot holds one at its own stage (`HoldersAtStage`), that `active_slots`
covers what is in use (`SlotsAccounted`), and that nobody sleeps after shutdown
(`ShutdownPhases`). A flag is lowered only by viz, and only in the slot it holds, which
is tracked; so the stage of a slot held by another thread cannot change under it. That
is the whole argument, and the reason why the shared `post_idx` does no harm. The
accounting part needs the cardinality of `captured` under adding and removing a slot,
proved once as lemmas. `FullMeansWork` needs a part of its own, `SlotsRemain`: fewer
slots are lost than there are. One is lost only when capture fills a slot that has a
frame already, and that slot is itself accounted for. From `RingInv` follow
`ConsumersNeverShare`, `AccountNeverUndercounts`, `FullRingHasWork` and, with one step
per action, `RingImplementsLifecycle`: each step of the ring is a step or a stutter of
`SlotLifecycle` under the mapping `StageOf`.

*PipelineLifecycle.* A monitor is at work (`Working`) until it is at its last broadcast,
after which it changes nothing. `OneMonitor` rests on a chain: a start needs IDLE, and
IDLE is reached only from STOPPING or ERROR by the report of the only monitor at work,
or by the destroy, after the web thread is gone. `LifecycleInv` says so in named parts:
monitors come in order and only the last is at work (`RunsInOrder`), a start in
progress is alone (`StartAlone`), the destroy runs without the web thread
(`WebJoined`), workers and receiver live within their monitor's stages
(`WorkersHaveMonitor`, `WatchedHaveWorkers`, `ReceiverHasMonitor`), and IDLE means no
monitor at work (`IdleMeansNoMonitor`). From it follow `NeverTwoPipelines`, `IdleIsQuiet`
and `RunningHasMonitor`.

*Block2Stream.* Assumed: `NoWrap`, that is `MaxFrames < EtagMod`, so that each picture
has an ETag of its own (what happens otherwise is in section 6). The receiver learns
the length of a frame from its last block only, and none of the four properties is
inductive. `StreamInv` adds that there is one size for all the blocks of an ETag, in
the server, in the network and in the assembly (`Sizes`), that the places filled hold
blocks of the frame under way (`Collected`), and that a block shows the picture of
its frame (`Travelling`, `DataTrue`). The count is the cardinality of the places
filled, all of which are below the size, so a count that equals the size means that
every place is filled: `WholeFrames`. `Streaks` ties what arrived in order to what
the assembly holds, which is `Healing`.

*Hungarian.* `Matching` holds for matrices of every size, any costs and any width of
floats, because it does not depend on what the search finds. While a path is walked
back, `p` is one to one except for a hole, the column reached, whose row has already
moved on; a step back moves the hole. The invariant is `Matching` with that exception.

`Optimal` (`AssignmentOptimal`) holds for square matrices of every size and costs up to
any `C`, as long as floats are exact up to `(N + 1) * C` and `Pad` is above that
(`Exact`). The run's instance with costs up to 7 is one; so are 14 tracks and costs in
steps of 2^-20 in the code's floats. Neither part can be had for nothing: without a
square the property is false (`hungarian_pad`), and no bound on the potentials makes a
rounded sum the exact one. The invariant `DualInv` says that

* the potentials are at most the costs of the rows added so far, meet the cost of every
  matched pair, and are 0 in columns without a row (`Potentials`);
* they stay in their ranges (`Ranges`): a row's search adds `C` at most in all, since
  some column has no row (`FreeColumn`) and the way to it costs no more;
* in a search `minv` is what the cheapest way from the columns visited adds, and `way`
  says from which (`Nearby`, `Searching`);
* the path back to column 0 does not meet a column again: the columns that lie ahead
  of one are a set that `way` does not leave and that the column is not in (`Closed`,
  `Ahead`). A path is thus never spelled out, and the walk back (`Walking`) carries one
  such set with it: what it has yet to shift still meets its costs.

One step per action: `SearchDual` (a turn of the search is `Turned`, with the rounding
gone) and `AugmentDual`. When the last row is in, the potentials are a certificate:
summed over the rows, what the assignment costs is what all potentials add up to, and
any other matching costs that much at least (`CertifiedLeast`). The sum in `FinalCost`
is a recursive function, but no induction over data is needed: any list has a list of
its partial sums (`AddsExist`), which is the one that the definition chooses
(`FinalCostIs`), and a sum does not depend on the order (`AddsReordered`), because the
list with the first `k` columns only grows by one number with `k`.

*Tracker.* `UniqueIds` does not depend on what is matched. `TrackerInv` says
that the ids in the list rise (`Rising`) and where each loop is (`Places`, which bounds
every index). Four lemmas carry it: removing one, appending one with the next id,
changing entries that keep their id, and merging two. `TracksFit` adds that the list
stays within its array, though only `create_track` looks at its length.
`FreshFirst` and `NewOnlyIfMore` need what the cascade leaves behind: a track of the
ages it serves goes without a detection only when its group is larger than what is
left, and such a group takes all of it (`CascadeTakesAll`). So if any detection is
free after the cascade, every recent track has one (`FreshMatched`), and the second
matching, which only takes free ones, cannot break the order. New tracks are founded
by detections that nobody took and that the loop has passed (`NewCounted`); these and
the detections of the recent tracks are disjoint parts of the frame's.

*WorldPersons.* `OnePlace` and `OwnAnchor` rest on what the code relies on without a
test: a place up to the count is taken by a track and the places behind it say that
nobody has them (`PlacesTold`). Pruning is the hard step: the places that stay move up
by their rank among those that stay, and the lemma on ranks (`HasRank`) says that each
rank has exactly one.

*Cascade.* `FlipsEarned` is an action property; its invariant `CountersEarned` says
what each counter owes to the rows of frames seen: the shared counter is no longer than
the row of good frames while searching, and the count of lost frames no longer than
the row of bad ones otherwise.

*FaceCache.* `FaceCarried` says nothing of the slots it rests on. The invariant adds
that a track has one slot at most (`OneSlotPerTrack`), that a slot agrees with the
history of its track, and that a track whose face is recent enough has one unless
it was crowded out.

*ActionResults.* One prediction runs at a time and runs are numbered as they begin; a
result that waits is of a run later than any that was shown.

*LogRings.* While no two consumers have met (`crossed`), the invariant says of each
ring that the slots between its indices hold what was accepted and not taken out
(`SlotsHold`), that what was written is the beginning of what was accepted (`Copied`),
that one consumer at most is at its entry, which is there (`OneAtEntry`), and that a
thread that has found room still has it when it stores (`RoomLeft`): the consumers
only make more. `OnceInOrder` follows. For `DrainsAreComplete` each consumer owes what
was accepted when it set out, and has nothing due in the rings it has been past
(`DrainProgress`); the writer's last pass begins after the shutdown does
(`WriterPhases`). `RingsImplementQueues` reads each ring as a queue through its two
indices. A publish appends to it and an emit takes its head (`AfterPut`, `AfterWrite`,
both by remainders of the ring's length: `ModIs`, `ModShift`, `ModBetween`); storing
`rpos` afterwards is a stutter, and so is everything else. That a publish is of the
newest message is an invariant of its own (`Numbered`).

*FaceGallery.* Behind the count there are only strays: an entry there has its track in
`strayTracks` and its name in `strayNames`. So the search for a track's own
entry, and that for a rival of a name, can miss none but a stray's, and what is listed
after an update and is no stray was listed before it. Whoever is a stray stays one
while it has an entry (`StraysStay`). `BestKept`, an action property, is proved step by
step; the hard one is the update, where the place that the code takes for a newcomer is
shown to be the oldest of a gallery without room (`OldestEntry`).

*WebHub.* Indices closer together than the ring is long are in different slots
(`CellsDiffer`), so that the frames that wait are the newest ones for rings of every
size (`NewestPending`); the list is compared with the set of open connections
(`OnlyOpenClients`), where the departure of a client takes one entry of its own and of
nobody else (`LeftTakesOne`), and an upgrade adds entries of one connection only
(`UpgradeAdds`); what a browser has been sent is a gapless stretch of the frames
that were not overrun (`EachFrameOnce`). `HubImplementsQueue` uses the three: a push
under the lock appends to what waits, without its head when the ring is full, a
broadcast empties it to those who listen, a connection that finds the list full is a
stutter unless an old entry serves it, and so is the departure of one that was never
listed.

Type invariants: those of `FrameRing`, `PipelineLifecycle` and `Block2Stream` are parts
of the invariants named above; `TracksFit`, `PersonsTypesHold`, `CountersStayInRange`,
`FaceTypesHold`, `ActionTypesHold`, `LogTypesHold`, `GalleryTypesHold` and
`HubTypesHold` are theorems of their own.

*BasicLemmas.* That a finite set of integers has a least and a greatest element is an
induction. The library's induction theorems take the property as an operator and
cannot be used here; its statement that proper inclusion is well-founded on the
subsets of a finite set takes none, and the least element is the one with the fewest
at or below it (`HasLeast`). Ranks and the oldest entry of a table follow, and so does
what is needed of induction on numbers, with a set in place of the property (`UpTo`).

Model-checked only: liveness. `FramesDrain`, `ShutdownCompletes`, `StopObeyed`,
`MainExits`, `TracksForgotten`, `BackToSearching`, `Delivered`, `GalleryForgets` and
`FramesReachClients` rest on fairness, which this prover does not handle.

`HungarianTypeOK` is in no run and not proved: a float is the choice of a representable
number near the exact one, and that there is one depends on the size of the numbers.

## 6. Known limits of the models

* *ETag wrap.* The option carries 24 bits of a 32-bit counter, and a value of 0 is
  read as "no ETag". With `EtagMod = 2` `WholeFrames` fails; on the device that
  takes 2^24 frames.
* *Lost SIGINT.* A signal between the test of `g_run` and `pause()` is lost. The
  model has that step; `MainExits` starts after the loop.
* *A start that is refused for want of K1 hardware* leaves the state at STARTING for
  good. The model has that step as well (`MonitorRefused`, `MonitorRead`, `MonitorShow`).
* *Tracker.* `configs/default.yaml` asks for `confirmation_frames: 1`, which
  `set_enhanced_config` refuses (2 to 30), so that the default stays. The comment at
  `:1265` says that stage A gets confident detections only; it gets all of them.
  Without a confident one there is no cascade, and `FreshFirst` says so. The
  assignment is the best only for square groups (`hungarian_pad`); for others the
  model lets any complete one be chosen. Tracks that were lost for up to
  three frames are still shown.
* *World coordinates.* The table is zeroed memory, so track 0 finds itself registered
  with an anchor in the origin: `OwnAnchor` leaves it out. `get_person` returns a
  pointer that is used after the unlock.
* *Cascade.* A crowd is looked at before tracks are, and does not reset the count of
  frames without one: frames before and after it count as one row. `FlipsEarned`
  counts like that. The two-frame delay for the first person cannot be reached
  (`inference_pipeline.c:1106`). Face turns of a static scene may all fall on skipped
  frames.
* *Face cache.* A skipped frame's faces are those of the last full result and count as
  fresh; frames without tracks do not age the cache.
* *Actions.* A prediction without an action consumes the flag as well; the window
  mixes the poses of several persons, and a skipped frame pushes one again.
* *Ring.* Slots get lost, as said of `LostSlots`: the ring may come to work with one
  slot for good. Nothing in the repository promises more.
* *Sensors.* The camera and the IMU of a run are not closed by its clean-up
  (`sc:1585-1630`), and the next run writes over the pointers to them (`sc:1290`,
  `sc:1330`). TLC shows a camera that nobody can close; `IdleMeansQuiet` says nothing of
  sensors.
* *Hungarian.* Matrices above `HUNGARIAN_MAX_DIM` are cut to it
  (`tracking_manager.c:271`), and without memory the function pairs the i-th row with
  the i-th column (`:305`, `:338`). Neither is modelled.
* *Gallery.* `face_gallery_clear` only sets the count to 0: when the count grows again,
  old faces come back, and a track or a name may be listed twice until its entries have
  gone. A name given by the web thread in place bypasses the rule of one entry per name,
  and may go to the entry of another track if that took the place between the two steps.
  The properties of the gallery hold after all of this for everybody else.
* *Web.* Timers and replies of the web thread send without the mutex under which the
  monitor broadcasts events; a client beyond `WS_MAX_CLIENTS` is upgraded and never
  served (`OnlyOpenClients` says so). A client that asks for `/ws` twice in one read is
  listed twice and leaves an entry behind when it closes. `/api/frame.jpg` tests for a
  picture before it takes the lock.
* *Logger.* Two consumers at one entry may write it twice: `OnceInOrder` (proved) and
  `RingsAreQueues` are asserted until two have met (`crossed`). Rings are never given
  back. The last drain writes to the file only.
* *Atomicity.* Except where said (`PipelineLifecycle`, `LogRings`, the ring's flags),
  a section under one mutex is one step. Reads of plain flags are taken to return
  some value that was written.

## 7. Not modelled, and why

Networks and their pre- and post-processing, IMU filters, odometry, geometry and
key-point checks are floating-point code: their correctness is a question of numbers,
not of order. Result, video, configuration and model files are input and output of one
thread at a time. The terminal UI, benchmark and platform code keep no protocol state.
Mongoose (`src/lib/mongoose`, more than half of the repository's lines) and the
browser code are outside the program's own logic; `WebHub` takes Mongoose at its
callbacks. Within the components that are modelled in part, left out are:

* receiver: the `/imu` poll and the servo PUT (request and answer on the stream's
  socket, without state that outlives them); server: set-up and the same two handlers;
* tracker: Kalman arithmetic, appearance features, the re-identification pool, which
  no detection can reach (its features have four key points of five);
* logger: rotation, spans, histograms; web server: pages, status, configuration;
* cascade: what is done to detections between the networks.

## 8. Plan

What is left: the receiver and the server of `Block2Stream` as a channel that loses
whole pictures and hands over no mixed one, as a refinement; the order in which
`Tracker` and `FaceCache` see a frame, composed in one module; the `/imu` poll and the
servo PUT beside the stream.
