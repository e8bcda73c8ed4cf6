-------------------------- MODULE PipelineLifecycle --------------------------
(***************************************************************************)
(* Starting, stopping and destroying the K1 pipeline in GUI mode           *)
(* (src/pipeline_state.c, the async control of src/system_controller.c,    *)
(* the pipeline commands of src/web_server.c, src/main.c).                 *)
(*                                                                         *)
(*   web thread    start_async, stop_async (and both, for a restart)       *)
(*   main thread   pauses until SIGINT, then stop_async and destroy        *)
(*   SIGINT        its handler runs on the main thread, at any moment      *)
(*   monitors      one detached thread per start: sets the pipeline up,    *)
(*                 watches it, tears it down and reports to the machine    *)
(*                                                                         *)
(* They share the five-state machine (psm, under its mutex), sc->running   *)
(* and sc->coap_receiver (under nothing).  A step is one access to them.   *)
(* The five workers of a run are one: what they do to each other, and that *)
(* they leave once shutdown is up, is FrameRing.                           *)
(*                                                                         *)
(* Once the main thread has returned or _exit was called nothing moves.    *)
(***************************************************************************)
EXTENDS Integers, FiniteSets

CONSTANTS MaxRuns,    \* bound: the monitors ever created
          Sensors     \* those of "camera" and "imu" that the model follows

ASSUME MaxRunsAssumption == MaxRuns \in Nat \ {0}
ASSUME SensorsAssumption == Sensors \subseteq {"camera", "imu"}

VARIABLES psm,          \* PipelineStateMachine.state
          running,      \* sc->running
          gRun,         \* g_run
          handler,      \* on_signal is past its flags, short of psm_transition
          receiver,     \* sc->coap_receiver: "null", "live", "freed"
          sensor,       \* the run whose camera (IMU) the controller points to, or 0
          opened,       \* every sensor, with its run, that is not yet closed
          web, main,    \* where the web and the main thread are
          restart,      \* the web thread serves restart_pipeline
          webStop,      \* ws->running is false
          runs,         \* monitors created so far
          mon,          \* where each monitor is
          workers,      \* its workers: "none", "starting", "alive", "gone"
          shutdown      \* its pl.shutdown

shared == <<psm, running, receiver>>
sensors == <<sensor, opened>>
vars == <<psm, running, gRun, handler, receiver, sensors, web, main, restart, webStop,
          runs, mon, workers, shutdown>>

States == {"idle", "starting", "running", "stopping", "error"}
Runs   == 1..MaxRuns

\* transition_allowed, as pairs.
Allowed == {<<"idle", "starting">>,
            <<"starting", "running">>, <<"starting", "stopping">>,
            <<"starting", "error">>,
            <<"running", "stopping">>, <<"running", "error">>,
            <<"stopping", "idle">>, <<"stopping", "error">>,
            <<"error", "idle">>}

\* psm_transition: an invalid request is logged and changes nothing.
Transition(to) == psm' = IF <<psm, to>> \in Allowed THEN to ELSE psm

IsRunning == psm \in {"starting", "running"}

\* The process is still there.
Up == main \notin {"done", "killed"}

\* The main thread executes, not the signal handler on top of it.
MainAt(stage) == main = stage /\ ~handler

Init ==
  /\ psm = "idle" /\ running = FALSE /\ gRun = TRUE /\ handler = FALSE
  /\ receiver = "null" /\ sensor = [d \in Sensors |-> 0] /\ opened = {}
  /\ web = "ready" /\ restart = FALSE /\ webStop = FALSE
  /\ main = "test"
  /\ runs = 0
  /\ mon = [r \in Runs |-> "none"]
  /\ workers = [r \in Runs |-> "none"]
  /\ shutdown = [r \in Runs |-> FALSE]

-----------------------------------------------------------------------------
(* The monitor of run r: k1_realtime_thread_func around                    *)
(* system_controller_process_realtime_k1.                                  *)

monVars   == <<mon, workers, shutdown>>
hostVars  == <<gRun, handler, web, main, restart, webStop, runs>>

MonitorTo(r, from, to) ==
  /\ Up
  /\ mon[r] = from
  /\ mon' = [mon EXCEPT ![r] = to]
  /\ UNCHANGED hostVars

MonitorAt(r, from, to) == MonitorTo(r, from, to) /\ UNCHANGED sensors

\* Not a K1: process_realtime_k1 returns at once and touches nothing.
MonitorRefused(r) ==
  /\ MonitorAt(r, "setup", "report")
  /\ UNCHANGED <<shared, workers, shutdown>>

\* Camera, CoAP receiver and IMU, each of which may fail.  The camera's pointer is
\* written whatever came of it, the IMU's if there is one; those of an earlier run
\* are not closed.
MonitorOpen(r) ==
  /\ MonitorTo(r, "setup", "ring")
  /\ receiver' \in {"live", "null"}
  /\ \E found \in SUBSET Sensors :
       /\ sensor' = [d \in Sensors |-> IF d \in found THEN r
                                      ELSE IF d = "camera" THEN 0 ELSE sensor[d]]
       /\ opened' = opened \cup (found \X {r})
  /\ UNCHANGED <<psm, running, workers, shutdown>>

\* k1_ring_init_slots fails: no worker was created.
MonitorNoRing(r) ==
  /\ MonitorAt(r, "ring", "cleanup")
  /\ shutdown' = [shutdown EXCEPT ![r] = TRUE]
  /\ UNCHANGED <<shared, workers>>

\* The ring is there and the workers are created.
MonitorSpawn(r) ==
  /\ MonitorAt(r, "ring", "arm")
  /\ workers' = [workers EXCEPT ![r] = "starting"]
  /\ UNCHANGED <<shared, shutdown>>

\* sc->running = 1, whoever lowered it meanwhile.
MonitorArm(r) ==
  /\ MonitorAt(r, "arm", "watch")
  /\ running' = TRUE
  /\ UNCHANGED <<psm, receiver, workers, shutdown>>

\* The loop goes on.
Watching(r) == MonitorAt(r, "watch", "watch") /\ running /\ ~shutdown[r]

\* A tick with every worker alive: the start has succeeded.
MonitorAlive(r) ==
  /\ Watching(r)
  /\ workers[r] = "alive" /\ psm = "starting"
  /\ Transition("running")
  /\ UNCHANGED <<running, receiver, workers, shutdown>>

\* The workers are not alive after 30 s.  (Only this monitor reads running.)
MonitorStartupTimeout(r) ==
  /\ Watching(r)
  /\ workers[r] = "starting"
  /\ running' = FALSE
  /\ Transition("error")
  /\ shutdown' = [shutdown EXCEPT ![r] = TRUE]
  /\ UNCHANGED <<receiver, workers>>

\* The capture thread has made no progress for 15 s.
MonitorStuck(r) ==
  /\ Watching(r)
  /\ workers[r] = "alive" /\ psm # "starting"
  /\ running' = FALSE
  /\ shutdown' = [shutdown EXCEPT ![r] = TRUE]
  /\ UNCHANGED <<psm, receiver, workers>>

\* Bug: IDLE is shown before the workers are joined.
MutLeaveShowsIdle(r) ==
  /\ MonitorAt(r, "watch", "join")
  /\ ~running \/ shutdown[r]
  /\ psm' = "idle"
  /\ shutdown' = [shutdown EXCEPT ![r] = TRUE]
  /\ UNCHANGED <<running, receiver, workers>>

\* Bug: the machine is left at RUNNING while the pipeline is torn down.
MutLeaveSilently(r) ==
  /\ MonitorAt(r, "watch", "join")
  /\ ~running \/ shutdown[r]
  /\ shutdown' = [shutdown EXCEPT ![r] = TRUE]
  /\ UNCHANGED <<psm, running, receiver, workers>>

\* Bug: the workers are joined and never told to leave.
MutLeaveUntold(r) ==
  /\ MonitorAt(r, "watch", "join")
  /\ ~running \/ shutdown[r]
  /\ IF psm = "running" THEN Transition("stopping") ELSE UNCHANGED psm
  /\ UNCHANGED <<running, receiver, workers, shutdown>>

\* The loop ends; k1_pipeline_destroy raises shutdown and joins.
MonitorLeave(r) ==
  /\ MonitorAt(r, "watch", "join")
  /\ ~running \/ shutdown[r]
  /\ IF psm = "running" THEN Transition("stopping") ELSE UNCHANGED psm
  /\ shutdown' = [shutdown EXCEPT ![r] = TRUE]
  /\ UNCHANGED <<running, receiver, workers>>

MonitorJoin(r) ==
  /\ MonitorAt(r, "join", "cleanup")
  /\ workers[r] = "gone"
  /\ UNCHANGED <<shared, workers, shutdown>>

\* Bug: the receiver is left to the next run.
MutKeepReceiver(r) ==
  /\ MonitorAt(r, "cleanup", "lower")
  /\ UNCHANGED <<shared, workers, shutdown>>

\* k1_cleanup: the receiver is destroyed, then the pointer cleared.  Camera and IMU
\* stay open.
MonitorDropReceiver(r) ==
  /\ IF receiver # "null"
       THEN MonitorAt(r, "cleanup", "clear") /\ receiver' = "freed"
       ELSE MonitorAt(r, "cleanup", "lower") /\ UNCHANGED receiver
  /\ UNCHANGED <<psm, running, workers, shutdown>>

MonitorClearReceiver(r) ==
  /\ MonitorAt(r, "clear", "lower")
  /\ receiver' = "null"
  /\ UNCHANGED <<psm, running, workers, shutdown>>

\* sc->running = 0, the last thing process_realtime_k1 does.
MonitorLower(r) ==
  /\ MonitorAt(r, "lower", "report")
  /\ running' = FALSE
  /\ UNCHANGED <<psm, receiver, workers, shutdown>>

\* The wrapper reads the state: in ERROR or IDLE it has nothing to report.
MonitorRead(r) ==
  /\ MonitorAt(r, "report", IF psm \in {"error", "idle"} THEN "tell" ELSE "show")
  /\ UNCHANGED <<shared, workers, shutdown>>

MonitorShow(r) ==
  /\ MonitorAt(r, "show", "tell")
  /\ Transition("idle")
  /\ UNCHANGED <<running, receiver, workers, shutdown>>

\* The thread tells the browsers, reads the state once more for the log and ends.
MonitorEnd(r) ==
  /\ MonitorAt(r, "tell", "gone")
  /\ UNCHANGED <<shared, workers, shutdown>>

MonitorStep(r) ==
  \/ MonitorRefused(r) \/ MonitorOpen(r) \/ MonitorNoRing(r)
  \/ MonitorSpawn(r) \/ MonitorArm(r) \/ MonitorAlive(r)
  \/ MonitorStartupTimeout(r) \/ MonitorLeave(r)
  \/ MonitorJoin(r) \/ MonitorDropReceiver(r) \/ MonitorClearReceiver(r)
  \/ MonitorLower(r) \/ MonitorRead(r) \/ MonitorShow(r) \/ MonitorEnd(r)

WorkersTo(r, from, to) ==
  /\ Up
  /\ workers[r] \in from
  /\ workers' = [workers EXCEPT ![r] = to]
  /\ UNCHANGED <<hostVars, shared, sensors, mon>>

\* Every worker has raised its thread_alive flag.
WorkersAlive(r) == WorkersTo(r, {"starting"}, "alive") /\ UNCHANGED shutdown

\* The frame limit or the frame timeout: a worker raises pl->shutdown itself.
WorkersGiveUp(r) ==
  /\ workers[r] \in {"starting", "alive"} /\ ~shutdown[r]
  /\ WorkersTo(r, {workers[r]}, workers[r])
  /\ shutdown' = [shutdown EXCEPT ![r] = TRUE]

\* Every worker has seen shutdown and left (FrameRing, ShutdownCompletes).
WorkersLeave(r) ==
  /\ shutdown[r]
  /\ WorkersTo(r, {"starting", "alive"}, "gone") /\ UNCHANGED shutdown

-----------------------------------------------------------------------------
(* system_controller_stop_async, on behalf of the web or the main thread.  *)
(* It is refused, and nothing happens, unless IsRunning.                   *)

StopMark == Transition("stopping") /\ UNCHANGED <<running, receiver>>

StopClear == running' = FALSE /\ UNCHANGED <<psm, receiver>>

\* psm_wait_for(IDLE, 15 s) ends: the state is reached, or the time is over.
StopWaitEnds == UNCHANGED shared

-----------------------------------------------------------------------------
(* The web thread. *)

WebAt(from, to) ==
  /\ Up
  /\ web = from /\ web' = to
  /\ UNCHANGED <<gRun, handler, main, webStop, sensors>>

\* stop_pipeline or restart_pipeline, when there is something to stop.
WebStop ==
  /\ WebAt("ready", "stop_mark")
  /\ ~webStop
  /\ IsRunning
  /\ restart' \in BOOLEAN /\ (restart' => runs < MaxRuns)
  /\ UNCHANGED <<shared, runs, monVars>>

WebStopMark ==
  WebAt("stop_mark", "stop_clear") /\ StopMark
  /\ UNCHANGED <<restart, runs, monVars>>

WebStopClear ==
  WebAt("stop_clear", "stop_wait") /\ StopClear
  /\ UNCHANGED <<restart, runs, monVars>>

\* Bug: the wait for IDLE has no time limit (timeout_ms = 0).
MutStopWaitsForever ==
  /\ WebAt("stop_wait", IF restart THEN "start" ELSE "ready")
  /\ psm = "idle"
  /\ restart' = FALSE
  /\ UNCHANGED <<shared, runs, monVars>>

\* Whatever stop_async returned, a restart now calls start_async.
WebStopEnds ==
  /\ WebAt("stop_wait", IF restart THEN "start" ELSE "ready")
  /\ StopWaitEnds
  /\ restart' = FALSE
  /\ UNCHANGED <<runs, monVars>>

\* start_pipeline, or restart_pipeline with nothing to stop.
WebStart ==
  /\ WebAt("ready", "start")
  /\ ~webStop /\ ~IsRunning /\ runs < MaxRuns
  /\ UNCHANGED <<shared, restart, runs, monVars>>

\* start_async is refused unless the machine is idle.
StartRefused ==
  /\ WebAt("start", "ready")
  /\ psm # "idle"
  /\ UNCHANGED <<shared, restart, runs, monVars>>

StartArm ==
  /\ WebAt("start", "start_mark")
  /\ psm = "idle"
  /\ running' = TRUE
  /\ UNCHANGED <<psm, receiver, restart, runs, monVars>>

StartMark ==
  /\ WebAt("start_mark", IF psm = "idle" THEN "spawn" ELSE "ready")
  /\ Transition("starting")
  /\ running' = IF psm = "idle" THEN running ELSE FALSE
  /\ UNCHANGED <<receiver, restart, runs, monVars>>

\* pthread_create: the detached monitor.
StartSpawn ==
  /\ WebAt("spawn", "ready")
  /\ runs' = runs + 1
  /\ mon' = [mon EXCEPT ![runs + 1] = "setup"]
  /\ UNCHANGED <<shared, restart, workers, shutdown>>

\* pthread_create fails.  (No monitor is there to read running.)
StartSpawnFails ==
  /\ WebAt("spawn", "ready")
  /\ running' = FALSE
  /\ Transition("error")
  /\ UNCHANGED <<receiver, restart, runs, monVars>>

\* The event loop sees ws->running false: the thread returns.
WebExit ==
  /\ WebAt("ready", "gone")
  /\ webStop
  /\ UNCHANGED <<shared, restart, runs, monVars>>

WebServe == WebStop \/ WebStart
WebWork  == WebStopMark \/ WebStopClear \/ WebStopEnds \/ StartRefused
            \/ StartArm \/ StartMark \/ StartSpawn \/ StartSpawnFails \/ WebExit

-----------------------------------------------------------------------------
(* The main thread and the signal handler. *)

MainMoves(from, to) ==
  /\ MainAt(from)
  /\ main' = to
  /\ UNCHANGED <<gRun, handler, web, restart, runs, monVars>>

MainTo(from, to) == MainMoves(from, to) /\ UNCHANGED sensors

\* while (g_run)
MainTest ==
  /\ MainTo("test", IF gRun THEN "topause" ELSE "check")
  /\ UNCHANGED <<shared, webStop>>

\* pause(): asleep until a handler has run.
MainPause ==
  /\ MainTo("topause", "asleep")
  /\ UNCHANGED <<shared, webStop>>

\* if (psm_is_running(...)) system_controller_stop_async(...), which asks again.
MainCheck ==
  /\ MainTo("check", IF IsRunning THEN "stop" ELSE "webstop")
  /\ UNCHANGED <<shared, webStop>>

MainStop ==
  /\ MainTo("stop", IF IsRunning THEN "stop_mark" ELSE "webstop")
  /\ UNCHANGED <<shared, webStop>>

MainStopMark  == MainTo("stop_mark", "stop_clear") /\ StopMark /\ UNCHANGED webStop
MainStopClear == MainTo("stop_clear", "stop_wait") /\ StopClear /\ UNCHANGED webStop
MainStopEnds  == MainTo("stop_wait", "webstop") /\ StopWaitEnds /\ UNCHANGED webStop

\* web_server_stop: lower the flag, join the thread.
MainWebStop ==
  /\ MainTo("webstop", "webjoin")
  /\ webStop' = TRUE
  /\ UNCHANGED shared

\* Bug: the web thread is not joined.
MutWebNotJoined ==
  /\ MainTo("webjoin", "destroy")
  /\ UNCHANGED <<shared, webStop>>

MainWebJoin ==
  /\ MainTo("webjoin", "destroy")
  /\ web = "gone"
  /\ UNCHANGED <<shared, webStop>>

\* system_controller_destroy.
DestroyLower ==
  /\ MainTo("destroy", "drop")
  /\ running' = FALSE
  /\ UNCHANGED <<psm, receiver, webStop>>

DestroyReceiver ==
  /\ IF receiver # "null"
       THEN MainTo("drop", "clear") /\ receiver' = "freed"
       ELSE MainTo("drop", "force") /\ UNCHANGED receiver
  /\ UNCHANGED <<psm, running, webStop>>

DestroyClear ==
  /\ MainTo("clear", "force")
  /\ receiver' = "null"
  /\ UNCHANGED <<psm, running, webStop>>

\* Only a pipeline that is starting or running is waited for.
DestroyForce ==
  /\ IF IsRunning
       THEN MainTo("force", "force_wait") /\ Transition("stopping")
       ELSE MainTo("force", "force_idle") /\ UNCHANGED psm
  /\ UNCHANGED <<running, receiver, webStop>>

\* The state is IDLE, or 6 s are over.
DestroyWaited ==
  /\ MainTo("force_wait", "force_idle")
  /\ UNCHANGED <<shared, webStop>>

\* IDLE is written past the transition table.
DestroyIdle ==
  /\ MainTo("force_idle", "free")
  /\ psm' = "idle"
  /\ UNCHANGED <<running, receiver, webStop>>

\* Everything the pipeline uses is freed, the camera and the IMU that the
\* controller points to are closed, and main returns.
DestroyFree ==
  /\ MainMoves("free", "done")
  /\ sensor' = [d \in Sensors |-> 0]
  /\ opened' = opened \ {<<d, sensor[d]>> : d \in Sensors}
  /\ UNCHANGED <<shared, webStop>>

MainStep ==
  \/ MainTest \/ MainPause \/ MainCheck \/ MainStop \/ MainStopMark
  \/ MainStopClear \/ MainStopEnds \/ MainWebStop \/ MainWebJoin \/ DestroyLower
  \/ DestroyReceiver \/ DestroyClear \/ DestroyForce \/ DestroyWaited
  \/ DestroyIdle \/ DestroyFree

\* The first SIGINT or SIGTERM, until main resets the handlers for the destroy.
Sigint ==
  /\ Up /\ ~handler /\ gRun
  /\ gRun' = FALSE /\ running' = FALSE
  /\ handler' = TRUE
  /\ UNCHANGED <<psm, receiver, sensors, web, main, restart, webStop, runs,
                 monVars>>

\* The handler's psm_transition; then it returns, and with it a pause().
SigintReturns ==
  /\ handler
  /\ handler' = FALSE
  /\ Transition("stopping")
  /\ main' = IF main = "asleep" THEN "test" ELSE main
  /\ UNCHANGED <<running, gRun, receiver, sensors, web, restart, webStop, runs,
                 monVars>>

\* The second one: _exit, or the default action once the handlers are reset.
SigintAgain ==
  /\ Up /\ ~gRun
  /\ main' = "killed" /\ handler' = FALSE
  /\ UNCHANGED <<shared, sensors, gRun, web, restart, webStop, runs, monVars>>

Next ==
  \/ \E r \in Runs : MonitorStep(r) \/ MonitorStuck(r) \/ WorkersAlive(r) \/ WorkersGiveUp(r)
                     \/ WorkersLeave(r)
  \/ WebServe \/ WebWork \/ MainStep \/ Sigint \/ SigintReturns \/ SigintAgain

Spec == Init /\ [][Next]_vars

\* Threads are scheduled and waits with a time limit end.  No user is obliged to
\* press anything, no worker to come alive, to fail or to reach the frame limit.
Fairness ==
  /\ \A r \in Runs : WF_vars(MonitorStep(r)) /\ WF_vars(WorkersLeave(r))
  /\ WF_vars(WebWork) /\ WF_vars(MainStep) /\ WF_vars(SigintReturns)

FairSpec == Spec /\ Fairness

-----------------------------------------------------------------------------
MonitorStages == {"none", "setup", "ring", "arm", "watch", "join", "cleanup",
                  "clear", "lower", "report", "show", "tell", "gone"}
WebStages  == {"ready", "stop_mark", "stop_clear", "stop_wait", "start",
               "start_mark", "spawn", "gone"}
MainStages == {"test", "topause", "asleep", "check", "stop", "stop_mark",
               "stop_clear", "stop_wait", "webstop", "webjoin", "destroy",
               "drop", "clear", "force", "force_wait", "force_idle", "free",
               "done", "killed"}

SensorsOK ==
  sensor \in [Sensors -> 0..MaxRuns] /\ opened \subseteq Sensors \X Runs

TypeOK ==
  /\ psm \in States
  /\ running \in BOOLEAN /\ gRun \in BOOLEAN /\ handler \in BOOLEAN
  /\ receiver \in {"null", "live", "freed"}
  /\ SensorsOK
  /\ web \in WebStages /\ main \in MainStages
  /\ restart \in BOOLEAN /\ webStop \in BOOLEAN
  /\ runs \in 0..MaxRuns
  /\ mon \in [Runs -> MonitorStages]
  /\ workers \in [Runs -> {"none", "starting", "alive", "gone"}]
  /\ shutdown \in [Runs -> BOOLEAN]

Active(r) == mon[r] \notin {"none", "gone"}

\* The monitor is still at work: after "tell" it changes nothing more.
Working(r) == Active(r) /\ mon[r] # "tell"

\* No run is under way: no monitor at work, no worker, no receiver.
Quiet == /\ \A r \in Runs : ~Working(r) /\ workers[r] \in {"none", "gone"}
         /\ receiver = "null"

\* The destroy has not yet written IDLE by force.
Unforced == main \notin {"free", "done", "killed"}

\* IDLE, which is what a new start relies on, is only ever shown when the workers
\* of the last run are joined, its receiver is gone and its monitor has nothing
\* left but its last broadcast, however stop, failure and SIGINT met on the way.
\* Camera and IMU are not part of it: they stay open.
IdleMeansQuiet == (psm = "idle" /\ Unforced) => Quiet

\* At most one pipeline exists at a time, and of two monitors the older is at its
\* last broadcast: start is checked and done in several steps, the monitor is
\* detached and stop gives up waiting after 15 s.
OneMonitor ==
  \A q, r \in Runs : (Active(q) /\ Active(r) /\ q < r) => mon[q] = "tell"

\* The machine never shows RUNNING without a monitor in its loop to notice that
\* the workers stop, or a stop request.
RunningIsWatched ==
  psm = "running" => \E r \in Runs : mon[r] = "watch" /\ workers[r] # "none"

\* The parts of the inductive invariant.  Monitors are created one after another
\* and only the last can be at work.
RunsInOrder == \A r \in Runs : /\ mon[r] = "none" <=> r > runs
                               /\ Working(r) => r = runs

\* While the web thread starts a run no other is at work, and the machine follows.
StartAlone ==
  /\ web \in {"start_mark", "spawn"} => \A r \in Runs : ~Working(r)
  /\ web = "start_mark" => psm = "idle"
  /\ web = "spawn" => psm # "idle"
  /\ web \in {"start", "start_mark", "spawn"} \/ restart => runs < MaxRuns
  /\ restart => web \in {"stop_mark", "stop_clear", "stop_wait"}

\* The destroy runs without the web thread.
WebJoined ==
  main \in {"destroy", "drop", "clear", "force", "force_wait", "force_idle",
            "free", "done"} => web = "gone"

\* The workers of a run live between the monitor's spawn and its join, and the
\* receiver between its creation and its cleanup.
WorkersHaveMonitor ==
  \A r \in Runs : workers[r] = "none" \/ workers[r] = "gone"
                  \/ mon[r] \in {"arm", "watch", "join"}
WatchedHaveWorkers ==
  \A r \in Runs : mon[r] \in {"arm", "watch", "join"} => workers[r] # "none"
ReceiverHasMonitor ==
  receiver # "null" =>
    \E r \in Runs : mon[r] \in {"ring", "arm", "watch", "join", "cleanup", "clear"}

IdleMeansNoMonitor ==
  (psm = "idle" /\ Unforced) => \A r \in Runs : ~Working(r)

\* The inductive invariant of the life cycle.
LifecycleInv ==
  TypeOK /\ RunsInOrder /\ StartAlone /\ WebJoined /\ WorkersHaveMonitor
  /\ WatchedHaveWorkers /\ ReceiverHasMonitor /\ IdleMeansNoMonitor
  /\ RunningIsWatched

\* A request to stop that finds the monitor in its loop is not lost: that run
\* ends, whatever starts, signals and restarts come next.
StopObeyed ==
  \A r \in Runs : (mon[r] = "watch" /\ ~running) ~> (mon[r] = "gone" \/ ~Up)

\* Once the main thread is out of its pause loop it exits, although it joins the
\* web thread, which may itself be waiting for the pipeline to stop.
MainExits == (main = "check") ~> ~Up

\* system_controller.h on stop_async: it sets the stopping signal and the monitor
\* thread ends.
StopHonoured ==
  \A r \in Runs : (Active(r) /\ psm = "stopping") ~> (~Active(r) \/ ~Up)

\* The comments of system_controller_destroy: the threads are stopped before the
\* resources they use are freed.
FreedAfterThreads ==
  main \in {"free", "done"} => Quiet /\ \A r \in Runs : ~Active(r)

=============================================================================
