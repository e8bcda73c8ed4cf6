---------------------- MODULE PipelineLifecycle_proofs ----------------------
(***************************************************************************)
(* Proofs about starting and stopping, for every number of runs.           *)
(***************************************************************************)
EXTENDS PipelineLifecycle, TLAPS

\* Sensors are opened by the run that starts and closed by the destroy.
LEMMA SensorStep ==
  ASSUME SensorsOK, [Next]_vars
  PROVE  SensorsOK'
<1> USE DEF SensorsOK, sensors
<1>1. ASSUME NEW r \in Runs, MonitorOpen(r)
      PROVE  SensorsOK'
  <2>1. r \in 0..MaxRuns
    BY DEF Runs
  <2>2. PICK found \in SUBSET Sensors :
          /\ sensor' = [d \in Sensors |-> IF d \in found THEN r
                                         ELSE IF d = "camera" THEN 0 ELSE sensor[d]]
          /\ opened' = opened \cup (found \X {r})
    BY <1>1 DEF MonitorOpen
  <2>3. sensor' \in [Sensors -> 0..MaxRuns]
    BY <2>1, <2>2, MaxRunsAssumption
  <2>4. found \X {r} \subseteq Sensors \X Runs
    BY <2>2
  <2>5. opened' \subseteq Sensors \X Runs
    BY <2>2, <2>4
  <2> QED
    BY <2>3, <2>5
<1>2. CASE DestroyFree
  BY <1>2, MaxRunsAssumption DEF DestroyFree
<1>3. CASE UNCHANGED sensors
  BY <1>3
<1>4. (\E r \in Runs : MonitorOpen(r)) \/ DestroyFree \/ UNCHANGED sensors
  <2> HIDE DEF SensorsOK, sensors
  <2>1. ASSUME NEW r \in Runs, MonitorStep(r) \/ MonitorStuck(r)
        PROVE  MonitorOpen(r) \/ UNCHANGED sensors
    BY <2>1 DEF MonitorStep, MonitorAt, MonitorRefused, MonitorNoRing,
       MonitorSpawn, MonitorArm, MonitorAlive, Watching, MonitorStartupTimeout,
       MonitorStuck, MonitorLeave, MonitorJoin, MonitorDropReceiver,
       MonitorClearReceiver, MonitorLower, MonitorRead, MonitorShow, MonitorEnd
  <2>2. ASSUME NEW r \in Runs,
               WorkersAlive(r) \/ WorkersGiveUp(r) \/ WorkersLeave(r)
        PROVE  UNCHANGED sensors
    BY <2>2 DEF WorkersTo, WorkersAlive, WorkersGiveUp, WorkersLeave
  <2>3. WebServe \/ WebWork => UNCHANGED sensors
    BY DEF WebServe, WebWork, WebAt, WebStop, WebStart, WebStopMark,
       WebStopClear, WebStopEnds, StartRefused, StartArm, StartMark, StartSpawn,
       StartSpawnFails, WebExit
  <2>4. MainStep => DestroyFree \/ UNCHANGED sensors
    BY DEF MainStep, MainTo, MainTest, MainPause, MainCheck, MainStop,
       MainStopMark, MainStopClear, MainStopEnds, MainWebStop, MainWebJoin,
       DestroyLower, DestroyReceiver, DestroyClear, DestroyForce, DestroyWaited,
       DestroyIdle
  <2>5. Sigint \/ SigintReturns \/ SigintAgain => UNCHANGED sensors
    BY DEF Sigint, SigintReturns, SigintAgain
  <2>6. UNCHANGED vars => UNCHANGED sensors
    BY DEF vars
  <2> QED
    BY <2>1, <2>2, <2>3, <2>4, <2>5, <2>6 DEF Next
<1> QED
  BY <1>1, <1>2, <1>3, <1>4

\* Every step keeps the type invariant.
LEMMA TypeStep ==
  ASSUME TypeOK, StartAlone, [Next]_vars
  PROVE  TypeOK'
<1> USE MaxRunsAssumption DEF TypeOK, shared, sensors, monVars, hostVars,
       MonitorTo, MainMoves, Runs, States, MonitorStages, WebStages, MainStages, StartAlone
<1>0. SensorsOK'
  BY SensorStep
<1> USE <1>0
<1>1. ASSUME NEW r \in Runs,
             \/ MonitorStep(r) \/ MonitorStuck(r) \/ WorkersAlive(r)
             \/ WorkersGiveUp(r) \/ WorkersLeave(r)
      PROVE  TypeOK'
  <2>1. CASE MonitorRefused(r)
    BY <2>1 DEF MonitorRefused, MonitorAt
  <2>2. CASE MonitorOpen(r)
    BY <2>2 DEF MonitorOpen, MonitorAt
  <2>3. CASE MonitorNoRing(r)
    BY <2>3 DEF MonitorNoRing, MonitorAt
  <2>4. CASE MonitorSpawn(r)
    BY <2>4 DEF MonitorSpawn, MonitorAt
  <2>5. CASE MonitorArm(r)
    BY <2>5 DEF MonitorArm, MonitorAt
  <2>6. CASE MonitorAlive(r)
    BY <2>6 DEF MonitorAlive, Watching, MonitorAt, Transition, Allowed
  <2>7. CASE MonitorStartupTimeout(r)
    <3>1. running' \in BOOLEAN
      BY <2>7 DEF MonitorStartupTimeout, Watching, MonitorAt, Transition, Allowed
    <3> QED
      BY <2>7, <3>1 DEF MonitorStartupTimeout, Watching, MonitorAt,
         Transition, Allowed
  <2>8. CASE MonitorStuck(r)
    <3>1. running' \in BOOLEAN
      BY <2>8 DEF MonitorStuck, Watching, MonitorAt
    <3> QED
      BY <2>8, <3>1 DEF MonitorStuck, Watching, MonitorAt
  <2>9. CASE MonitorLeave(r)
    BY <2>9 DEF MonitorLeave, MonitorAt, Transition, Allowed
  <2>10. CASE MonitorJoin(r)
    BY <2>10 DEF MonitorJoin, MonitorAt
  <2>11. CASE MonitorDropReceiver(r)
    BY <2>11 DEF MonitorDropReceiver, MonitorAt
  <2>12. CASE MonitorClearReceiver(r)
    BY <2>12 DEF MonitorClearReceiver, MonitorAt
  <2>13. CASE MonitorLower(r)
    <3>1. running' \in BOOLEAN
      BY <2>13 DEF MonitorLower, MonitorAt
    <3> QED
      BY <2>13, <3>1 DEF MonitorLower, MonitorAt
  <2>14. CASE MonitorRead(r)
    BY <2>14 DEF MonitorRead, MonitorAt
  <2>18. CASE MonitorShow(r)
    BY <2>18 DEF MonitorShow, MonitorAt, Transition, Allowed
  <2>19. CASE MonitorEnd(r)
    BY <2>19 DEF MonitorEnd, MonitorAt
  <2>15. CASE WorkersAlive(r)
    BY <2>15 DEF WorkersAlive, WorkersTo
  <2>16. CASE WorkersGiveUp(r)
    BY <2>16 DEF WorkersGiveUp, WorkersTo
  <2>17. CASE WorkersLeave(r)
    BY <2>17 DEF WorkersLeave, WorkersTo
  <2> QED
    BY <1>1, <2>1, <2>2, <2>3, <2>4, <2>5, <2>6, <2>7, <2>8, <2>9, <2>10,
       <2>11, <2>12, <2>13, <2>14, <2>15, <2>16, <2>17, <2>18, <2>19 DEF MonitorStep
<1>2. CASE WebStop
  <2>1. restart' \in BOOLEAN
    BY <1>2 DEF WebStop, WebAt, IsRunning
  <2> QED
    BY <1>2, <2>1 DEF WebStop, WebAt, IsRunning
<1>3. CASE WebStopMark
  BY <1>3 DEF WebStopMark, WebAt, StopMark, Transition, Allowed
<1>4. CASE WebStopClear
  <2>1. running' \in BOOLEAN
    BY <1>4 DEF WebStopClear, WebAt, StopClear
  <2> QED
    BY <1>4, <2>1 DEF WebStopClear, WebAt, StopClear
<1>5. CASE WebStopEnds
  <2>1. restart' \in BOOLEAN
    BY <1>5 DEF WebStopEnds, WebAt, StopWaitEnds
  <2> QED
    BY <1>5, <2>1 DEF WebStopEnds, WebAt, StopWaitEnds
<1>6. CASE WebStart
  BY <1>6 DEF WebStart, WebAt, IsRunning
<1>7. CASE StartRefused
  BY <1>7 DEF StartRefused, WebAt
<1>8. CASE StartArm
  BY <1>8 DEF StartArm, WebAt
<1>9. CASE StartMark
  BY <1>9 DEF StartMark, WebAt, Transition, Allowed
<1>10. CASE StartSpawn
  BY <1>10 DEF StartSpawn, WebAt
<1>11. CASE StartSpawnFails
  BY <1>11 DEF StartSpawnFails, WebAt, Transition, Allowed
<1>12. CASE WebExit
  BY <1>12 DEF WebExit, WebAt
<1>13. CASE MainTest
  BY <1>13 DEF MainTest, MainTo, MainAt
<1>14. CASE MainPause
  BY <1>14 DEF MainPause, MainTo, MainAt
<1>15. CASE MainCheck
  BY <1>15 DEF MainCheck, MainTo, MainAt
<1>16. CASE MainStop
  BY <1>16 DEF MainStop, MainTo, MainAt
<1>17. CASE MainStopMark
  BY <1>17 DEF MainStopMark, MainTo, MainAt, StopMark, Transition, Allowed
<1>18. CASE MainStopClear
  BY <1>18 DEF MainStopClear, MainTo, MainAt, StopClear
<1>19. CASE MainStopEnds
  BY <1>19 DEF MainStopEnds, MainTo, MainAt, StopWaitEnds
<1>20. CASE MainWebStop
  BY <1>20 DEF MainWebStop, MainTo, MainAt
<1>21. CASE MainWebJoin
  BY <1>21 DEF MainWebJoin, MainTo, MainAt
<1>22. CASE DestroyLower
  BY <1>22 DEF DestroyLower, MainTo, MainAt
<1>23. CASE DestroyReceiver
  BY <1>23 DEF DestroyReceiver, MainTo, MainAt
<1>24. CASE DestroyClear
  BY <1>24 DEF DestroyClear, MainTo, MainAt
<1>25. CASE DestroyForce
  BY <1>25 DEF DestroyForce, MainTo, MainAt, Transition, Allowed
<1>26. CASE DestroyWaited
  BY <1>26 DEF DestroyWaited, MainTo, MainAt
<1>27. CASE DestroyIdle
  BY <1>27 DEF DestroyIdle, MainTo, MainAt
<1>28. CASE DestroyFree
  BY <1>28 DEF DestroyFree, MainTo, MainAt
<1>29. CASE Sigint
  <2>1. running' \in BOOLEAN /\ gRun' \in BOOLEAN /\ handler' \in BOOLEAN
    BY <1>29 DEF Sigint
  <2> QED
    BY <1>29, <2>1 DEF Sigint
<1>30. CASE SigintReturns
  BY <1>30 DEF SigintReturns, Transition, Allowed
<1>31. CASE SigintAgain
  BY <1>31 DEF SigintAgain
<1>32. CASE UNCHANGED vars
  BY <1>32 DEF vars
<1> QED
  BY <1>1, <1>2, <1>3, <1>4, <1>5, <1>6, <1>7, <1>8, <1>9, <1>10, <1>11,
     <1>12, <1>13, <1>14, <1>15, <1>16, <1>17, <1>18, <1>19, <1>20, <1>21,
     <1>22, <1>23, <1>24, <1>25, <1>26, <1>27, <1>28, <1>29, <1>30, <1>31,
     <1>32
  DEF Next, WebServe, WebWork, MainStep

\* Every step keeps the order of the runs: a new one is started from IDLE, and
\* IDLE is shown by the monitor of the last one as it ends.
LEMMA OrderStep ==
  ASSUME TypeOK, RunsInOrder, StartAlone, WebJoined, IdleMeansNoMonitor, [Next]_vars
  PROVE  /\ RunsInOrder' /\ StartAlone' /\ WebJoined'
         /\ IdleMeansNoMonitor'
<1> USE MaxRunsAssumption DEF TypeOK, shared, sensors, monVars, hostVars,
       MonitorTo, MainMoves, Runs, Up, Unforced, RunsInOrder, StartAlone, WebJoined, IdleMeansNoMonitor, Active,
       Working
<1>1. ASSUME NEW r \in Runs,
             \/ MonitorStep(r) \/ MonitorStuck(r) \/ WorkersAlive(r)
             \/ WorkersGiveUp(r) \/ WorkersLeave(r)
      PROVE  /\ RunsInOrder' /\ StartAlone' /\ WebJoined'
         /\ IdleMeansNoMonitor'
  <2>1. CASE MonitorRefused(r)
    BY <2>1 DEF MonitorRefused, MonitorAt
  <2>2. CASE MonitorOpen(r)
    BY <2>2 DEF MonitorOpen, MonitorAt
  <2>3. CASE MonitorNoRing(r)
    BY <2>3 DEF MonitorNoRing, MonitorAt
  <2>4. CASE MonitorSpawn(r)
    BY <2>4 DEF MonitorSpawn, MonitorAt
  <2>5. CASE MonitorArm(r)
    BY <2>5 DEF MonitorArm, MonitorAt
  <2>6. CASE MonitorAlive(r)
    BY <2>6 DEF MonitorAlive, Watching, MonitorAt, Transition, Allowed
  <2>7. CASE MonitorStartupTimeout(r)
    BY <2>7 DEF MonitorStartupTimeout, Watching, MonitorAt, Transition, Allowed
  <2>8. CASE MonitorStuck(r)
    BY <2>8 DEF MonitorStuck, Watching, MonitorAt
  <2>9. CASE MonitorLeave(r)
    BY <2>9 DEF MonitorLeave, MonitorAt, Transition, Allowed
  <2>10. CASE MonitorJoin(r)
    BY <2>10 DEF MonitorJoin, MonitorAt
  <2>11. CASE MonitorDropReceiver(r)
    BY <2>11 DEF MonitorDropReceiver, MonitorAt
  <2>12. CASE MonitorClearReceiver(r)
    BY <2>12 DEF MonitorClearReceiver, MonitorAt
  <2>13. CASE MonitorLower(r)
    BY <2>13 DEF MonitorLower, MonitorAt
  <2>14. CASE MonitorRead(r)
    BY <2>14 DEF MonitorRead, MonitorAt
  <2>18. CASE MonitorShow(r)
    BY <2>18 DEF MonitorShow, MonitorAt, Transition, Allowed
  <2>19. CASE MonitorEnd(r)
    BY <2>19 DEF MonitorEnd, MonitorAt
  <2>15. CASE WorkersAlive(r)
    BY <2>15 DEF WorkersAlive, WorkersTo
  <2>16. CASE WorkersGiveUp(r)
    BY <2>16 DEF WorkersGiveUp, WorkersTo
  <2>17. CASE WorkersLeave(r)
    BY <2>17 DEF WorkersLeave, WorkersTo
  <2> QED
    BY <1>1, <2>1, <2>2, <2>3, <2>4, <2>5, <2>6, <2>7, <2>8, <2>9, <2>10,
       <2>11, <2>12, <2>13, <2>14, <2>15, <2>16, <2>17, <2>18, <2>19 DEF MonitorStep
<1>2. CASE WebStop
  BY <1>2 DEF WebStop, WebAt, IsRunning
<1>3. CASE WebStopMark
  BY <1>3 DEF WebStopMark, WebAt, StopMark, Transition, Allowed
<1>4. CASE WebStopClear
  BY <1>4 DEF WebStopClear, WebAt, StopClear
<1>5. CASE WebStopEnds
  BY <1>5 DEF WebStopEnds, WebAt, StopWaitEnds
<1>6. CASE WebStart
  BY <1>6 DEF WebStart, WebAt, IsRunning
<1>7. CASE StartRefused
  BY <1>7 DEF StartRefused, WebAt
<1>8. CASE StartArm
  BY <1>8 DEF StartArm, WebAt
<1>9. CASE StartMark
  BY <1>9 DEF StartMark, WebAt, Transition, Allowed
<1>10. CASE StartSpawn
  BY <1>10 DEF StartSpawn, WebAt
<1>11. CASE StartSpawnFails
  BY <1>11 DEF StartSpawnFails, WebAt, Transition, Allowed
<1>12. CASE WebExit
  BY <1>12 DEF WebExit, WebAt
<1>13. CASE MainTest
  BY <1>13 DEF MainTest, MainTo, MainAt
<1>14. CASE MainPause
  BY <1>14 DEF MainPause, MainTo, MainAt
<1>15. CASE MainCheck
  BY <1>15 DEF MainCheck, MainTo, MainAt
<1>16. CASE MainStop
  BY <1>16 DEF MainStop, MainTo, MainAt
<1>17. CASE MainStopMark
  BY <1>17 DEF MainStopMark, MainTo, MainAt, StopMark, Transition, Allowed
<1>18. CASE MainStopClear
  BY <1>18 DEF MainStopClear, MainTo, MainAt, StopClear
<1>19. CASE MainStopEnds
  BY <1>19 DEF MainStopEnds, MainTo, MainAt, StopWaitEnds
<1>20. CASE MainWebStop
  BY <1>20 DEF MainWebStop, MainTo, MainAt
<1>21. CASE MainWebJoin
  BY <1>21 DEF MainWebJoin, MainTo, MainAt
<1>22. CASE DestroyLower
  BY <1>22 DEF DestroyLower, MainTo, MainAt
<1>23. CASE DestroyReceiver
  BY <1>23 DEF DestroyReceiver, MainTo, MainAt
<1>24. CASE DestroyClear
  BY <1>24 DEF DestroyClear, MainTo, MainAt
<1>25. CASE DestroyForce
  BY <1>25 DEF DestroyForce, MainTo, MainAt, Transition, Allowed
<1>26. CASE DestroyWaited
  BY <1>26 DEF DestroyWaited, MainTo, MainAt
<1>27. CASE DestroyIdle
  BY <1>27 DEF DestroyIdle, MainTo, MainAt
<1>28. CASE DestroyFree
  BY <1>28 DEF DestroyFree, MainTo, MainAt
<1>29. CASE Sigint
  BY <1>29 DEF Sigint
<1>30. CASE SigintReturns
  BY <1>30 DEF SigintReturns, Transition, Allowed
<1>31. CASE SigintAgain
  BY <1>31 DEF SigintAgain
<1>32. CASE UNCHANGED vars
  BY <1>32 DEF vars
<1> QED
  BY <1>1, <1>2, <1>3, <1>4, <1>5, <1>6, <1>7, <1>8, <1>9, <1>10, <1>11,
     <1>12, <1>13, <1>14, <1>15, <1>16, <1>17, <1>18, <1>19, <1>20, <1>21,
     <1>22, <1>23, <1>24, <1>25, <1>26, <1>27, <1>28, <1>29, <1>30, <1>31,
     <1>32
  DEF Next, WebServe, WebWork, MainStep

\* Every step keeps the workers between spawn and join.
LEMMA WorkersStep ==
  ASSUME TypeOK, RunsInOrder, StartAlone, WorkersHaveMonitor, WatchedHaveWorkers, [Next]_vars
  PROVE  WorkersHaveMonitor' /\ WatchedHaveWorkers'
<1> USE MaxRunsAssumption DEF TypeOK, shared, sensors, monVars, hostVars,
       MonitorTo, MainMoves, Runs, RunsInOrder, StartAlone, WorkersHaveMonitor,
       WatchedHaveWorkers, Active, Working
<1>1. ASSUME NEW r \in Runs,
             \/ MonitorStep(r) \/ MonitorStuck(r) \/ WorkersAlive(r)
             \/ WorkersGiveUp(r) \/ WorkersLeave(r)
      PROVE  WorkersHaveMonitor' /\ WatchedHaveWorkers'
  <2>1. CASE MonitorRefused(r)
    BY <2>1 DEF MonitorRefused, MonitorAt
  <2>2. CASE MonitorOpen(r)
    BY <2>2 DEF MonitorOpen, MonitorAt
  <2>3. CASE MonitorNoRing(r)
    BY <2>3 DEF MonitorNoRing, MonitorAt
  <2>4. CASE MonitorSpawn(r)
    BY <2>4 DEF MonitorSpawn, MonitorAt
  <2>5. CASE MonitorArm(r)
    BY <2>5 DEF MonitorArm, MonitorAt
  <2>6. CASE MonitorAlive(r)
    BY <2>6 DEF MonitorAlive, Watching, MonitorAt, Transition, Allowed
  <2>7. CASE MonitorStartupTimeout(r)
    BY <2>7 DEF MonitorStartupTimeout, Watching, MonitorAt, Transition, Allowed
  <2>8. CASE MonitorStuck(r)
    BY <2>8 DEF MonitorStuck, Watching, MonitorAt
  <2>9. CASE MonitorLeave(r)
    BY <2>9 DEF MonitorLeave, MonitorAt, Transition, Allowed
  <2>10. CASE MonitorJoin(r)
    BY <2>10 DEF MonitorJoin, MonitorAt
  <2>11. CASE MonitorDropReceiver(r)
    BY <2>11 DEF MonitorDropReceiver, MonitorAt
  <2>12. CASE MonitorClearReceiver(r)
    BY <2>12 DEF MonitorClearReceiver, MonitorAt
  <2>13. CASE MonitorLower(r)
    BY <2>13 DEF MonitorLower, MonitorAt
  <2>14. CASE MonitorRead(r)
    BY <2>14 DEF MonitorRead, MonitorAt
  <2>18. CASE MonitorShow(r)
    BY <2>18 DEF MonitorShow, MonitorAt, Transition, Allowed
  <2>19. CASE MonitorEnd(r)
    BY <2>19 DEF MonitorEnd, MonitorAt
  <2>15. CASE WorkersAlive(r)
    BY <2>15 DEF WorkersAlive, WorkersTo
  <2>16. CASE WorkersGiveUp(r)
    BY <2>16 DEF WorkersGiveUp, WorkersTo
  <2>17. CASE WorkersLeave(r)
    BY <2>17 DEF WorkersLeave, WorkersTo
  <2> QED
    BY <1>1, <2>1, <2>2, <2>3, <2>4, <2>5, <2>6, <2>7, <2>8, <2>9, <2>10,
       <2>11, <2>12, <2>13, <2>14, <2>15, <2>16, <2>17, <2>18, <2>19 DEF MonitorStep
<1>2. CASE WebStop
  BY <1>2 DEF WebStop, WebAt, IsRunning
<1>3. CASE WebStopMark
  BY <1>3 DEF WebStopMark, WebAt, StopMark, Transition, Allowed
<1>4. CASE WebStopClear
  BY <1>4 DEF WebStopClear, WebAt, StopClear
<1>5. CASE WebStopEnds
  BY <1>5 DEF WebStopEnds, WebAt, StopWaitEnds
<1>6. CASE WebStart
  BY <1>6 DEF WebStart, WebAt, IsRunning
<1>7. CASE StartRefused
  BY <1>7 DEF StartRefused, WebAt
<1>8. CASE StartArm
  BY <1>8 DEF StartArm, WebAt
<1>9. CASE StartMark
  BY <1>9 DEF StartMark, WebAt, Transition, Allowed
<1>10. CASE StartSpawn
  BY <1>10 DEF StartSpawn, WebAt
<1>11. CASE StartSpawnFails
  BY <1>11 DEF StartSpawnFails, WebAt, Transition, Allowed
<1>12. CASE WebExit
  BY <1>12 DEF WebExit, WebAt
<1>13. CASE MainTest
  BY <1>13 DEF MainTest, MainTo, MainAt
<1>14. CASE MainPause
  BY <1>14 DEF MainPause, MainTo, MainAt
<1>15. CASE MainCheck
  BY <1>15 DEF MainCheck, MainTo, MainAt
<1>16. CASE MainStop
  BY <1>16 DEF MainStop, MainTo, MainAt
<1>17. CASE MainStopMark
  BY <1>17 DEF MainStopMark, MainTo, MainAt, StopMark, Transition, Allowed
<1>18. CASE MainStopClear
  BY <1>18 DEF MainStopClear, MainTo, MainAt, StopClear
<1>19. CASE MainStopEnds
  BY <1>19 DEF MainStopEnds, MainTo, MainAt, StopWaitEnds
<1>20. CASE MainWebStop
  BY <1>20 DEF MainWebStop, MainTo, MainAt
<1>21. CASE MainWebJoin
  BY <1>21 DEF MainWebJoin, MainTo, MainAt
<1>22. CASE DestroyLower
  BY <1>22 DEF DestroyLower, MainTo, MainAt
<1>23. CASE DestroyReceiver
  BY <1>23 DEF DestroyReceiver, MainTo, MainAt
<1>24. CASE DestroyClear
  BY <1>24 DEF DestroyClear, MainTo, MainAt
<1>25. CASE DestroyForce
  BY <1>25 DEF DestroyForce, MainTo, MainAt, Transition, Allowed
<1>26. CASE DestroyWaited
  BY <1>26 DEF DestroyWaited, MainTo, MainAt
<1>27. CASE DestroyIdle
  BY <1>27 DEF DestroyIdle, MainTo, MainAt
<1>28. CASE DestroyFree
  BY <1>28 DEF DestroyFree, MainTo, MainAt
<1>29. CASE Sigint
  BY <1>29 DEF Sigint
<1>30. CASE SigintReturns
  BY <1>30 DEF SigintReturns, Transition, Allowed
<1>31. CASE SigintAgain
  BY <1>31 DEF SigintAgain
<1>32. CASE UNCHANGED vars
  BY <1>32 DEF vars
<1> QED
  BY <1>1, <1>2, <1>3, <1>4, <1>5, <1>6, <1>7, <1>8, <1>9, <1>10, <1>11,
     <1>12, <1>13, <1>14, <1>15, <1>16, <1>17, <1>18, <1>19, <1>20, <1>21,
     <1>22, <1>23, <1>24, <1>25, <1>26, <1>27, <1>28, <1>29, <1>30, <1>31,
     <1>32
  DEF Next, WebServe, WebWork, MainStep

\* Every step keeps the receiver between its creation and its cleanup.
LEMMA ReceiverStep ==
  ASSUME TypeOK, RunsInOrder, StartAlone, ReceiverHasMonitor, [Next]_vars
  PROVE  ReceiverHasMonitor'
<1> USE DEF TypeOK, shared, sensors, monVars, hostVars,
       MonitorTo, MainMoves, Runs, RunsInOrder, StartAlone, ReceiverHasMonitor,
       Active, Working
<1>1. ASSUME NEW r \in Runs,
             \/ MonitorStep(r) \/ MonitorStuck(r) \/ WorkersAlive(r)
             \/ WorkersGiveUp(r) \/ WorkersLeave(r)
      PROVE  ReceiverHasMonitor'
  <2>1. CASE MonitorRefused(r)
    BY <2>1 DEF MonitorRefused, MonitorAt
  <2>2. CASE MonitorOpen(r)
    BY <2>2 DEF MonitorOpen, MonitorAt
  <2>3. CASE MonitorNoRing(r)
    BY <2>3 DEF MonitorNoRing, MonitorAt
  <2>4. CASE MonitorSpawn(r)
    BY <2>4 DEF MonitorSpawn, MonitorAt
  <2>5. CASE MonitorArm(r)
    BY <2>5 DEF MonitorArm, MonitorAt
  <2>6. CASE MonitorAlive(r)
    BY <2>6 DEF MonitorAlive, Watching, MonitorAt, Transition, Allowed
  <2>7. CASE MonitorStartupTimeout(r)
    BY <2>7 DEF MonitorStartupTimeout, Watching, MonitorAt, Transition, Allowed
  <2>8. CASE MonitorStuck(r)
    BY <2>8 DEF MonitorStuck, Watching, MonitorAt
  <2>9. CASE MonitorLeave(r)
    BY <2>9 DEF MonitorLeave, MonitorAt, Transition, Allowed
  <2>10. CASE MonitorJoin(r)
    BY <2>10 DEF MonitorJoin, MonitorAt
  <2>11. CASE MonitorDropReceiver(r)
    BY <2>11 DEF MonitorDropReceiver, MonitorAt
  <2>12. CASE MonitorClearReceiver(r)
    BY <2>12 DEF MonitorClearReceiver, MonitorAt
  <2>13. CASE MonitorLower(r)
    BY <2>13 DEF MonitorLower, MonitorAt
  <2>14. CASE MonitorRead(r)
    BY <2>14 DEF MonitorRead, MonitorAt
  <2>18. CASE MonitorShow(r)
    BY <2>18 DEF MonitorShow, MonitorAt, Transition, Allowed
  <2>19. CASE MonitorEnd(r)
    BY <2>19 DEF MonitorEnd, MonitorAt
  <2>15. CASE WorkersAlive(r)
    BY <2>15 DEF WorkersAlive, WorkersTo
  <2>16. CASE WorkersGiveUp(r)
    BY <2>16 DEF WorkersGiveUp, WorkersTo
  <2>17. CASE WorkersLeave(r)
    BY <2>17 DEF WorkersLeave, WorkersTo
  <2> QED
    BY <1>1, <2>1, <2>2, <2>3, <2>4, <2>5, <2>6, <2>7, <2>8, <2>9, <2>10,
       <2>11, <2>12, <2>13, <2>14, <2>15, <2>16, <2>17, <2>18, <2>19 DEF MonitorStep
<1>2. CASE WebStop
  BY <1>2 DEF WebStop, WebAt, IsRunning
<1>3. CASE WebStopMark
  BY <1>3 DEF WebStopMark, WebAt, StopMark, Transition, Allowed
<1>4. CASE WebStopClear
  BY <1>4 DEF WebStopClear, WebAt, StopClear
<1>5. CASE WebStopEnds
  BY <1>5 DEF WebStopEnds, WebAt, StopWaitEnds
<1>6. CASE WebStart
  BY <1>6 DEF WebStart, WebAt, IsRunning
<1>7. CASE StartRefused
  BY <1>7 DEF StartRefused, WebAt
<1>8. CASE StartArm
  BY <1>8 DEF StartArm, WebAt
<1>9. CASE StartMark
  BY <1>9 DEF StartMark, WebAt, Transition, Allowed
<1>10. CASE StartSpawn
  BY <1>10 DEF StartSpawn, WebAt
<1>11. CASE StartSpawnFails
  BY <1>11 DEF StartSpawnFails, WebAt, Transition, Allowed
<1>12. CASE WebExit
  BY <1>12 DEF WebExit, WebAt
<1>13. CASE MainTest
  BY <1>13 DEF MainTest, MainTo, MainAt
<1>14. CASE MainPause
  BY <1>14 DEF MainPause, MainTo, MainAt
<1>15. CASE MainCheck
  BY <1>15 DEF MainCheck, MainTo, MainAt
<1>16. CASE MainStop
  BY <1>16 DEF MainStop, MainTo, MainAt
<1>17. CASE MainStopMark
  BY <1>17 DEF MainStopMark, MainTo, MainAt, StopMark, Transition, Allowed
<1>18. CASE MainStopClear
  BY <1>18 DEF MainStopClear, MainTo, MainAt, StopClear
<1>19. CASE MainStopEnds
  BY <1>19 DEF MainStopEnds, MainTo, MainAt, StopWaitEnds
<1>20. CASE MainWebStop
  BY <1>20 DEF MainWebStop, MainTo, MainAt
<1>21. CASE MainWebJoin
  BY <1>21 DEF MainWebJoin, MainTo, MainAt
<1>22. CASE DestroyLower
  BY <1>22 DEF DestroyLower, MainTo, MainAt
<1>23. CASE DestroyReceiver
  BY <1>23 DEF DestroyReceiver, MainTo, MainAt
<1>24. CASE DestroyClear
  BY <1>24 DEF DestroyClear, MainTo, MainAt
<1>25. CASE DestroyForce
  BY <1>25 DEF DestroyForce, MainTo, MainAt, Transition, Allowed
<1>26. CASE DestroyWaited
  BY <1>26 DEF DestroyWaited, MainTo, MainAt
<1>27. CASE DestroyIdle
  BY <1>27 DEF DestroyIdle, MainTo, MainAt
<1>28. CASE DestroyFree
  BY <1>28 DEF DestroyFree, MainTo, MainAt
<1>29. CASE Sigint
  BY <1>29 DEF Sigint
<1>30. CASE SigintReturns
  BY <1>30 DEF SigintReturns, Transition, Allowed
<1>31. CASE SigintAgain
  BY <1>31 DEF SigintAgain
<1>32. CASE UNCHANGED vars
  BY <1>32 DEF vars
<1> QED
  BY <1>1, <1>2, <1>3, <1>4, <1>5, <1>6, <1>7, <1>8, <1>9, <1>10, <1>11,
     <1>12, <1>13, <1>14, <1>15, <1>16, <1>17, <1>18, <1>19, <1>20, <1>21,
     <1>22, <1>23, <1>24, <1>25, <1>26, <1>27, <1>28, <1>29, <1>30, <1>31,
     <1>32
  DEF Next, WebServe, WebWork, MainStep

\* Every step keeps a monitor on a machine that shows RUNNING.
LEMMA WatchStep ==
  ASSUME TypeOK, RunsInOrder, StartAlone, WatchedHaveWorkers, RunningIsWatched, [Next]_vars
  PROVE  RunningIsWatched'
<1> USE DEF TypeOK, shared, sensors, monVars, hostVars,
       MonitorTo, MainMoves, Runs, RunsInOrder, StartAlone, WatchedHaveWorkers,
       RunningIsWatched, Active, Working
<1>1. ASSUME NEW r \in Runs,
             \/ MonitorStep(r) \/ MonitorStuck(r) \/ WorkersAlive(r)
             \/ WorkersGiveUp(r) \/ WorkersLeave(r)
      PROVE  RunningIsWatched'
  <2>1. CASE MonitorRefused(r)
    BY <2>1 DEF MonitorRefused, MonitorAt
  <2>2. CASE MonitorOpen(r)
    BY <2>2 DEF MonitorOpen, MonitorAt
  <2>3. CASE MonitorNoRing(r)
    BY <2>3 DEF MonitorNoRing, MonitorAt
  <2>4. CASE MonitorSpawn(r)
    BY <2>4 DEF MonitorSpawn, MonitorAt
  <2>5. CASE MonitorArm(r)
    BY <2>5 DEF MonitorArm, MonitorAt
  <2>6. CASE MonitorAlive(r)
    BY <2>6 DEF MonitorAlive, Watching, MonitorAt, Transition, Allowed
  <2>7. CASE MonitorStartupTimeout(r)
    BY <2>7 DEF MonitorStartupTimeout, Watching, MonitorAt, Transition, Allowed
  <2>8. CASE MonitorStuck(r)
    BY <2>8 DEF MonitorStuck, Watching, MonitorAt
  <2>9. CASE MonitorLeave(r)
    BY <2>9 DEF MonitorLeave, MonitorAt, Transition, Allowed
  <2>10. CASE MonitorJoin(r)
    BY <2>10 DEF MonitorJoin, MonitorAt
  <2>11. CASE MonitorDropReceiver(r)
    BY <2>11 DEF MonitorDropReceiver, MonitorAt
  <2>12. CASE MonitorClearReceiver(r)
    BY <2>12 DEF MonitorClearReceiver, MonitorAt
  <2>13. CASE MonitorLower(r)
    BY <2>13 DEF MonitorLower, MonitorAt
  <2>14. CASE MonitorRead(r)
    BY <2>14 DEF MonitorRead, MonitorAt
  <2>18. CASE MonitorShow(r)
    BY <2>18 DEF MonitorShow, MonitorAt, Transition, Allowed
  <2>19. CASE MonitorEnd(r)
    BY <2>19 DEF MonitorEnd, MonitorAt
  <2>15. CASE WorkersAlive(r)
    BY <2>15 DEF WorkersAlive, WorkersTo
  <2>16. CASE WorkersGiveUp(r)
    BY <2>16 DEF WorkersGiveUp, WorkersTo
  <2>17. CASE WorkersLeave(r)
    BY <2>17 DEF WorkersLeave, WorkersTo
  <2> QED
    BY <1>1, <2>1, <2>2, <2>3, <2>4, <2>5, <2>6, <2>7, <2>8, <2>9, <2>10,
       <2>11, <2>12, <2>13, <2>14, <2>15, <2>16, <2>17, <2>18, <2>19 DEF MonitorStep
<1>2. CASE WebStop
  BY <1>2 DEF WebStop, WebAt, IsRunning
<1>3. CASE WebStopMark
  BY <1>3 DEF WebStopMark, WebAt, StopMark, Transition, Allowed
<1>4. CASE WebStopClear
  BY <1>4 DEF WebStopClear, WebAt, StopClear
<1>5. CASE WebStopEnds
  BY <1>5 DEF WebStopEnds, WebAt, StopWaitEnds
<1>6. CASE WebStart
  BY <1>6 DEF WebStart, WebAt, IsRunning
<1>7. CASE StartRefused
  BY <1>7 DEF StartRefused, WebAt
<1>8. CASE StartArm
  BY <1>8 DEF StartArm, WebAt
<1>9. CASE StartMark
  BY <1>9 DEF StartMark, WebAt, Transition, Allowed
<1>10. CASE StartSpawn
  BY <1>10 DEF StartSpawn, WebAt
<1>11. CASE StartSpawnFails
  BY <1>11 DEF StartSpawnFails, WebAt, Transition, Allowed
<1>12. CASE WebExit
  BY <1>12 DEF WebExit, WebAt
<1>13. CASE MainTest
  BY <1>13 DEF MainTest, MainTo, MainAt
<1>14. CASE MainPause
  BY <1>14 DEF MainPause, MainTo, MainAt
<1>15. CASE MainCheck
  BY <1>15 DEF MainCheck, MainTo, MainAt
<1>16. CASE MainStop
  BY <1>16 DEF MainStop, MainTo, MainAt
<1>17. CASE MainStopMark
  BY <1>17 DEF MainStopMark, MainTo, MainAt, StopMark, Transition, Allowed
<1>18. CASE MainStopClear
  BY <1>18 DEF MainStopClear, MainTo, MainAt, StopClear
<1>19. CASE MainStopEnds
  BY <1>19 DEF MainStopEnds, MainTo, MainAt, StopWaitEnds
<1>20. CASE MainWebStop
  BY <1>20 DEF MainWebStop, MainTo, MainAt
<1>21. CASE MainWebJoin
  BY <1>21 DEF MainWebJoin, MainTo, MainAt
<1>22. CASE DestroyLower
  BY <1>22 DEF DestroyLower, MainTo, MainAt
<1>23. CASE DestroyReceiver
  BY <1>23 DEF DestroyReceiver, MainTo, MainAt
<1>24. CASE DestroyClear
  BY <1>24 DEF DestroyClear, MainTo, MainAt
<1>25. CASE DestroyForce
  BY <1>25 DEF DestroyForce, MainTo, MainAt, Transition, Allowed
<1>26. CASE DestroyWaited
  BY <1>26 DEF DestroyWaited, MainTo, MainAt
<1>27. CASE DestroyIdle
  BY <1>27 DEF DestroyIdle, MainTo, MainAt
<1>28. CASE DestroyFree
  BY <1>28 DEF DestroyFree, MainTo, MainAt
<1>29. CASE Sigint
  BY <1>29 DEF Sigint
<1>30. CASE SigintReturns
  BY <1>30 DEF SigintReturns, Transition, Allowed
<1>31. CASE SigintAgain
  BY <1>31 DEF SigintAgain
<1>32. CASE UNCHANGED vars
  BY <1>32 DEF vars
<1> QED
  BY <1>1, <1>2, <1>3, <1>4, <1>5, <1>6, <1>7, <1>8, <1>9, <1>10, <1>11,
     <1>12, <1>13, <1>14, <1>15, <1>16, <1>17, <1>18, <1>19, <1>20, <1>21,
     <1>22, <1>23, <1>24, <1>25, <1>26, <1>27, <1>28, <1>29, <1>30, <1>31,
     <1>32
  DEF Next, WebServe, WebWork, MainStep

\* The state main leaves before its first wait satisfies LifecycleInv.
LEMMA LifecycleInvInit == Init => LifecycleInv
<1> SUFFICES ASSUME Init PROVE LifecycleInv
  OBVIOUS
<1>1. TypeOK
  <2>1. /\ running \in BOOLEAN /\ gRun \in BOOLEAN /\ handler \in BOOLEAN
        /\ restart \in BOOLEAN /\ webStop \in BOOLEAN
    BY DEF Init
  <2>2. /\ psm \in States /\ receiver \in {"null", "live", "freed"}
        /\ web \in WebStages /\ main \in MainStages
    BY DEF Init, States, WebStages, MainStages
  <2>3. runs \in 0..MaxRuns
    BY MaxRunsAssumption DEF Init
  <2>4. /\ mon \in [Runs -> MonitorStages]
        /\ workers \in [Runs -> {"none", "starting", "alive", "gone"}]
        /\ shutdown \in [Runs -> BOOLEAN]
    BY DEF Init, MonitorStages
  <2>5. SensorsOK
    BY MaxRunsAssumption DEF Init, SensorsOK
  <2> QED
    BY <2>1, <2>2, <2>3, <2>4, <2>5 DEF TypeOK
<1>2. RunsInOrder
  BY MaxRunsAssumption DEF Init, RunsInOrder, Runs, Active, Working
<1>3. StartAlone /\ WebJoined /\ IdleMeansNoMonitor
  BY DEF Init, StartAlone, WebJoined, IdleMeansNoMonitor, Active,
         Working
<1>4. /\ WorkersHaveMonitor /\ WatchedHaveWorkers /\ ReceiverHasMonitor
      /\ RunningIsWatched
  BY DEF Init, WorkersHaveMonitor, WatchedHaveWorkers, ReceiverHasMonitor,
         RunningIsWatched
<1> QED
  BY <1>1, <1>2, <1>3, <1>4 DEF LifecycleInv

\* LifecycleInv is inductive.
LEMMA LifecycleInvStep == LifecycleInv /\ [Next]_vars => LifecycleInv'
<1> SUFFICES ASSUME LifecycleInv, [Next]_vars PROVE LifecycleInv'
  OBVIOUS
<1> QED
  BY TypeStep, OrderStep, WorkersStep, ReceiverStep, WatchStep DEF LifecycleInv

\* The invariant of starting and stopping holds however many runs there are.
THEOREM LifecycleInvariant == Spec => []LifecycleInv
BY LifecycleInvInit, LifecycleInvStep, PTL DEF Spec

\* There is never more than one pipeline: a start waits for IDLE, and only the
\* monitor of the last run shows it, when it is through with everything but its
\* last broadcast.
THEOREM NeverTwoPipelines == Spec => []OneMonitor
<1>1. LifecycleInv => OneMonitor
  <2> SUFFICES ASSUME LifecycleInv, NEW q \in Runs, NEW r \in Runs,
                      Active(q), Active(r), q < r
               PROVE  mon[q] = "tell"
    BY DEF OneMonitor
  <2>1. r <= runs
    BY DEF LifecycleInv, TypeOK, RunsInOrder, Active, Runs
  <2>2. q # runs
    BY <2>1 DEF LifecycleInv, TypeOK, Runs
  <2>3. ~Working(q)
    BY <2>2 DEF LifecycleInv, RunsInOrder
  <2> QED
    BY <2>3 DEF Working
<1> QED
  BY <1>1, LifecycleInvariant, PTL

\* A machine that shows IDLE has no run under way: its workers are joined, its
\* receiver is gone and its monitor changes nothing more.
THEOREM IdleIsQuiet == Spec => []IdleMeansQuiet
<1>1. LifecycleInv => IdleMeansQuiet
  BY DEF LifecycleInv, IdleMeansNoMonitor, WorkersHaveMonitor,
         ReceiverHasMonitor, IdleMeansQuiet, Quiet, Active, Working
<1> QED
  BY <1>1, LifecycleInvariant, PTL

\* Whoever sees RUNNING has a monitor in its loop behind it: every way out of
\* that loop moves the machine on in the same step.
THEOREM RunningHasMonitor == Spec => []RunningIsWatched
<1>1. LifecycleInv => RunningIsWatched
  BY DEF LifecycleInv
<1> QED
  BY <1>1, LifecycleInvariant, PTL

=============================================================================
