\* Two runs, so that what is left of the first can meet the second.
CONSTANTS
  MaxRuns = 2
  Sensors = {"camera"}
SPECIFICATION FairSpec
INVARIANTS
  LifecycleInv
  IdleMeansQuiet
  OneMonitor
  RunningIsWatched
PROPERTIES
  StopObeyed
  MainExits
\* The process ends.
CHECK_DEADLOCK FALSE
