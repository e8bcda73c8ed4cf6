\* One run is enough for the destroy to overtake it.
CONSTANTS
  MaxRuns = 1
  Sensors = {"camera", "imu"}
SPECIFICATION Spec
INVARIANTS
  FreedAfterThreads
\* The process ends.
CHECK_DEADLOCK FALSE
