\* One run is enough to lose a stop request.
CONSTANTS
  MaxRuns = 1
  Sensors = {"camera", "imu"}
SPECIFICATION FairSpec
PROPERTIES
  StopHonoured
\* The process ends.
CHECK_DEADLOCK FALSE
