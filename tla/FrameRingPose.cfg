\* The ring as the code builds it: K1_RING_SIZE is 4.
CONSTANTS
  RingSize = 4
  HasLimit = FALSE
SPECIFICATION Spec
INVARIANTS
  PoseMatchesFrame
\* The pipeline stops for good once the monitor has freed it.
CHECK_DEADLOCK FALSE
