\* Two slots: the ring fills, drains and wraps, with two stages inside its slots and
\* capture back at the first.  The invariants are proved for a ring of any size.
CONSTANTS
  RingSize = 2
  HasLimit = TRUE
SPECIFICATION FairSpec
INVARIANTS
  
  
  
  FullMeansWork
PROPERTIES
  
  FramesDrain
  ShutdownCompletes
\* The pipeline stops for good once the monitor has freed it.
CHECK_DEADLOCK FALSE
