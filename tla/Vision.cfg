\* Matching: three tracks and three detections.  Floats of 12 bits hold these costs
\* and Pad exactly.
\* Tracks: up to three, two detections a frame, so that tracks compete, overlap, are
\* lost for longer than each limit, merge and are removed from the middle.
\* Persons: one more track than places.  Faces: one more than slots.
\* Cascade: intervals that divide and do not divide each other; three detections with
\* one track are a crowd.
CONSTANTS
  Rows = 3
  Cols = 3
  Costs = {1, 4, 7}
  Pad = 1048576
  Bits = 12
  Spots = {0, 1, 3}
  Drift = 1
  MaxTracks = 3
  ConfirmHits = 2
  MaxAge = 2
  MaxLost = 1
  MaxOccluded = 2
  Patience = 1
  MaxDets = 2
  MaxIds = 3
  PersonIds = {0, 1, 2, 3}
  MaxPersons = 3
  Timeout = 2
  Period = 1
  Origin = origin
  Settle = 2
  LostFrames = 3
  Validate = 2
  StaticSkip = 2
  LowSkip = 1
  ForceEvery = 3
  FaceTracking = 3
  FaceSearching = 2
  FaceNobody = 6
  FaceDelay = 2
  Cycle = 6
  MaxPeople = 3
  FaceTracks = {1, 2, 3}
  FaceNames = {m, n}
  CacheSlots = 2
  ShowFor = 2
  Vacant = vacant
  Window = 3
  MinFrames = 2
  Interval = 2
  InFlight = 2
  MaxRuns = 4
SPECIFICATION VisionSpec
INVARIANTS
  Matching
  Optimal
  UniqueIds
  FreshFirst
  NewOnlyIfMore
  OnePlace
  OwnAnchor
  FaceCarried
  ActionOrder
PROPERTIES
  TracksForgotten
  FlipsEarned
  BackToSearching
\* A matching is done when every row has its column.
CHECK_DEADLOCK FALSE
