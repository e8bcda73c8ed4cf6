\* Logger: three threads for two rings of one usable entry, so that rings fill, wrap
\* and run out, with one flush at a time beside the writer.
\* Gallery: three tracks for two entries, one name besides nobody.
\* Hub: three browsers for two places, four frames for two slots; a browser may ask
\* twice in one read.
CONSTANTS
  Threads = {a, b, c}
  Flushers = {f}
  Writer = w
  MaxRings = 2
  Slots = 2
  MaxLogs = 3
  Beyond = FALSE
  GalleryTracks = {a, b, c}
  Names = {m}
  Nobody = nobody
  Scores = {1, 2}
  GallerySlots = 2
  Ttl = 1
  Empty = empty
  Browsers = {x, y, z}
  MaxClients = 2
  RingSlots = 2
  MaxPushed = 4
  MaxTogether = 2
SPECIFICATION ServicesSpec
INVARIANTS
  DrainsAreComplete
  OneEntryPerTrack
  OneEntryPerName
  EachFrameOnce
  OnlyOpenClients
PROPERTIES
  RingsAreQueues
  HubKeepsQueue
  Delivered
  BestKept
  GalleryForgets
  FramesReachClients
\* The logger and the web server are shut down for good.
CHECK_DEADLOCK FALSE
