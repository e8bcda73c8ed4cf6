\* Two subscribers sharing the server's buffer; frames of up to three blocks, two
\* of which fit a tick, so that a frame is interrupted between bursts.  EtagMod is
\* beyond MaxFrames: the ETag does not wrap in this run.
CONSTANTS
  Clients = {"k1", "py"}
  Me = "k1"
  EtagMod = 16
  PerTick = 2
  MaxFrames = 3
  MaxBlocks = 3
  MaxNet = 2
SPECIFICATION Spec
INVARIANTS
  AssemblyCounts
  WholeFrames
  BufferKept
  Healing
\* The last picture taken and the network empty, nothing need happen.
CHECK_DEADLOCK FALSE
