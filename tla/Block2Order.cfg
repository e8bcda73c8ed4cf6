\* One frame of two blocks, swapped by the network.
CONSTANTS
  Clients = {"k1"}
  Me = "k1"
  EtagMod = 16
  PerTick = 2
  MaxFrames = 1
  MaxBlocks = 2
  MaxNet = 2
SPECIFICATION Spec
INVARIANTS
  AnyOrder
CHECK_DEADLOCK FALSE
