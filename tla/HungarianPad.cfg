\* Two tracks of one age and one detection: the second column of the square is
\* padding.  As in the code, a cost vanishes beside Pad: floats of 12 bits
\* just below Pad are 256 apart.
CONSTANTS
  Rows = 2
  Cols = 1
  Costs = {1, 4}
  Pad = 1048576
  Bits = 12
SPECIFICATION HungarianSpec
INVARIANT Optimal
CHECK_DEADLOCK FALSE
