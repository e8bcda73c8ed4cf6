\* Two tracks of one age and four detections: two rows of the square are padding.
CONSTANTS
  Rows = 2
  Cols = 4
  Costs = {1, 4, 12}
  Pad = 4096
  Bits = 2
SPECIFICATION HungarianSpec
PROPERTY Returns
CHECK_DEADLOCK FALSE
