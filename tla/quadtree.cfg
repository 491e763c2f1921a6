CONSTANTS
  Significands = 1024
  Capacity = 1
  MaxPoints = 4
  Roots <- MCRoots
  Positions <- MCPositions
  Ranges <- MCRanges
  Circles <- MCCircles
SPECIFICATION Spec
INVARIANTS
  TypeOK
  PlacedOnce
  RangeQuery
  CircleQuery
  LostOnlyByRounding
CHECK_DEADLOCK FALSE
