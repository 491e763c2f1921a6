CONSTANTS
  Significands = 1024
  Capacity = 1
  MaxPoints = 4
  Roots <- MCRoots
  Positions <- MCPositions
  Ranges <- MCRanges
  Circles <- MCCircles
SPECIFICATION Spec
CHECK_DEADLOCK FALSE
INVARIANT NeverRefused
