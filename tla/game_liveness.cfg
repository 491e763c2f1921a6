CONSTANTS
  Tiles = {t1}
  Addr = {a1}
  FrameTimes <- MCFrameTimes
  physTime = 2
  jumpDuration = 2
  MaxResets = 2
SPECIFICATION Spec
PROPERTIES
  JumpRefinement
  HeldKJumpsAgain
