CONSTANTS
  Tiles = {t1}
  Addr = {a1, a2}
  FrameTimes <- MCFrameTimes
  physTime = 2
  jumpDuration = 2
  MaxResets = 2
SPECIFICATION SafeSpec
INVARIANTS
  TypeOK
  SingleImpulse
  NoStaleForce
  TimeConserved
  FirstGameDefined
  IInv
PROPERTIES
  StaleFilterOnlyOnReset
  KJumpSpacing
  JumpSafety
SYMMETRY MCSymmetry
