CONSTANTS
  FrameTimes <- MCFrameTimes
  joystickCooldown = 4
SPECIFICATION Spec
INVARIANTS
  TypeOK
  CooldownInv
PROPERTIES
  StickRepeatSpaced
  HeldStickRepeats
