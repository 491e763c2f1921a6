CONSTANTS
  FrameTimes <- MCFrameTimes
  total_intro_time = 5
  intro_logo_time = 2
SPECIFICATION Spec
INVARIANTS
  TypeOK
  LogoOwned
  FadeFromZero
PROPERTIES
  IntroEnds
