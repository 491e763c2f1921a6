CONSTANTS
  Channels = {master, music}
  Master = master
  Last = music
  Sizes = {hd, fullhd}
  DefaultSize = hd
  Volumes <- MCVolumes
  EditedPercents <- MCEditedPercents
  Inexact <- MCInexact
SPECIFICATION Spec
INVARIANTS
  TypeOK
  RestartFaithful
  DriftBounded
  DeviceFollows
  
  SInv
