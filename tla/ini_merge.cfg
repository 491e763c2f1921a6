CONSTANTS
  Sections = {s1, s2}
  Keys = {k1, k2}
  Values = {v1, v2}
  Comments = {c1}
  NoFile = NoFile
  MaxLines = 4
  MaxEdits = 2
SPECIFICATION Spec
INVARIANTS
  TypeOK
  IndexSound
PROPERTIES
  StoreImplemented
  CommentsKept
  OrderKept
  SaveIdempotent
SYMMETRY MCSymmetry
