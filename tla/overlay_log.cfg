CONSTANTS
  Texts <- MCTexts
  FontText = 3
  PathText = 4
  Buffers = 4
  MaxLines = 2
SPECIFICATION Spec
INVARIANTS
  TypeOK
  LinesIntact
  WidthsOfLines
  LogBounded
