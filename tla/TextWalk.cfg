CONSTANTS
  Kinds <- MCKinds
  Alphabet <- MCAlphabet
  MaxLen <- MCMaxLen
  Sizes = {1, 2, 3, 4, 5, 6, 7, 8, 9, 10, 11, 12, 13, 14}
SPECIFICATION Spec
INVARIANTS
  RecordsRead
  LinesAgree
  CharactersStayWhole
  EncodingsInvert
CHECK_DEADLOCK FALSE
