CONSTANTS
  Kinds <- MCPlainKinds
  Alphabet <- MCPlain
  MaxLen <- MCPlainLen
  Sizes = {1, 2, 3, 4, 5, 6, 7, 8, 9, 10, 11, 12, 13, 14}
SPECIFICATION Spec
INVARIANT EncodersAsDocumented
CHECK_DEADLOCK FALSE
