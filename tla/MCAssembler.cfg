SPECIFICATION Spec
CONSTANTS
  Sources <- AnyText
  Arity <- MCArity
  FloatKeyword = {"fset"}
  Register <- MCRegister
  Reference <- MCReference
  Number <- MCNumber
  TooLong = {"Llong"}
  Garbage = {0, 9}
  TK_SIZE = 4
  LABELS_SIZE = 2
  PROGRAM_SIZE = 3
INVARIANTS
  TypeOK
  OnlyLoneWordsLost
  WellSpacedIndexed
  WellSpacedResolved
  FittingSourcesDefined
  HardlySpacedAssembled
PROPERTIES
  HardlySpacedPassesAgree
