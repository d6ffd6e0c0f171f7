SPECIFICATION Spec
CONSTANTS
  Name = {"str1", "str2"}
  Char = {"a", "b"}
  Text <- MCText
  Block = {1, 2, 3}
  MaxLen = 4
  DoublesOnly = TRUE
INVARIANTS
  EachOwnsItsBlock
  OnlyEmptyBlocksLeak
  SearchesAgree
PROPERTY
  Implements
