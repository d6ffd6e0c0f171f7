SPECIFICATION TesterSpec
CONSTANTS
  Programs <- MCPrograms
  Radix = 4
  INT_REG_COUNT = 4
  FLT_REG_COUNT = 4
  FRAME_COUNT = 5
  STACK_SIZE = 24
  Logging = TRUE
  FloatArith <- MCFloatArith
  FloatCompare <- MCFloatCompare
  ToFloat <- MCToFloat
  FromFloat <- MCFromFloat
  TenAndAHalf = 21
  TestLists <- MCTestLists
INVARIANTS
  ReturnsDesired
  PrintsText
  OrderedTestsPass
  VerdictMatchesScore
PROPERTIES
  AllTestsPass
  PassesAfterAnyTest
