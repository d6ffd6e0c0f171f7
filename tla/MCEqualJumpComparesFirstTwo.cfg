SPECIFICATION Spec
CONSTANTS
  Programs <- MCPrograms
  Radix = 2
  INT_REG_COUNT = 3
  FLT_REG_COUNT = 3
  FRAME_COUNT = 2
  STACK_SIZE = 12
  Logging = TRUE
  FloatArith <- MCFloatArith
  FloatCompare <- MCFloatCompare
  ToFloat <- MCToFloat
  FromFloat <- MCFromFloat
PROPERTIES
  EqualJumpComparesFirstTwo
