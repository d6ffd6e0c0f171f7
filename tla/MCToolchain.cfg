SPECIFICATION MCSpec
CONSTANTS
  Files <- MCFiles
  Letter <- MCLetter
  Digit <- MCDigit
  StackGarbage <- MCStackGarbage
  MAX_SIZE = 56
  DEFAULT_LITERAL_SIZE = 6
  TOKENS_BLOCK_SIZE = 24
  Register <- MCRegister
  Reference <- MCReference
  Number <- MCNumber
  Garbage = {15}
  PREFIX_SIZE = 4
  TK_SIZE = 5
  LABELS_SIZE = 2
  PROGRAM_SIZE = 8
  Radix = 8
  INT_REG_COUNT = 3
  FLT_REG_COUNT = 2
  FRAME_COUNT = 2
  STACK_SIZE = 16
  Logging = FALSE
  FloatArith <- MCFloatArith
  FloatCompare <- MCFloatCompare
  ToFloat <- MCToFloat
  FromFloat <- MCFromFloat
  WordSpelling <- MCWordSpelling
  Source = "src"
  CommandLines <- MCCommandLines
  EarlierFiles <- MCEarlierFiles
INVARIANTS
  TypeOK
  TokensSpellText
  SmallSourcesDefined
  ExitsAsDesired
  RunsOneProgram
  ListingTellsApart
PROPERTIES
  BranchesReachLabels
  AssemblerEnds
