CONSTANTS
  Texts <- StackedTexts
  Canonicals <- StackedTexts
  INT64_MAX = 98
  ERROR_MESSAGE_MAX = 250
SPECIFICATION FrontSpec
INVARIANT
  StackedUnaryRefused
CHECK_DEADLOCK FALSE
