CONSTANTS
  Texts <- MCTexts
  Canonicals <- MCCanonicals
  INT64_MAX = 98
  ERROR_MESSAGE_MAX = 250
SPECIFICATION FairFront
INVARIANTS
  TypeOK
  PositionsAgree
  TokensTile
  LexemesMaximal
  RoundTrip
  RefusalNamesToken
  CrashesHaveCause
PROPERTIES
  Terminates
CHECK_DEADLOCK FALSE
