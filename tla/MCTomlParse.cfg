SPECIFICATION FairSpec
CONSTANTS
  LLONG_MAX = 9999
  OutOfRange <- MCOutOfRange
  Follows <- MCFollows
  Words <- MCWords
  Lines <- MCLines
  PATH_MAX = 2
  STACK_MAX = 3
  MaxTokens = 6
  MaxLines = 3
INVARIANTS TypeOK ReleasesAll  JsonPrintsAll CatPrintsAll
PROPERTIES Implements EndsUnlessOpen
CHECK_DEADLOCK FALSE
