SPECIFICATION FairSpec
CONSTANTS
  LLONG_MAX = 9999
  OutOfRange <- MCOutOfRange
  Follows <- MCFollows
  Words <- MCWords
  Lines <- MCLines
  PATH_MAX = 2
  STACK_MAX = 3
  MaxTokens = 4
  MaxLines = 0
PROPERTY ParseEnds
CHECK_DEADLOCK FALSE
